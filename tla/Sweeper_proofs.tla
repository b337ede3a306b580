--------------------------- MODULE Sweeper_proofs ---------------------------
(***************************************************************************)
(* A sweeper process: the run it writes (SweepRun) and what its closing    *)
(* records (SweepClosing), for every number of sessions and agents, every  *)
(* cap and every set of faults; and the watchdog beside it (StallWatchdog),*)
(* for every choice of the intervals, fresh or resumed, in observe-only    *)
(* mode or not, whatever fails.                                            *)
(***************************************************************************)
EXTENDS SweepClosing, StallWatchdog, FiniteSetTheorems, TLAPS

-----------------------------------------------------------------------------
(***************************************************************************)
(* The run.                                                                *)
(***************************************************************************)

\* The agents of a run are finitely many.
LEMMA AgentsFinite == IsFiniteSet(Agents)
  BY SweepAssumption, FS_Interval, 0 \in Int, Discovered - 1 \in Int DEF Agents

\* A set of agents has a number of members.
LEMMA CountType == ASSUME NEW S \in SUBSET Agents PROVE Cardinality(S) \in Nat
  <1>1. IsFiniteSet(S)
    BY AgentsFinite, FS_Subset
  <1>2. QED
    BY <1>1, FS_CardinalityType

\* The scope of a session is a set of agents.
LEMMA ScopeType == ASSUME NEW n PROVE Scope(n) \in SUBSET Agents
  BY DEF Scope

\* Every variable keeps its type.
THEOREM TypeCorrect == Spec => []TypeOK
  <1>1. Init => TypeOK
    BY SweepAssumption DEF Init, TypeOK, Phases, Count, Null, NoManifest
  <1>2. ASSUME TypeOK, NEW s \in Sessions, SessionStep(s)
        PROVE  TypeOK'
    <2> USE <1>2 DEF TypeOK, Goto, db, disk, loaded, work, tally, Phases, Count, Null
    <2>1. CASE OpenRun(s) \/ ResumeRun(s)
      BY <2>1, SweepAssumption DEF OpenRun, ResumeRun, StartSession
    <2>2. CASE Enumerate(s)
      BY <2>2, CountType, ScopeType DEF Enumerate, NoManifest
    <2>3. CASE EnumerateFails(s) \/ ExportFails(s) \/ CloseFails(s) \/ FinalManifestFails(s)
      BY <2>3 DEF EnumerateFails, ExportFails, CloseFails, FinalManifestFails, Abort
    <2>4. CASE Unreadable(s) \/ TakeAgent(s)
      BY <2>4, SweepAssumption DEF Unreadable, TakeAgent
    <2>5. CASE WriteCommits(s) \/ Export(s)
      BY <2>5 DEF WriteCommits, Commits, Export
    <2>6. CASE WriteFailsTransiently(s) \/ WriteCommitsUnacknowledged(s) \/ WriteRefused(s)
      BY <2>6, SweepAssumption
         DEF WriteFailsTransiently, WriteCommitsUnacknowledged, Commits, WriteRefused,
             RetryOrGiveUp, GiveUp
    <2>7. TotalSwept(s) \in Nat
      BY CountType DEF TotalSwept
    <2>8. CASE CloseRun(s) \/ ClosePartial(s)
      BY <2>7, <2>8 DEF CloseRun, ClosePartial, FailRun
    <2>9. CASE FinalManifest(s)
      <3>1. /\ Cardinality(Scope(cap[s])) \in Nat
            /\ Cardinality(unreadable[s]) \in Nat
            /\ Cardinality(unwritable[s]) \in Nat
        BY CountType, ScopeType
      <3>2. QED
        BY <2>7, <2>9, <3>1 DEF FinalManifest
    <2>10. CASE ErrorBoundary(s)
      BY <2>10 DEF ErrorBoundary, TryFailRun, FailRun
    <2>11. CASE WatchdogFires(s) \/ WatchdogExits(s) \/ Crash(s)
      BY <2>11 DEF WatchdogFires, WatchdogExits, Crash, Dies, TryFailRun, FailRun
    <2>12. QED
      BY <2>1, <2>2, <2>3, <2>4, <2>5, <2>6, <2>8, <2>9, <2>10, <2>11
         DEF SessionStep, MainStep
  <1>3. TypeOK /\ [Next]_vars => TypeOK'
    BY <1>2 DEF Next, vars, TypeOK, db, disk, loaded, work, tally
  <1>4. QED
    BY <1>1, <1>3, PTL DEF Spec

-----------------------------------------------------------------------------
\* What every step leaves true of the sets that only grow.
LEMMA StepGrows ==
    ASSUME TypeOK, NEW s \in Sessions, SessionStep(s)
    PROVE  /\ snaps \subseteq snaps'
           /\ \A t \in Sessions : /\ unreadable[t] \subseteq unreadable'[t]
                                  /\ unwritable[t] \subseteq unwritable'[t]
  <1> USE DEF TypeOK, db, disk, loaded, work, tally
  <1>1. CASE OpenRun(s) \/ ResumeRun(s)
    BY <1>1 DEF OpenRun, ResumeRun, StartSession
  <1>2. CASE Unreadable(s)
    BY <1>2 DEF Unreadable
  <1>3. CASE WriteCommits(s) \/ WriteCommitsUnacknowledged(s)
    BY <1>3 DEF WriteCommits, WriteCommitsUnacknowledged, Commits, RetryOrGiveUp, GiveUp
  <1>4. CASE WriteFailsTransiently(s) \/ WriteRefused(s)
    BY <1>4 DEF WriteFailsTransiently, WriteRefused, RetryOrGiveUp, GiveUp
  <1>5. CASE Enumerate(s) \/ TakeAgent(s) \/ Export(s) \/ FinalManifest(s)
    BY <1>5 DEF Enumerate, TakeAgent, Export, FinalManifest
  <1>6. CASE CloseRun(s) \/ ClosePartial(s) \/ ErrorBoundary(s) \/ WatchdogFires(s)
    BY <1>6 DEF CloseRun, ClosePartial, ErrorBoundary, WatchdogFires
  <1>7. CASE \/ EnumerateFails(s) \/ ExportFails(s) \/ CloseFails(s)
             \/ FinalManifestFails(s) \/ WatchdogExits(s) \/ Crash(s)
    BY <1>7 DEF EnumerateFails, ExportFails, CloseFails, FinalManifestFails, Abort,
                WatchdogExits, Crash, Dies
  <1>8. QED
    BY <1>1, <1>2, <1>3, <1>4, <1>5, <1>6, <1>7, SMT DEF SessionStep, MainStep

\* A step of one session keeps the bookkeeping of all of them.
LEMMA SessionInvStep ==
    ASSUME TypeOK, \A t \in Sessions : SessionInv(t),
           NEW s \in Sessions, SessionStep(s), NEW t \in Sessions
    PROVE  SessionInv(t)'
  <1> USE DEF TypeOK, SessionInv, Goto, Phases, db, disk, loaded, work, tally
  <1>1. CASE OpenRun(s)
    BY <1>1 DEF OpenRun, StartSession, MayStart
  <1>2. CASE ResumeRun(s)
    BY <1>2 DEF ResumeRun, StartSession, MayStart
  <1>3. CASE Enumerate(s)
    BY <1>3 DEF Enumerate
  <1>4. CASE Unreadable(s)
    BY <1>4 DEF Unreadable
  <1>5. CASE TakeAgent(s)
    BY <1>5 DEF TakeAgent
  <1>6. CASE WriteCommits(s)
    BY <1>6 DEF WriteCommits, Commits
  <1>7. CASE WriteFailsTransiently(s)
    BY <1>7 DEF WriteFailsTransiently, RetryOrGiveUp, GiveUp
  <1>8. CASE WriteCommitsUnacknowledged(s)
    BY <1>8 DEF WriteCommitsUnacknowledged, Commits, RetryOrGiveUp, GiveUp
  <1>9. CASE WriteRefused(s)
    BY <1>9 DEF WriteRefused, GiveUp
  <1>10. CASE Export(s)
    BY <1>10 DEF Export
  <1>11. CASE CloseRun(s) \/ ClosePartial(s) \/ FinalManifest(s) \/ ErrorBoundary(s)
    BY <1>11 DEF CloseRun, ClosePartial, FinalManifest, ErrorBoundary
  <1>12. CASE \/ EnumerateFails(s) \/ ExportFails(s) \/ CloseFails(s) \/ FinalManifestFails(s)
    BY <1>12 DEF EnumerateFails, ExportFails, CloseFails, FinalManifestFails, Abort
  <1>13. CASE WatchdogFires(s) \/ WatchdogExits(s) \/ Crash(s)
    BY <1>13 DEF WatchdogFires, WatchdogExits, Crash, Dies
  <1>14. QED
    BY <1>1, <1>2, <1>3, <1>4, <1>5, <1>6, <1>7, <1>8, <1>9, <1>10, <1>11, <1>12, <1>13
       DEF SessionStep, MainStep

\* Only an export adds a file, and it holds an agent whose rows committed.
LEMMA FileHasRowStep ==
    ASSUME TypeOK, IInv, NEW s \in Sessions, SessionStep(s)
    PROVE  FileHasRow'
  <1>1. snaps \subseteq snaps'
    BY StepGrows
  <1>2. files' = files \/ (Export(s) /\ files' = files \cup current[s])
    BY DEF SessionStep, MainStep, OpenRun, ResumeRun, StartSession, Enumerate, EnumerateFails,
           Unreadable, TakeAgent, WriteCommits, Commits, WriteFailsTransiently,
           WriteCommitsUnacknowledged, WriteRefused, Export, ExportFails, CloseRun,
           ClosePartial, CloseFails, FinalManifest, FinalManifestFails, ErrorBoundary,
           WatchdogFires, WatchdogExits, Crash, Dies, Abort, disk
  <1>3. Export(s) => current[s] \subseteq snaps
    BY DEF Export, IInv, SessionInv
  <1>4. QED
    BY <1>1, <1>2, <1>3 DEF IInv, FileHasRow

\* A session that closes the run has been through every agent, and the two
\* sets it counts are disjoint and have rows.
LEMMA CloseCovers ==
    ASSUME TypeOK, IInv, NEW s \in Sessions, CloseRun(s)
    PROVE  /\ Agents \subseteq snaps \cup unreadable[s] \cup unwritable[s]
           /\ TotalSwept(s) <= Cardinality(snaps)
           /\ TotalSwept(s) \in Nat
  <1>1. pc[s] = "sweeping" /\ todo[s] = {} /\ cap[s] >= Discovered
    BY DEF CloseRun, StreamDone
  <1>2. Agents = Scope(cap[s])
    BY <1>1, SweepAssumption DEF Agents, Scope, TypeOK
  <1>3. SessionInv(s)
    BY DEF IInv
  <1>4. current[s] = {}
    BY <1>1, <1>3 DEF SessionInv
  <1>5. Agents \subseteq snaps \cup unreadable[s] \cup unwritable[s]
    BY <1>1, <1>2, <1>3, <1>4 DEF SessionInv
  <1>6. /\ already[s] \in SUBSET snaps
        /\ swept[s] \in SUBSET snaps
        /\ already[s] \cap swept[s] = {}
    BY <1>3 DEF SessionInv
  <1>7. /\ IsFiniteSet(snaps) /\ IsFiniteSet(already[s]) /\ IsFiniteSet(swept[s])
        /\ already[s] \cup swept[s] \in SUBSET snaps
    BY <1>6, AgentsFinite, FS_Subset DEF TypeOK
  <1>8. Cardinality(already[s] \cup swept[s]) = TotalSwept(s)
    <2>1. Cardinality(already[s] \cap swept[s]) = 0
      BY <1>6, FS_EmptySet
    <2>2. /\ Cardinality(already[s]) \in Nat
          /\ Cardinality(swept[s]) \in Nat
      BY <1>7, FS_CardinalityType
    <2>3. Cardinality(already[s] \cup swept[s])
            = Cardinality(already[s]) + Cardinality(swept[s]) - Cardinality(already[s] \cap swept[s])
      BY <1>7, FS_Union, Zenon
    <2>4. QED
      BY <2>1, <2>2, <2>3 DEF TotalSwept
  <1>9. Cardinality(already[s] \cup swept[s]) <= Cardinality(snaps)
    BY <1>7, FS_Subset
  <1>10. Cardinality(already[s] \cup swept[s]) \in Nat
    BY <1>7, FS_Subset, FS_CardinalityType
  <1>11. QED
    BY <1>5, <1>8, <1>9, <1>10

\* Only close_run writes the status 'finished' and the count.
LEMMA RowStep ==
    ASSUME TypeOK, NEW s \in Sessions, SessionStep(s), row'.status = "finished"
    PROVE  \/ row.status = "finished" /\ row'.agent_count = row.agent_count
           \/ CloseRun(s) /\ row'.agent_count = TotalSwept(s)
  <1> USE DEF TypeOK, db
  <1>1. CASE CloseRun(s)
    BY <1>1 DEF CloseRun
  <1>2. CASE OpenRun(s)
    BY <1>2 DEF OpenRun
  <1>3. CASE ClosePartial(s) \/ ErrorBoundary(s) \/ WatchdogFires(s)
    BY <1>3 DEF ClosePartial, ErrorBoundary, WatchdogFires, TryFailRun, FailRun
  <1>4. CASE ~(CloseRun(s) \/ OpenRun(s) \/ ClosePartial(s) \/ ErrorBoundary(s) \/ WatchdogFires(s))
    <2>1. row' = row
      BY <1>4 DEF SessionStep, MainStep, ResumeRun, StartSession, Enumerate, EnumerateFails,
           Unreadable, TakeAgent, WriteCommits, WriteFailsTransiently,
           WriteCommitsUnacknowledged, WriteRefused, Export, ExportFails, CloseFails,
           FinalManifest, FinalManifestFails, WatchdogExits, Crash, Dies, Abort
    <2>2. QED
      BY <2>1
  <1>5. QED
    BY <1>1, <1>2, <1>3, <1>4

\* A step that leaves the run finished leaves a census, and a count that its rows bear out.
LEMMA FinishedStep ==
    ASSUME TypeOK, TypeOK', IInv, NEW s \in Sessions, SessionStep(s), row'.status = "finished"
    PROVE  /\ \E t \in Sessions : Agents \subseteq snaps' \cup unreadable'[t] \cup unwritable'[t]
           /\ row'.agent_count <= Cardinality(snaps')
  <1>1. /\ snaps \subseteq snaps'
        /\ \A t \in Sessions : /\ unreadable[t] \subseteq unreadable'[t]
                               /\ unwritable[t] \subseteq unwritable'[t]
    BY StepGrows
  <1>2. /\ Cardinality(snaps) \in Nat
        /\ Cardinality(snaps') \in Nat
        /\ Cardinality(snaps) <= Cardinality(snaps')
    <2>1. IsFiniteSet(snaps') /\ IsFiniteSet(snaps)
      BY AgentsFinite, FS_Subset DEF TypeOK
    <2>2. QED
      BY <1>1, <2>1, FS_Subset, FS_CardinalityType
  <1>3. CASE row.status = "finished" /\ row'.agent_count = row.agent_count
    <2>1. PICK t \in Sessions : Agents \subseteq snaps \cup unreadable[t] \cup unwritable[t]
      BY <1>3 DEF IInv, FinishedIsCensus
    <2>2. Agents \subseteq snaps' \cup unreadable'[t] \cup unwritable'[t]
      BY <1>1, <2>1
    <2>3. row.agent_count <= Cardinality(snaps) /\ row.agent_count \in Int
      BY <1>3 DEF IInv, NeverOverstates, TypeOK, Count, Null
    <2>4. QED
      BY <1>2, <1>3, <2>2, <2>3
  <1>4. CASE CloseRun(s) /\ row'.agent_count = TotalSwept(s)
    <2>1. Agents \subseteq snaps' \cup unreadable'[s] \cup unwritable'[s]
      BY <1>1, <1>4, CloseCovers
    <2>2. QED
      BY <1>2, <1>4, <2>1, CloseCovers
  <1>5. QED
    BY <1>3, <1>4, RowStep

\* The bookkeeping of the sessions, the files and the closed run, together.
THEOREM Inductive == Spec => []IInv
  <1>1. Init => IInv
    BY DEF Init, IInv, SessionInv, FileHasRow, FinishedIsCensus, NeverOverstates
  <1>2. ASSUME TypeOK, TypeOK', IInv, [Next]_vars
        PROVE  IInv'
    <2>1. CASE Next
      <3>1. PICK s \in Sessions : SessionStep(s)
        BY <2>1 DEF Next
      <3>2. \A t \in Sessions : SessionInv(t)'
        BY <1>2, <3>1, SessionInvStep DEF IInv
      <3>3. FileHasRow'
        BY <1>2, <3>1, FileHasRowStep
      <3>4. FinishedIsCensus' /\ NeverOverstates'
        BY <1>2, <3>1, FinishedStep DEF FinishedIsCensus, NeverOverstates
      <3>5. QED
        BY <3>2, <3>3, <3>4 DEF IInv
    <2>2. CASE UNCHANGED vars
      BY <1>2, <2>2 DEF vars, db, disk, loaded, work, tally, IInv, SessionInv, FileHasRow,
                        FinishedIsCensus, NeverOverstates
    <2>3. QED
      BY <1>2, <2>1, <2>2
  <1>3. QED
    BY <1>1, <1>2, TypeCorrect, PTL DEF Spec

\* No export file without its rows, whatever fails and whoever resumes.
THEOREM FilesHaveRows == Spec => []FileHasRow
  BY Inductive, PTL DEF IInv

\* A finished run went through every agent of the chain.
THEOREM FinishedRunIsCensus == Spec => []FinishedIsCensus
  BY Inductive, PTL DEF IInv

\* A finished run never claims more agents than it has rows.
THEOREM AgentCountNeverOverstates == Spec => []NeverOverstates
  BY Inductive, PTL DEF IInv

\* All that a run claims is borne out by its rows: no file without its rows, no
\* count above them, and no finished run that is not a census.
THEOREM HonestRun == Spec => []RunIsHonest
  BY FilesHaveRows, FinishedRunIsCensus, AgentCountNeverOverstates, PTL DEF RunIsHonest

-----------------------------------------------------------------------------
(***************************************************************************)
(* What the closing of a run records.                                      *)
(***************************************************************************)

\* The steps noted are steps of the run.
LEMMA ClosingIsRun == ClosingSpec => Spec
  <1>1. ClosingInit => Init
    BY DEF ClosingInit
  <1>2. [ClosingNext]_closingVars => [Next]_vars
    BY DEF ClosingNext, closingVars, Noted, Next
  <1>3. QED
    BY <1>1, <1>2, PTL DEF ClosingSpec, Spec

\* Two sets of agents with nothing in common are counted together.
LEMMA CountBoth ==
    ASSUME NEW S \in SUBSET Agents, NEW T \in SUBSET Agents, S \cap T = {}
    PROVE  Cardinality(S \cup T) = Cardinality(S) + Cardinality(T)
  <1>1. IsFiniteSet(S) /\ IsFiniteSet(T)
    BY AgentsFinite, FS_Subset
  <1>2. Cardinality(S) \in Nat /\ Cardinality(T) \in Nat /\ Cardinality(S \cap T) = 0
    BY <1>1, FS_CardinalityType, FS_EmptySet
  <1>3. Cardinality(S \cup T) = Cardinality(S) + Cardinality(T) - Cardinality(S \cap T)
    BY <1>1, FS_Union, Zenon
  <1>4. QED
    BY <1>2, <1>3

\* A set that counts at most one has one member at most.
LEMMA AtMostOne ==
    ASSUME NEW S, IsFiniteSet(S), Cardinality(S) <= 1, NEW x \in S, NEW y \in S PROVE x = y
  <1> SUFFICES ASSUME x # y PROVE FALSE
    OBVIOUS
  <1>1. IsFiniteSet({x}) /\ Cardinality({x}) = 1
    BY FS_Singleton
  <1>2. IsFiniteSet({x} \cup {y}) /\ Cardinality({x} \cup {y}) = 2
    <2>1. y \notin {x}
      OBVIOUS
    <2>2. IsFiniteSet({x} \cup {y}) /\ Cardinality({x} \cup {y}) = Cardinality({x}) + 1
      BY <1>1, <2>1, FS_AddElement, Zenon
    <2>3. QED
      BY <1>1, <2>2
  <1>3. {x} \cup {y} \in SUBSET S
    OBVIOUS
  <1>4. Cardinality({x} \cup {y}) <= Cardinality(S)
    BY <1>3, FS_Subset
  <1>5. Cardinality(S) \in Nat
    BY FS_CardinalityType
  <1>6. QED
    BY <1>2, <1>4, <1>5

LEMMA TalliedStep ==
    ASSUME TypeOK, \A t \in Sessions : Tallied(t), NEW s \in Sessions, SessionStep(s), NEW t \in Sessions
    PROVE  Tallied(t)'
  <1> USE DEF TypeOK, Tallied, Goto, Phases, db, disk, loaded, work, tally
  <1>1. CASE OpenRun(s) \/ ResumeRun(s)
    BY <1>1, SweepAssumption DEF OpenRun, ResumeRun, StartSession, MayStart
  <1>2. CASE Enumerate(s)
    BY <1>2 DEF Enumerate
  <1>3. CASE Unreadable(s)
    BY <1>3 DEF Unreadable
  <1>4. CASE TakeAgent(s)
    BY <1>4 DEF TakeAgent
  <1>5. CASE WriteCommits(s)
    BY <1>5 DEF WriteCommits, Commits
  <1>6. CASE WriteFailsTransiently(s)
    BY <1>6 DEF WriteFailsTransiently, RetryOrGiveUp, GiveUp
  <1>7. CASE WriteCommitsUnacknowledged(s)
    BY <1>7 DEF WriteCommitsUnacknowledged, Commits, RetryOrGiveUp, GiveUp
  <1>8. CASE WriteRefused(s)
    BY <1>8 DEF WriteRefused, GiveUp
  <1>9. CASE Export(s)
    BY <1>9 DEF Export
  <1>10. CASE CloseRun(s) \/ ClosePartial(s) \/ FinalManifest(s) \/ ErrorBoundary(s)
    BY <1>10 DEF CloseRun, ClosePartial, FinalManifest, ErrorBoundary, StreamDone
  <1>11. CASE \/ EnumerateFails(s) \/ ExportFails(s) \/ CloseFails(s) \/ FinalManifestFails(s)
    BY <1>11 DEF EnumerateFails, ExportFails, CloseFails, FinalManifestFails, Abort, StreamDone
  <1>12. CASE WatchdogFires(s) \/ WatchdogExits(s) \/ Crash(s)
    BY <1>12 DEF WatchdogFires, WatchdogExits, Crash, Dies, Alive
  <1>13. QED
    BY <1>1, <1>2, <1>3, <1>4, <1>5, <1>6, <1>7, <1>8, <1>9, <1>10, <1>11, <1>12
       DEF SessionStep, MainStep

\* The parts of an uncapped session that has closed are the agents.
LEMMA PartsAddUp ==
    ASSUME TypeOK, NEW s \in Sessions, Tallied(s), Uncapped(s), pc[s] = "closed"
    PROVE  TotalSwept(s) + Cardinality(unreadable[s]) + Cardinality(unwritable[s]) = Cardinality(Scope(cap[s]))
  <1> DEFINE A == already[s]
             W == swept[s]
             R == unreadable[s]
             U == unwritable[s]
  <1>1. A \in SUBSET Agents /\ W \in SUBSET Agents /\ R \in SUBSET Agents /\ U \in SUBSET Agents
    BY DEF TypeOK
  <1>2. Scope(cap[s]) = Agents
    BY SweepAssumption DEF TypeOK, Tallied, Uncapped, Scope, Agents
  <1>3. /\ Agents \ A = W \cup R \cup U
        /\ W \cap (R \cup U) = {} /\ R \cap U = {}
    BY <1>2 DEF Tallied
  <1> HIDE DEF A, W, R, U
  <1>4. A \cap (W \cup (R \cup U)) = {} /\ A \cup (W \cup (R \cup U)) = Agents
    BY <1>1, <1>3
  <1>5. Cardinality(R \cup U) = Cardinality(R) + Cardinality(U)
    BY <1>1, <1>3, CountBoth
  <1>6. Cardinality(W \cup (R \cup U)) = Cardinality(W) + Cardinality(R \cup U)
    BY <1>1, <1>3, CountBoth
  <1>7. Cardinality(A \cup (W \cup (R \cup U))) = Cardinality(A) + Cardinality(W \cup (R \cup U))
    BY <1>1, <1>4, CountBoth
  <1>8. Cardinality(A) \in Nat /\ Cardinality(W) \in Nat /\ Cardinality(R) \in Nat /\ Cardinality(U) \in Nat
    BY <1>1, CountType
  <1>9. Cardinality(A) + Cardinality(W) + Cardinality(R) + Cardinality(U) = Cardinality(Agents)
    <2>1. Cardinality(Agents) = Cardinality(A) + Cardinality(W \cup (R \cup U))
      BY <1>4, <1>7, Zenon
    <2>2. QED
      BY <1>5, <1>6, <1>8, <2>1
  <1>10. TotalSwept(s) = Cardinality(A) + Cardinality(W)
    BY DEF TotalSwept, A, W
  <1>11. QED
    BY <1>2, <1>8, <1>9, <1>10 DEF R, U

\* The manifest is written at the start, without totals, and at the end.
LEMMA ManifestStep ==
    ASSUME TypeOK, NEW s \in Sessions, SessionStep(s)
    PROVE  \/ manifest' = manifest
           \/ Enumerate(s) /\ manifest'.swept = Null
           \/ FinalManifest(s)
  <1>1. CASE Enumerate(s)
    BY <1>1 DEF Enumerate, NoManifest
  <1>2. CASE ~(Enumerate(s) \/ FinalManifest(s))
    BY <1>2 DEF SessionStep, MainStep, OpenRun, ResumeRun, StartSession, EnumerateFails,
           Unreadable, TakeAgent, WriteCommits, WriteFailsTransiently,
           WriteCommitsUnacknowledged, WriteRefused, Export, ExportFails, CloseRun,
           ClosePartial, CloseFails, FinalManifestFails, ErrorBoundary,
           WatchdogFires, WatchdogExits, Crash, Dies, Abort, disk
  <1>3. QED
    BY <1>1, <1>2

\* A cap is read once, when the session starts.
LEMMA CapStep ==
    ASSUME TypeOK, \A t \in Sessions : Tallied(t), NEW s \in Sessions, SessionStep(s),
           NEW t \in Sessions, Uncapped(t)'
    PROVE  Uncapped(t)
  <1>1. CASE OpenRun(s) \/ ResumeRun(s)
    BY <1>1 DEF OpenRun, ResumeRun, StartSession, MayStart, Uncapped, Tallied, TypeOK
  <1>2. CASE ~(OpenRun(s) \/ ResumeRun(s))
    <2>1. cap' = cap
      BY <1>2 DEF SessionStep, MainStep, Enumerate, EnumerateFails,
           Unreadable, TakeAgent, WriteCommits, WriteFailsTransiently,
           WriteCommitsUnacknowledged, WriteRefused, Export, ExportFails, CloseRun,
           ClosePartial, CloseFails, FinalManifest, FinalManifestFails, ErrorBoundary,
           WatchdogFires, WatchdogExits, Crash, Dies, Abort, loaded
    <2>2. QED
      BY <2>1 DEF Uncapped
  <1>3. QED
    BY <1>1, <1>2

LEMMA TalliesStep ==
    ASSUME TypeOK, ClosingInv, NEW s \in Sessions, SessionStep(s), \A t \in Sessions : Uncapped(t)'
    PROVE  ManifestTallies'
  <1>1. \A t \in Sessions : Tallied(t) /\ Uncapped(t)
    BY CapStep DEF ClosingInv
  <1>2. CASE manifest' = manifest
    BY <1>1, <1>2 DEF ClosingInv, ManifestTallies
  <1>3. CASE manifest'.swept = Null
    BY <1>3 DEF ManifestTallies
  <1>4. CASE FinalManifest(s)
    <2>1. /\ pc[s] = "closed"
          /\ manifest'.planned = Cardinality(Scope(cap[s])) /\ manifest'.swept = TotalSwept(s)
          /\ manifest'.unreadable = Cardinality(unreadable[s])
          /\ manifest'.unwritable = Cardinality(unwritable[s])
      BY <1>4 DEF FinalManifest
    <2>2. QED
      BY <1>1, <2>1, PartsAddUp DEF ManifestTallies
  <1>5. QED
    BY <1>2, <1>3, <1>4, ManifestStep

\* A step of a session moves no other.
LEMMA PcStep ==
    ASSUME TypeOK, NEW s \in Sessions, SessionStep(s), NEW t \in Sessions, t # s
    PROVE  pc'[t] = pc[t]
  BY DEF TypeOK, SessionStep, MainStep, OpenRun, ResumeRun, StartSession, Enumerate, EnumerateFails,
         Unreadable, TakeAgent, WriteCommits, WriteFailsTransiently, RetryOrGiveUp, GiveUp,
         WriteCommitsUnacknowledged, WriteRefused, Export, ExportFails, CloseRun,
         ClosePartial, CloseFails, FinalManifest, FinalManifestFails, ErrorBoundary,
         WatchdogFires, WatchdogExits, Crash, Dies, Abort, Goto

\* A session that takes a step is at work before it or after it.
LEMMA StepAlive ==
    ASSUME TypeOK, NEW s \in Sessions, SessionStep(s)
    PROVE  Alive(s) \/ Alive(s)'
  <1> USE DEF TypeOK, Alive
  <1>1. CASE OpenRun(s) \/ ResumeRun(s)
    BY <1>1 DEF OpenRun, ResumeRun, StartSession, Goto
  <1>2. CASE ~(OpenRun(s) \/ ResumeRun(s))
    BY <1>2 DEF SessionStep, MainStep, Enumerate, EnumerateFails,
         Unreadable, TakeAgent, WriteCommits, Commits, WriteFailsTransiently,
         WriteCommitsUnacknowledged, WriteRefused, Export, ExportFails, CloseRun, StreamDone,
         ClosePartial, CloseFails, FinalManifest, FinalManifestFails, ErrorBoundary,
         WatchdogFires, WatchdogExits, Crash, Dies
  <1>3. QED
    BY <1>1, <1>2

\* Only close_run writes the count.
LEMMA CountStep ==
    ASSUME TypeOK, NEW s \in Sessions, SessionStep(s)
    PROVE  \/ row'.agent_count = row.agent_count
           \/ CloseRun(s) /\ row'.agent_count = TotalSwept(s)
  <1> USE DEF TypeOK, db
  <1>1. CASE CloseRun(s)
    BY <1>1 DEF CloseRun
  <1>2. CASE OpenRun(s)
    BY <1>2 DEF OpenRun
  <1>3. CASE ClosePartial(s) \/ ErrorBoundary(s) \/ WatchdogFires(s)
    BY <1>3 DEF ClosePartial, ErrorBoundary, WatchdogFires, TryFailRun, FailRun
  <1>4. CASE ~(CloseRun(s) \/ OpenRun(s) \/ ClosePartial(s) \/ ErrorBoundary(s) \/ WatchdogFires(s))
    BY <1>4 DEF SessionStep, MainStep, ResumeRun, StartSession, Enumerate, EnumerateFails,
         Unreadable, TakeAgent, WriteCommits, WriteFailsTransiently,
         WriteCommitsUnacknowledged, WriteRefused, Export, ExportFails, CloseFails,
         FinalManifest, FinalManifestFails, WatchdogExits, Crash, Dies, Abort
  <1>5. QED
    BY <1>1, <1>2, <1>3, <1>4

\* After any step there is a row.
LEMMA RowStays ==
    ASSUME TypeOK, ClosingInv, NEW s \in Sessions, SessionStep(s)
    PROVE  row'.status # "none"
  <1> USE DEF TypeOK, db
  <1>1. OpenRun(s) \/ row.status # "none"
    <2>1. CASE pc[s] = "idle"
      BY <2>1 DEF SessionStep, MainStep, ResumeRun, Enumerate, EnumerateFails,
         Unreadable, TakeAgent, WriteCommits, Commits, WriteFailsTransiently,
         WriteCommitsUnacknowledged, WriteRefused, Export, ExportFails, CloseRun, StreamDone,
         ClosePartial, CloseFails, FinalManifest, FinalManifestFails, ErrorBoundary,
         WatchdogFires, WatchdogExits, Crash, Dies, Alive
    <2>2. CASE pc[s] # "idle"
      BY <2>2 DEF ClosingInv
    <2>3. QED
      BY <2>1, <2>2
  <1>2. CASE OpenRun(s)
    BY <1>2 DEF OpenRun
  <1>3. CASE CloseRun(s) \/ ClosePartial(s) \/ ErrorBoundary(s) \/ WatchdogFires(s)
    BY <1>1, <1>3 DEF CloseRun, ClosePartial, ErrorBoundary, WatchdogFires, TryFailRun, FailRun, OpenRun
  <1>4. CASE ~(CloseRun(s) \/ OpenRun(s) \/ ClosePartial(s) \/ ErrorBoundary(s) \/ WatchdogFires(s))
    <2>1. row' = row
      BY <1>4 DEF SessionStep, MainStep, ResumeRun, StartSession, Enumerate, EnumerateFails,
         Unreadable, TakeAgent, WriteCommits, WriteFailsTransiently,
         WriteCommitsUnacknowledged, WriteRefused, Export, ExportFails, CloseFails,
         FinalManifest, FinalManifestFails, WatchdogExits, Crash, Dies, Abort
    <2>2. QED
      BY <1>1, <1>4, <2>1
  <1>5. QED
    BY <1>2, <1>3, <1>4

\* Of two sessions at work, before or after a step, the calm is gone: what it says
\* of the others it says of none.
LEMMA OthersCalm ==
    ASSUME TypeOK, ClosingInv, calm, NEW s \in Sessions, SessionStep(s),
           \A t, u \in Sessions : Alive(t)' /\ Alive(u)' => t = u,
           NEW t \in Sessions, t # s
    PROVE  CalmOf(t)'
  <1>1. pc'[t] = pc[t]
    BY PcStep
  <1>2. ~Alive(t)
    <2>1. CASE Alive(s)
      BY <2>1 DEF ClosingInv
    <2>2. CASE Alive(s)'
      <3>1. ~(Alive(t)')
        BY <2>2
      <3>2. QED
        BY <1>1, <3>1 DEF Alive
    <2>3. QED
      BY <2>1, <2>2, StepAlive
  <1>3. QED
    BY <1>1, <1>2 DEF CalmOf, Alive

\* A step of the one session at work keeps what is true of it.
LEMMA CalmOfStep ==
    ASSUME TypeOK, ClosingInv, calm, NEW s \in Sessions, SessionStep(s),
           ~WriteCommitsUnacknowledged(s)
    PROVE  CalmOf(s)'
  <1>1. Tallied(s) /\ CalmOf(s)
    BY DEF ClosingInv
  <1> USE DEF TypeOK, CalmOf, Goto, Phases, db, disk, loaded, work, tally
  <1>2. CASE OpenRun(s)
    <2>1. snaps = {} /\ pc[s] = "idle"
      BY <1>2 DEF ClosingInv, OpenRun, MayStart
    <2>2. QED
      BY <1>1, <1>2, <2>1 DEF OpenRun, StartSession, Tallied
  <1>3. CASE ResumeRun(s)
    BY <1>1, <1>3 DEF ResumeRun, StartSession, MayStart, Tallied
  <1>4. CASE Enumerate(s)
    BY <1>1, <1>4 DEF Enumerate, NoManifest
  <1>5. CASE Unreadable(s) \/ TakeAgent(s)
    BY <1>1, <1>5 DEF Unreadable, TakeAgent
  <1>6. CASE WriteCommits(s)
    BY <1>1, <1>6 DEF WriteCommits, Commits
  <1>7. CASE WriteFailsTransiently(s)
    BY <1>1, <1>7 DEF WriteFailsTransiently, RetryOrGiveUp, GiveUp
  <1>8. CASE WriteRefused(s)
    BY <1>1, <1>8 DEF WriteRefused, GiveUp
  <1>9. CASE Export(s)
    BY <1>1, <1>9 DEF Export
  <1>10. CASE CloseRun(s)
    BY <1>1, <1>10 DEF CloseRun, StreamDone, TotalSwept
  <1>11. CASE ClosePartial(s)
    BY <1>1, <1>11 DEF ClosePartial, StreamDone, FailRun
  <1>12. CASE FinalManifest(s) \/ ErrorBoundary(s)
    BY <1>12 DEF FinalManifest, ErrorBoundary
  <1>13. CASE \/ EnumerateFails(s) \/ ExportFails(s) \/ CloseFails(s) \/ FinalManifestFails(s)
    BY <1>13 DEF EnumerateFails, ExportFails, CloseFails, FinalManifestFails, Abort
  <1>14. CASE WatchdogFires(s)
    BY <1>1, <1>14 DEF WatchdogFires, TryFailRun, FailRun, TotalSwept
  <1>15. CASE WatchdogExits(s) \/ Crash(s)
    BY <1>15 DEF WatchdogExits, Crash, Dies
  <1>16. QED
    BY <1>2, <1>3, <1>4, <1>5, <1>6, <1>7, <1>8, <1>9, <1>10, <1>11, <1>12, <1>13, <1>14, <1>15
       DEF SessionStep, MainStep

\* The manifest of a calm run agrees with its row.
LEMMA MatchesStep ==
    ASSUME TypeOK, ClosingInv, calm, NEW s \in Sessions, SessionStep(s)
    PROVE  ManifestMatchesRow'
  <1>1. CalmOf(s) /\ ManifestMatchesRow
    BY DEF ClosingInv
  <1>2. CASE manifest'.swept = Null
    BY <1>2 DEF ManifestMatchesRow
  <1>3. CASE FinalManifest(s)
    BY <1>1, <1>3 DEF FinalManifest, CalmOf, ManifestMatchesRow, db
  <1>4. CASE manifest' = manifest /\ row'.status = "finished"
    <2>1. CASE row.status = "finished" /\ row'.agent_count = row.agent_count
      BY <1>1, <1>4, <2>1 DEF ManifestMatchesRow
    <2>2. CASE CloseRun(s)
      <3>1. manifest.swept = Null
        BY <1>1, <2>2 DEF CalmOf, CloseRun, StreamDone
      <3>2. QED
        BY <1>2, <1>4, <3>1
    <2>3. QED
      BY <1>4, <2>1, <2>2, RowStep
  <1>5. QED
    BY <1>2, <1>3, <1>4, ManifestStep DEF ManifestMatchesRow

\* The count that closes a calm run is that of its rows.
LEMMA CountIsExact ==
    ASSUME TypeOK, IInv, ClosingInv, calm, NEW s \in Sessions, CloseRun(s)
    PROVE  TotalSwept(s) = Cardinality(snaps')
  <1>1. snaps = already[s] \cup swept[s]
    BY DEF ClosingInv, CalmOf, CloseRun, StreamDone
  <1>2. already[s] \cap swept[s] = {}
    BY DEF IInv, SessionInv
  <1>3. already[s] \in SUBSET Agents /\ swept[s] \in SUBSET Agents
    BY DEF TypeOK
  <1>4. Cardinality(snaps) = Cardinality(already[s]) + Cardinality(swept[s])
    BY <1>1, <1>2, <1>3, CountBoth
  <1>5. snaps' = snaps
    BY DEF CloseRun
  <1>6. QED
    BY <1>4, <1>5 DEF TotalSwept

\* What a noted step leaves of the calm.
LEMMA NotedCalm ==
    ASSUME NEW s \in Sessions, Noted(SessionStep(s)), calm'
    PROVE  /\ calm /\ ~WriteCommitsUnacknowledged(s)
           /\ \A t, u \in Sessions : Alive(t)' /\ Alive(u)' => t = u
  <1> DEFINE Live == {t \in Sessions : Alive(t)'}
  <1>1. calm /\ Cardinality(Live) <= 1 /\ ~WriteCommitsUnacknowledged(s)
    BY DEF Noted
  <1>2. Live \in SUBSET Sessions
    OBVIOUS
  <1>3. ASSUME NEW t \in Sessions, NEW u \in Sessions, Alive(t)', Alive(u)'
        PROVE  t = u
    <2>1. t \in Live /\ u \in Live
      BY <1>3
    <2> HIDE DEF Live
    <2>2. IsFiniteSet(Live)
      BY <1>2, SweepAssumption, FS_Subset
    <2>3. QED
      BY <1>1, <2>1, <2>2, AtMostOne
  <1>4. QED
    BY <1>1, <1>3

LEMMA ClosingStep ==
    ASSUME TypeOK, ClosingInv, NEW s \in Sessions, Noted(SessionStep(s))
    PROVE  ClosingInv'
  <1>1. SessionStep(s)
    BY DEF Noted
  <1>2. \A t \in Sessions : Tallied(t)'
    BY <1>1, TalliedStep DEF ClosingInv
  <1>3. (\A t \in Sessions : Uncapped(t)') => ManifestTallies'
    BY <1>1, TalliesStep
  <1>4. row'.status # "none"
    BY <1>1, RowStays
  <1>5. ASSUME calm'
        PROVE  /\ \A t, u \in Sessions : Alive(t)' /\ Alive(u)' => t = u
               /\ ManifestMatchesRow'
               /\ \A t \in Sessions : CalmOf(t)'
    BY <1>1, <1>5, NotedCalm, MatchesStep, OthersCalm, CalmOfStep
  <1>6. QED
    BY <1>2, <1>3, <1>4, <1>5 DEF ClosingInv

\* The bookkeeping of what the closing of a run will record.
THEOREM ClosingInductive == ClosingSpec => []ClosingInv
  <1>1. ClosingInit => ClosingInv
    BY DEF ClosingInit, Init, ClosingInv, Tallied, CalmOf, ManifestTallies, ManifestMatchesRow,
           NoManifest, Alive
  <1>2. TypeOK /\ ClosingInv /\ [ClosingNext]_closingVars => ClosingInv'
    <2> SUFFICES ASSUME TypeOK, ClosingInv, [ClosingNext]_closingVars PROVE ClosingInv'
      OBVIOUS
    <2>1. CASE ClosingNext
      BY <2>1, ClosingStep DEF ClosingNext
    <2>2. CASE UNCHANGED closingVars
      BY <2>2 DEF closingVars, vars, db, disk, loaded, work, tally, ClosingInv, Tallied, CalmOf,
                  ManifestTallies, ManifestMatchesRow, Alive, Uncapped, TotalSwept
    <2>3. QED
      BY <2>1, <2>2
  <1>3. QED
    BY <1>1, <1>2, ClosingIsRun, TypeCorrect, PTL DEF ClosingSpec

\* The totals of the last manifest add up while no session has a cap, and of a
\* calm run the manifest is the row and the count that closes it is that of its
\* rows (main.rs:1326, 1441).
THEOREM ClosesAreExact == ClosingSpec => CloseIsExact
  <1> DEFINE Exact ==
        /\ (\A s \in Sessions : Uncapped(s)') => ManifestTallies'
        /\ calm' => /\ ManifestMatchesRow'
                    /\ row'.agent_count # row.agent_count
                         => row'.agent_count = Cardinality(snaps')
  <1>1. TypeOK /\ IInv /\ ClosingInv /\ ClosingInv' /\ [ClosingNext]_closingVars => [Exact]_closingVars
    <2> SUFFICES ASSUME TypeOK, IInv, ClosingInv, ClosingInv', NEW s \in Sessions, Noted(SessionStep(s))
                 PROVE  Exact
      BY DEF ClosingNext
    <2>1. (\A t \in Sessions : Uncapped(t)') => ManifestTallies'
      BY DEF ClosingInv
    <2>2. ASSUME calm', row'.agent_count # row.agent_count
          PROVE  row'.agent_count = Cardinality(snaps')
      BY <2>2, NotedCalm, CountStep, CountIsExact DEF Noted
    <2>3. QED
      BY <2>1, <2>2 DEF ClosingInv
  <1>2. QED
    BY <1>1, ClosingInductive, ClosingIsRun, Inductive, TypeCorrect, PTL DEF ClosingSpec, CloseIsExact

-----------------------------------------------------------------------------
(***************************************************************************)
(* The watchdog.                                                           *)
(***************************************************************************)

\* The part of the type the clocks rest on.
Typed ==
    /\ now \in Nat /\ wake \in Nat
    /\ rows \in Nat /\ lastRow \in Nat
    /\ lastCount \in Int /\ lastChange \in Nat
    /\ lastFine \in Nat
    /\ hopeless \in Int
    /\ hopeless # None => hopeless <= now
    /\ wake <= now /\ lastChange <= now /\ lastFine <= now /\ lastRow <= now
    /\ verdict \in {"none", "stall", "slow"}

\* The intervals are natural numbers.
LEMMA Intervals ==
    /\ Poll \in Nat \ {0} /\ Stall \in Nat \ {0} /\ Grace \in Nat \ {0}
    /\ Confirm \in Nat \ {0} /\ Late \in Nat
    /\ OldRows \subseteq Nat
    /\ Grace >= Stall
  BY WatchdogAssumption

\* The clocks are times that have been.
LEMMA TypedStep == ASSUME Typed, [WatchNext]_watchedVars PROVE Typed'
  <1> USE Intervals DEF Typed, process, mainVars, watchVars, None
  <1>1. CASE Tick
    BY <1>1 DEF Tick
  <1>2. CASE MainTask
    BY <1>2 DEF MainTask, StartSweeping, WriteRow, Finish, Hang
  <1>3. CASE PollTooSlow \/ PollWouldStop \/ PollProgress \/ PollStalled \/ PollQuiet
    <2>1. HopelessSince \in Int /\ (HopelessSince # None => HopelessSince <= now)
      BY DEF HopelessSince
    <2>2. QED
      BY <1>3, <2>1 DEF PollTooSlow, PollWouldStop, PollProgress, PollStalled, PollQuiet,
                        Judge, Stop
  <1>4. CASE PollBlind
    BY <1>4 DEF PollBlind
  <1>5. CASE UNCHANGED watchedVars
    BY <1>5 DEF watchedVars
  <1>6. QED
    BY <1>1, <1>2, <1>3, <1>4, <1>5 DEF WatchNext, Look

\* Silence and hopelessness are measured from clocks that lag behind the truth.
LEMMA ClocksStep == ASSUME Typed, ClocksInv, [WatchNext]_watchedVars PROVE ClocksInv'
  <1> USE Intervals DEF Typed, ClocksInv, StallIsSilence, SlowIsConfirmed, Window,
                        process, mainVars, watchVars, None
  <1>1. CASE Tick
    BY <1>1 DEF Tick, OnWatch
  <1>2. CASE MainTask
    BY <1>2 DEF MainTask, StartSweeping, WriteRow, Finish, Hang, OnWatch
  <1>3. CASE PollTooSlow
    BY <1>3 DEF PollTooSlow, Due, OnWatch, TooSlow, HopelessSince, Judge, Stop
  <1>4. CASE PollWouldStop
    BY <1>4 DEF PollWouldStop, Due, OnWatch, Judge
  <1>5. CASE PollProgress
    BY <1>5 DEF PollProgress, Due, OnWatch, HopelessSince, Judge
  <1>6. CASE PollStalled
    BY <1>6 DEF PollStalled, Due, OnWatch, Silent, HopelessSince, Judge, Stop
  <1>7. CASE PollQuiet
    BY <1>7 DEF PollQuiet, Due, OnWatch, HopelessSince, Judge
  <1>8. CASE PollBlind
    BY <1>8 DEF PollBlind, Due, OnWatch
  <1>9. CASE UNCHANGED watchedVars
    BY <1>9 DEF watchedVars
  <1>10. QED
    BY <1>1, <1>2, <1>3, <1>4, <1>5, <1>6, <1>7, <1>8, <1>9 DEF WatchNext, Look

\* What the last look left behind holds until the next one.
LEMMA LookStep ==
    ASSUME Typed, ClocksInv, LookInv, [WatchNext]_watchedVars
    PROVE  LookInv'
  <1> USE Intervals DEF Typed, LookInv, Skipped, Window, OnWatch, process, mainVars, watchVars, None
  <1>1. CASE Tick
    BY <1>1 DEF Tick
  <1>2. CASE StartSweeping \/ Finish \/ Hang
    BY <1>2 DEF StartSweeping, Finish, Hang
  <1>3. CASE WriteRow
    BY <1>3 DEF WriteRow, ClocksInv
  <1>4. CASE PollTooSlow \/ PollStalled
    BY <1>4 DEF PollTooSlow, PollStalled, Stop
  <1>5. CASE PollWouldStop
    <2>1. hopeless # None
      BY <1>5 DEF PollWouldStop, TooSlow, HopelessSince
    <2>2. QED
      BY <1>5, <2>1 DEF PollWouldStop, Due, Judge
  <1>6. CASE PollProgress
    BY <1>6 DEF PollProgress, Due, HopelessSince, TooSlow, Judge
  <1>7. CASE PollQuiet
    BY <1>7 DEF PollQuiet, Due, HopelessSince, TooSlow, Silent, Judge
  <1>8. CASE PollBlind
    BY <1>8 DEF PollBlind
  <1>9. CASE UNCHANGED watchedVars
    BY <1>9 DEF watchedVars
  <1>10. QED
    BY <1>1, <1>2, <1>3, <1>4, <1>5, <1>6, <1>7, <1>8, <1>9 DEF WatchNext, Look, MainTask

\* The clocks keep their order in every behaviour.
LEMMA Clocks == WatchSpec => [](Typed /\ ClocksInv)
  <1>1. WatchInit => Typed /\ ClocksInv
    BY Intervals DEF WatchInit, Typed, ClocksInv, StallIsSilence, SlowIsConfirmed, None
  <1>2. Typed /\ ClocksInv /\ [WatchNext]_watchedVars => (Typed /\ ClocksInv)'
    BY TypedStep, ClocksStep
  <1>3. QED
    BY <1>1, <1>2, PTL DEF WatchSpec

\* A process stopped as stalled had written nothing for the whole window.
THEOREM StallMeansSilence == WatchSpec => []StallIsSilence
  BY Clocks, PTL DEF ClocksInv

\* A process stopped as too slow was hopeless at every look of the last Confirm.
THEOREM SlowMeansConfirmed == WatchSpec => []SlowIsConfirmed
  BY Clocks, PTL DEF ClocksInv

\* The last look bounds what has happened since.
LEMMA Looks == WatchSpec => []LookInv
  <1>1. WatchInit => LookInv
    BY Intervals DEF WatchInit, LookInv, Skipped, Window, None
  <1>2. Typed /\ ClocksInv /\ LookInv /\ [WatchNext]_watchedVars => LookInv'
    BY LookStep
  <1>3. QED
    BY <1>1, <1>2, Clocks, PTL DEF WatchSpec

\* While the count can be read no silence outlasts the window and two looks,
\* four in observe-only mode.
THEOREM SilenceIsBounded == WatchSpec => []SilenceEnds
  <1>1. Typed /\ LookInv => SilenceEnds
    BY Intervals DEF Typed, LookInv, Skipped, SilenceEnds, Window
  <1>2. QED
    BY <1>1, Clocks, Looks, PTL

\* While the count can be read, and rates may end a sweep, no hopeless stretch
\* outlasts the confirmation and two looks.
THEOREM HopelessnessIsBounded == WatchSpec => []HopelessEnds
  <1>1. Typed /\ LookInv => HopelessEnds
    BY Intervals DEF Typed, LookInv, HopelessEnds
  <1>2. QED
    BY <1>1, Clocks, Looks, PTL

\* Every stop has its cause, whatever the settings.
THEOREM JustifiedStops == WatchSpec => []StopsAreJustified
  BY StallMeansSilence, SlowMeansConfirmed, PTL DEF StopsAreJustified

\* As long as the count can be read, neither silence nor hopelessness lasts.
THEOREM BoundedWaits == WatchSpec => []WaitsAreBounded
  BY SilenceIsBounded, HopelessnessIsBounded, PTL DEF WaitsAreBounded

-----------------------------------------------------------------------------
(* A healthy process.                                                      *)

\* What a process must keep to for the windows to be long enough: it enumerates
\* and lands its first row within the grace and one sleep, and then writes rows
\* more often than the stall timeout.
Prompt == Startup + MaxGap < Grace + Poll /\ MaxGap < Stall

\* How far a fresh process that does not hang can be behind: the first look that
\* reads the count comes after a sleep, the start-up is bounded, and once agents
\* stream the last row, or the start of the stream, is recent.
HealthyInv ==
    /\ main \in {"starting", "sweeping", "hung", "done"} /\ resumed \in BOOLEAN
    /\ lastCount # None => lastChange >= Poll
    /\ main = "starting" => now <= Startup
    /\ sweepFrom \in Int /\ sweepFrom <= now
    /\ main = "sweeping" => /\ 0 <= sweepFrom /\ sweepFrom <= Startup
                            /\ now <= lastRow + MaxGap \/ now <= sweepFrom + MaxGap
    /\ ~resumed => /\ main = "starting" => rows = 0
                   /\ main = "sweeping" /\ rows > 0 => sweepFrom <= lastRow
    /\ FreshSurvives

\* Health is kept by every step, and with it no stall is seen.
LEMMA HealthyStep ==
    ASSUME Prompt, Typed, ClocksInv, HealthyInv, [WatchNext]_watchedVars
    PROVE  HealthyInv'
  <1> USE Intervals DEF Typed, HealthyInv, FreshSurvives, None, process, mainVars, watchVars
  <1>0. {Startup, MaxGap} \subseteq Nat
    BY WatchdogAssumption
  <1>1. CASE Tick
    BY <1>0, <1>1 DEF Tick, OnWatch
  <1>2. CASE StartSweeping
    <2>1. /\ main' = "sweeping" /\ sweepFrom' = now /\ now <= Startup
          /\ ~resumed => rows = 0
      BY <1>2 DEF StartSweeping
    <2>2. now \in Int /\ 0 <= now /\ now <= now + MaxGap
      BY <1>0
    <2>3. UNCHANGED <<observe, resumed, now, rows, lastRow, lastCount, lastChange, verdict>>
      BY <1>2 DEF StartSweeping
    <2>4. verdict' = "none"
      BY <1>2 DEF StartSweeping, OnWatch
    <2>5. ~resumed' => rows' = 0
      BY <2>1, <2>3, Zenon
    <2>6. QED
      BY <2>1, <2>2, <2>3, <2>4, <2>5
  <1>3. CASE WriteRow
    BY <1>0, <1>3 DEF WriteRow, OnWatch
  <1>4. CASE Finish \/ Hang
    BY <1>4 DEF Finish, Hang, OnWatch
  <1>5. CASE PollTooSlow \/ PollWouldStop \/ PollQuiet
    BY <1>5 DEF PollTooSlow, PollWouldStop, PollQuiet, Due, OnWatch, Judge, Stop
  <1>6. CASE PollProgress
    BY <1>6 DEF PollProgress, Due, OnWatch, Judge
  <1>7. CASE PollStalled
    <2>1. /\ main # "done" /\ verdict = "none" /\ rows = lastCount
          /\ now - lastChange >= Window /\ lastCount # None
      BY <1>7 DEF PollStalled, Due, OnWatch, Silent
    <2>2. ASSUME ~resumed PROVE main \notin {"starting", "sweeping"}
      BY <1>0, <2>1, <2>2 DEF Window, ClocksInv, Prompt
    <2>3. main = "hung" \/ main \in {"starting", "sweeping"}
      BY <2>1
    <2>4. QED
      BY <1>7, <2>1, <2>2, <2>3 DEF PollStalled, Judge, Stop
  <1>8. CASE PollBlind
    BY <1>8 DEF PollBlind, Due, OnWatch
  <1>9. CASE UNCHANGED watchedVars
    BY <1>9 DEF watchedVars
  <1>10. QED
    BY <1>1, <1>2, <1>3, <1>4, <1>5, <1>6, <1>7, <1>8, <1>9 DEF WatchNext, Look, MainTask

\* A fresh process that is prompt is stopped as stalled only if it hangs: not for
\* being between two rows, nor for enumerating.
THEOREM PromptSurvives == ASSUME Prompt PROVE WatchSpec => []FreshSurvives
  <1>1. WatchInit => HealthyInv
    <2> SUFFICES ASSUME WatchInit PROVE HealthyInv
      OBVIOUS
    <2>1. resumed = (rows > 0)
      BY Zenon DEF WatchInit
    <2>2. resumed \in BOOLEAN
      BY <2>1, SMT
    <2>3. rows \in 0 .. Planned
      BY WatchdogAssumption, Zenon DEF WatchInit
    <2>4. ~resumed => rows = 0
      <3>1. ~resumed => ~(rows > 0)
        BY <2>1, Zenon
      <3>2. ~(rows > 0) => rows = 0
        BY <2>3, WatchdogAssumption
      <3>3. QED
        BY <3>1, <3>2, Zenon
    <2>5. QED
      BY <2>2, <2>4, WatchdogAssumption DEF WatchInit, HealthyInv, FreshSurvives, None
  <1>2. Typed /\ ClocksInv /\ HealthyInv /\ [WatchNext]_watchedVars => HealthyInv'
    BY HealthyStep
  <1>3. HealthyInv => FreshSurvives
    BY DEF HealthyInv
  <1>4. QED
    BY <1>1, <1>2, <1>3, Clocks, PTL DEF WatchSpec
=============================================================================
