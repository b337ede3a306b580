--------------------------- MODULE LivePass_proofs --------------------------
(***************************************************************************)
(* Rung-6 passes stay within the budget of every host, ask no URL again    *)
(* that they have an answer of, write rows that keep the ladder of the     *)
(* sweep and rest on what was observed, and leave every agent with the row *)
(* it deserves when they were alone: for any number of passes, agents,     *)
(* URLs and budgets, any documents and ladders, and passes killed anywhere.*)
(***************************************************************************)
EXTENDS LivePass, FiniteSetTheorems, WellFoundedInduction, TLAPS

-----------------------------------------------------------------------------
(* The sample.                                                             *)

\* A set of naturals has a least element, and one under a bound a greatest.
LEMMA Least ==
    ASSUME NEW T \in SUBSET Nat, T # {} PROVE \E x \in T : \A y \in T : x <= y
  <1>1. PICK x \in T : \A y \in T : ~ (<<y, x>> \in OpToRel(<, Nat))
    BY NatLessThanWellFounded, WFMin
  <1>2. \A y \in T : ~(y < x)
    BY <1>1 DEF OpToRel
  <1>3. QED
    BY <1>2

LEMMA Greatest ==
    ASSUME NEW n \in Nat, NEW T \in SUBSET (1 .. n), T # {}
    PROVE  \E x \in T : \A y \in T : y <= x
  <1> DEFINE U == {n - y : y \in T}
  <1>1. U \in SUBSET Nat /\ U # {}
    <2>1. \A y \in T : n - y \in Nat
      OBVIOUS
    <2>2. U # {}
      OBVIOUS
    <2>3. QED
      BY <2>1, <2>2
  <1>2. PICK z \in U : \A y \in U : z <= y
    BY <1>1, Least
  <1>3. PICK x \in T : z = n - x
    OBVIOUS
  <1>4. \A y \in T : n - x <= n - y
    BY <1>2, <1>3
  <1>5. QED
    BY <1>4

LEMMA UrlsFinite == IsFiniteSet(Urls) /\ \A S \in SUBSET Urls : IsFiniteSet(S) /\ Cardinality(S) \in Nat
  <1>1. IsFiniteSet(Urls)
    BY FS_Interval, LivePassAssumption DEF Urls
  <1>2. QED
    BY <1>1, FS_Subset, FS_CardinalityType

\* Ranks are numbers, and no two URLs share one.
LEMMA RanksApart ==
    /\ NUrls \in Nat
    /\ \A v \in Urls : HashRank[v] \in 1 .. NUrls /\ HashRank[v] \in Nat
    /\ \A u, v \in Urls : u # v => HashRank[u] # HashRank[v]
  <1>1. NUrls \in Nat
    BY LivePassAssumption
  <1>2. ASSUME NEW v \in Urls PROVE HashRank[v] \in 1 .. NUrls
    <2>1. HashRank[v] \in Urls
      BY LivePassAssumption
    <2>2. QED
      BY <2>1 DEF Urls
  <1>3. \A u, v \in Urls : u # v => HashRank[u] # HashRank[v]
    BY LivePassAssumption
  <1>4. QED
    BY <1>1, <1>2, <1>3

\* Of a host, there are no more URLs with fewer than b before them than b.
LEMMA SampleBound ==
    ASSUME NEW D \in SUBSET Urls, NEW h, NEW b \in Nat
    PROVE  Cardinality({v \in D : HostOf[v] = h /\ Cardinality(Before(v, D)) < b}) <= b
  <1> DEFINE T == {v \in D : HostOf[v] = h /\ Cardinality(Before(v, D)) < b}
  <1> SUFFICES Cardinality(T) <= b
    OBVIOUS
  <1>1. IsFiniteSet(T) /\ Cardinality(T) \in Nat
    BY UrlsFinite
  <1>2. CASE T = {}
    BY <1>2, FS_EmptySet
  <1>3. CASE T # {}
    <2> DEFINE ranks == {HashRank[v] : v \in T}
    <2>1. ranks \in SUBSET (1 .. NUrls) /\ ranks # {} /\ NUrls \in Nat
      <3>1. ranks \subseteq 1 .. NUrls
        BY RanksApart
      <3>2. ranks # {}
        BY <1>3
      <3>3. QED
        BY <3>1, <3>2, RanksApart
    <2>2. PICK k \in ranks : \A j \in ranks : j <= k
      BY <2>1, Greatest
    <2>3. PICK m \in T : k = HashRank[m]
      OBVIOUS
    <2>4. \A v \in T : HashRank[v] <= HashRank[m]
      BY <2>2, <2>3
    <2>5. T \ {m} \subseteq Before(m, D)
      <3> SUFFICES ASSUME NEW v \in T \ {m} PROVE v \in Before(m, D)
        OBVIOUS
      <3>1. v \in Urls /\ m \in Urls /\ v # m
        OBVIOUS
      <3> HIDE DEF T
      <3>2. HashRank[v] # HashRank[m] /\ HashRank[v] \in Nat /\ HashRank[m] \in Nat
        BY <3>1, RanksApart
      <3>3. HashRank[v] < HashRank[m]
        BY <2>4, <3>2
      <3>4. v \in D /\ HostOf[v] = HostOf[m]
        BY DEF T
      <3>5. QED
        BY <3>3, <3>4 DEF Before
    <2>6. Before(m, D) \in SUBSET Urls /\ Cardinality(Before(m, D)) < b
      BY DEF Before
    <2> HIDE DEF T
    <2>7. Cardinality(T \ {m}) = Cardinality(T) - 1
      BY <1>1, FS_RemoveElement
    <2>8. /\ IsFiniteSet(Before(m, D)) /\ Cardinality(Before(m, D)) \in Nat
          /\ Cardinality(T \ {m}) <= Cardinality(Before(m, D))
      BY <2>5, <2>6, UrlsFinite, FS_Subset
    <2>9. QED
      BY <1>1, <2>6, <2>7, <2>8
  <1>4. QED
    BY <1>2, <1>3

-----------------------------------------------------------------------------
(* The invariant.                                                          *)

Asked == DOMAIN probes \cup UNION {flying[p] : p \in Passes}

\* What the passes have in hand is URLs.
PassesOK ==
    /\ pc = [p \in Passes |-> pc[p]]
    /\ todo \in [Passes -> SUBSET Urls] /\ flying \in [Passes -> SUBSET Urls]
    /\ widest \in Nat

\* No pass touches the rows of rung 4, so the URLs there are stay the same.
RowsOK ==
    /\ rows = [a \in Agents |-> rows[a]]
    /\ \A a \in Agents : 4 \in DOMAIN rows[a]

\* All that was asked, and all that is still to be asked, is of the sample
\* with the largest budget.
Spent == Asked \cup UNION {todo[p] : p \in Passes} \subseteq Selected(widest)

\* A pass that has the run to itself is the only one that runs, and what it
\* asks, has asked and knows the answer of are different URLs.
Alone ==
    \A p \in Passes :
        /\ pc[p] = "off" => todo[p] = {} /\ flying[p] = {}
        /\ (pc[p] # "off" /\ p \notin company) =>
               /\ Running = {p}
               /\ todo[p] \cap DOMAIN probes = {} /\ flying[p] \cap DOMAIN probes = {}
               /\ todo[p] \cap flying[p] = {}

PassInv == PassesOK /\ RowsOK /\ Spent /\ Alone

LEMMA DistinctTyped == Distinct \in SUBSET Urls
  BY LivePassAssumption DEF Distinct, Declared, Declares, HasServices

LEMMA SelectedTyped == \A b : Selected(b) \in SUBSET Urls
  BY DistinctTyped DEF Selected

\* A larger budget chooses what a smaller one chose, and more.
LEMMA SelectedGrows ==
    ASSUME NEW b \in Nat, NEW c \in Nat, b <= c PROVE Selected(b) \subseteq Selected(c)
  <1> SUFFICES ASSUME NEW u \in Distinct, Cardinality(Before(u, Distinct)) < b
               PROVE  Cardinality(Before(u, Distinct)) < c
    BY DEF Selected
  <1>1. Before(u, Distinct) \in SUBSET Urls
    BY DistinctTyped DEF Before
  <1>2. Cardinality(Before(u, Distinct)) \in Nat
    BY <1>1, UrlsFinite
  <1>3. QED
    BY <1>2

LEMMA PassInit == Init => PassInv
  <1> SUFFICES ASSUME Init PROVE PassInv
    OBVIOUS
  <1>1. PassesOK
    BY DEF Init, PassesOK
  <1>2. RowsOK
    <2>1. PICK raw \in [Agents -> UNION {Raw[a] : a \in Agents}] :
              /\ \A a \in Agents : raw[a] \in Raw[a]
              /\ rows = [a \in Agents |-> RunLadder(raw[a])]
      BY DEF Init
    <2>2. ASSUME NEW a \in Agents PROVE 4 \in DOMAIN raw[a]
      <3>1. raw[a] \in Raw[a] /\ 4 \in 1 .. 5
        BY <2>1
      <3>2. \A x \in Raw[a] : DOMAIN x = 1 .. 5 \cup (IF x[1] = "pass" THEN {7} ELSE {})
        BY LivePassAssumption
      <3>3. QED
        BY <3>1, <3>2
    <2>3. \A a \in Agents : DOMAIN RunLadder(raw[a]) = DOMAIN raw[a]
      BY DEF RunLadder
    <2>4. QED
      BY <2>1, <2>2, <2>3 DEF RowsOK
  <1>3. Spent
    <2>1. DOMAIN probes = {} /\ \A p \in Passes : todo[p] = {} /\ flying[p] = {}
      BY DEF Init, Nothing
    <2>2. QED
      BY <2>1 DEF Spent, Asked
  <1>4. Alone
    BY DEF Init, Alone
  <1>5. QED
    BY <1>1, <1>2, <1>3, <1>4 DEF PassInv

-----------------------------------------------------------------------------
(* Steps.                                                                  *)

LEMMA StartKeeps == ASSUME PassInv, NEW p \in Passes, Start(p) PROVE PassInv'
  <1>1. PICK b \in Budgets : /\ todo' = [todo EXCEPT ![p] = ToAsk(b)]
                             /\ widest' = IF b > widest THEN b ELSE widest
    BY DEF Start
  <1>2. b \in Nat /\ widest \in Nat /\ widest' \in Nat /\ b <= widest' /\ widest <= widest'
    BY <1>1, LivePassAssumption DEF PassInv, PassesOK
  <1>3. /\ UNCHANGED <<rows, probes, flying>> /\ pc[p] = "off"
        /\ pc' = [pc EXCEPT ![p] = "probing"]
        /\ company' = IF Running = {} THEN {} ELSE company \cup Running \cup {p}
    BY DEF Start
  <1>4. ToAsk(b) \subseteq Selected(b) /\ ToAsk(b) \in SUBSET Urls /\ ToAsk(b) \cap DOMAIN probes = {}
    BY SelectedTyped DEF ToAsk
  <1>5. Distinct' = Distinct /\ \A c : Selected(c)' = Selected(c)
    BY <1>3 DEF Selected, Distinct, Declared, Rung4
  <1>6. PassesOK' /\ RowsOK'
    BY <1>1, <1>2, <1>3, <1>4 DEF PassInv, PassesOK, RowsOK
  <1>7. Spent'
    <2>1. Selected(b) \subseteq Selected(widest') /\ Selected(widest) \subseteq Selected(widest')
      BY <1>2, SelectedGrows
    <2>2. \A q \in Passes : todo'[q] \subseteq Selected(widest')
      BY <1>1, <1>4, <2>1 DEF PassInv, PassesOK, Spent
    <2>3. Asked' \subseteq Selected(widest')
      BY <1>3, <2>1 DEF PassInv, Spent, Asked
    <2>4. Selected(widest)' = Selected(widest')
      BY <1>3 DEF Selected, Distinct, Declared, Rung4
    <2>5. QED
      BY <2>2, <2>3, <2>4 DEF Spent
  <1>8. Alone'
    <2> SUFFICES ASSUME NEW q \in Passes
                 PROVE  /\ pc'[q] = "off" => todo'[q] = {} /\ flying'[q] = {}
                        /\ (pc'[q] # "off" /\ q \notin company') =>
                               /\ Running' = {q}
                               /\ todo'[q] \cap DOMAIN probes' = {}
                               /\ flying'[q] \cap DOMAIN probes' = {}
                               /\ todo'[q] \cap flying'[q] = {}
      BY DEF Alone
    <2>1. Running' = Running \cup {p}
      BY <1>3 DEF Running, PassInv, PassesOK
    <2>2. CASE q = p
      <3>1. flying[p] = {} /\ todo'[p] = ToAsk(b)
        BY <1>1, <1>3 DEF PassInv, PassesOK, Alone
      <3>2. q \notin company' => Running = {}
        BY <1>3, <2>2
      <3>3. pc'[p] = "probing"
        BY <1>3 DEF PassInv, PassesOK
      <3>4. QED
        BY <1>3, <1>4, <2>1, <2>2, <3>1, <3>2, <3>3
    <2>3. CASE q # p
      <3>1. pc'[q] = pc[q] /\ todo'[q] = todo[q] /\ flying'[q] = flying[q]
        BY <1>1, <1>3, <2>3 DEF PassInv, PassesOK
      <3>2. pc[q] # "off" => q \in company'
        BY <1>3 DEF Running
      <3>3. QED
        BY <3>1, <3>2 DEF PassInv, Alone
    <2>4. QED
      BY <2>2, <2>3
  <1>9. QED
    BY <1>6, <1>7, <1>8 DEF PassInv

LEMMA AskKeeps == ASSUME PassInv, NEW p \in Passes, Ask(p) PROVE PassInv'
  <1> DEFINE u == Min(todo[p])
  <1>1. u \in todo[p]
    <2>1. todo[p] \in SUBSET Nat /\ todo[p] # {}
      BY DEF Ask, PassInv, PassesOK, Urls
    <2>2. \E x \in todo[p] : \A y \in todo[p] : x <= y
      BY <2>1, Least
    <2>3. QED
      BY <2>2 DEF Min
  <1>2. /\ UNCHANGED <<rows, probes, pc, company, widest>>
        /\ todo' = [todo EXCEPT ![p] = todo[p] \ {u}]
        /\ flying' = [flying EXCEPT ![p] = flying[p] \cup {u}]
    BY DEF Ask, history
  <1> HIDE DEF u
  <1>3. /\ todo'[p] = todo[p] \ {u} /\ flying'[p] = flying[p] \cup {u}
        /\ \A q \in Passes : q # p => todo'[q] = todo[q] /\ flying'[q] = flying[q]
    BY <1>2 DEF PassInv, PassesOK
  <1>4. PassesOK' /\ RowsOK'
    BY <1>1, <1>2 DEF PassInv, PassesOK, RowsOK
  <1>5. Spent'
    <2>1. Selected(widest)' = Selected(widest)
      BY <1>2 DEF Selected, Distinct, Declared, Rung4
    <2>2. \A q \in Passes : todo'[q] \cup flying'[q] \subseteq Selected(widest)
      BY <1>1, <1>3 DEF PassInv, Spent, Asked
    <2>3. DOMAIN probes' \subseteq Selected(widest)
      BY <1>2 DEF PassInv, Spent, Asked
    <2>4. QED
      BY <2>1, <2>2, <2>3 DEF Spent, Asked
  <1>6. Alone'
    <2>1. pc[p] # "off"
      BY DEF Ask
    <2>2. Running' = Running
      BY <1>2 DEF Running
    <2>3. QED
      BY <1>1, <1>2, <1>3, <2>1, <2>2 DEF PassInv, Alone
  <1>7. QED
    BY <1>4, <1>5, <1>6 DEF PassInv

LEMMA AnswerKeeps == ASSUME PassInv, NEW p \in Passes, Answer(p) PROVE PassInv'
  <1>1. PICK u \in flying[p] :
            /\ flying' = [flying EXCEPT ![p] = flying[p] \ {u}]
            /\ UNCHANGED todo
            /\ (\E obs \in Responses : RecordProbe(u, obs)) \/ UNCHANGED probes
    BY DEF Answer, RecordFails
  <1>2. UNCHANGED <<rows, pc, company, widest>> /\ pc[p] = "probing"
    BY DEF Answer, history
  <1>3. DOMAIN probes' \in {DOMAIN probes, DOMAIN probes \cup {u}}
    BY <1>1 DEF RecordProbe, With
  <1>4. /\ flying'[p] = flying[p] \ {u}
        /\ \A q \in Passes : q # p => flying'[q] = flying[q]
    BY <1>1 DEF PassInv, PassesOK
  <1>5. PassesOK' /\ RowsOK'
    BY <1>1, <1>2 DEF PassInv, PassesOK, RowsOK
  <1>6. Spent'
    <2>1. Selected(widest)' = Selected(widest)
      BY <1>2 DEF Selected, Distinct, Declared, Rung4
    <2>2. \A q \in Passes : todo'[q] \cup flying'[q] \subseteq Selected(widest)
      BY <1>1, <1>4 DEF PassInv, Spent, Asked
    <2>3. DOMAIN probes' \subseteq Selected(widest)
      BY <1>1, <1>3 DEF PassInv, Spent, Asked
    <2>4. QED
      BY <2>1, <2>2, <2>3 DEF Spent, Asked
  <1>7. Alone'
    <2>1. Running' = Running /\ p \in Running
      BY <1>2 DEF Running
    <2> SUFFICES ASSUME NEW q \in Passes
                 PROVE  /\ pc'[q] = "off" => todo'[q] = {} /\ flying'[q] = {}
                        /\ (pc'[q] # "off" /\ q \notin company') =>
                               /\ Running' = {q}
                               /\ todo'[q] \cap DOMAIN probes' = {}
                               /\ flying'[q] \cap DOMAIN probes' = {}
                               /\ todo'[q] \cap flying'[q] = {}
      BY DEF Alone
    <2>2. CASE q = p
      BY <1>1, <1>2, <1>3, <1>4, <2>1, <2>2 DEF PassInv, Alone
    <2>3. CASE q # p
      <3>1. pc[q] # "off" => q \in company
        BY <2>1, <2>3 DEF PassInv, Alone
      <3>2. QED
        BY <1>1, <1>2, <1>4, <2>3, <3>1 DEF PassInv, Alone
    <2>4. QED
      BY <2>2, <2>3
  <1>8. QED
    BY <1>5, <1>6, <1>7 DEF PassInv

\* A step that asks nothing, and ends at most.
LEMMA QuietKeeps ==
    ASSUME PassInv, NEW p \in Passes, UNCHANGED <<probes, company, widest>>,
           RowsOK', \A a \in Agents : rows'[a][4] = rows[a][4],
           \/ UNCHANGED <<pc, todo, flying>>
           \/ pc[p] # "off" /\ UNCHANGED <<todo, flying>> /\ pc' = [pc EXCEPT ![p] = "judging"]
           \/ Gone(p)
    PROVE  PassInv'
  <1>1. Selected(widest)' = Selected(widest)
    <2>1. Declared' = Declared
      BY DEF Declared, Rung4, HasServices
    <2>2. QED
      BY <2>1 DEF Selected, Distinct
  <1>2. /\ PassesOK'
        /\ \A q \in Passes : todo'[q] \subseteq todo[q] /\ flying'[q] \subseteq flying[q]
        /\ \A q \in Passes : q # p => pc'[q] = pc[q]
        /\ \/ pc' = pc
           \/ pc'[p] = "judging" /\ pc[p] # "off"
           \/ pc'[p] = "off" /\ todo'[p] = {} /\ flying'[p] = {}
    BY DEF PassInv, PassesOK, Gone
  <1>3. Spent'
    BY <1>1, <1>2 DEF PassInv, Spent, Asked
  <1>4. Alone'
    <2>1. Running' \subseteq Running
      BY <1>2 DEF Running
    <2> SUFFICES ASSUME NEW q \in Passes
                 PROVE  /\ pc'[q] = "off" => todo'[q] = {} /\ flying'[q] = {}
                        /\ (pc'[q] # "off" /\ q \notin company') =>
                               /\ Running' = {q}
                               /\ todo'[q] \cap DOMAIN probes' = {}
                               /\ flying'[q] \cap DOMAIN probes' = {}
                               /\ todo'[q] \cap flying'[q] = {}
      BY DEF Alone
    <2>2. pc'[q] = "off" => todo'[q] = {} /\ flying'[q] = {}
      BY <1>2 DEF PassInv, Alone
    <2>3. ASSUME pc'[q] # "off", q \notin company'
          PROVE  /\ Running' = {q}
                 /\ todo'[q] \cap DOMAIN probes' = {}
                 /\ flying'[q] \cap DOMAIN probes' = {}
                 /\ todo'[q] \cap flying'[q] = {}
      <3>1. pc[q] # "off" /\ q \notin company
        BY <1>2, <2>3
      <3>2. q \in Running'
        BY <2>3 DEF Running
      <3>3. QED
        BY <1>2, <2>1, <3>1, <3>2 DEF PassInv, Alone
    <2>4. QED
      BY <2>2, <2>3
  <1>5. QED
    BY <1>2, <1>3, <1>4 DEF PassInv

\* What the judging writes is the row of rung 6, or that there is none.
LEMMA JudgeRows ==
    ASSUME PassInv, NEW p \in Passes, Judge(p)
    PROVE  RowsOK' /\ \A a \in Agents : rows'[a][4] = rows[a][4]
  <1>1. CASE UNCHANGED rows
    BY <1>1 DEF PassInv, RowsOK
  <1>2. CASE \E a, judged : Replace(a, judged)
    <2>1. PICK a, judged : Replace(a, judged)
      BY <1>2
    <2> DEFINE new == IF judged = {} THEN WithoutRung6(a)
                      ELSE [r \in DOMAIN rows[a] \cup {6} |->
                               IF r = 6 THEN CHOOSE row \in judged : TRUE ELSE rows[a][r]]
    <2>2. rows' = [rows EXCEPT ![a] = new]
      BY <2>1 DEF Replace
    <2>3. a \in Agents => 4 \in DOMAIN new /\ new[4] = rows[a][4]
      BY DEF PassInv, RowsOK, WithoutRung6, Restrict
    <2> HIDE DEF new
    <2>4. QED
      BY <2>2, <2>3 DEF PassInv, RowsOK
  <1>3. QED
    BY <1>1, <1>2 DEF Judge

LEMMA PassStep == ASSUME PassInv, [Next]_vars PROVE PassInv'
  <1>1. UNCHANGED rows => RowsOK' /\ \A a \in Agents : rows'[a][4] = rows[a][4]
    BY DEF PassInv, RowsOK
  <1>2. ASSUME NEW p \in Passes, Load(p) PROVE PassInv'
    BY <1>1, <1>2, QuietKeeps DEF Load, history
  <1>3. ASSUME NEW p \in Passes, Judge(p) PROVE PassInv'
    BY <1>3, JudgeRows, QuietKeeps DEF Judge
  <1>4. ASSUME NEW p \in Passes, Restamp(p) \/ Crash(p) PROVE PassInv'
    BY <1>1, <1>4, QuietKeeps DEF Restamp, Crash, history
  <1>5. CASE UNCHANGED vars
    <2>1. UNCHANGED <<rows, probes, pc, todo, flying, company, widest>>
      BY <1>5 DEF vars, passVars, history
    <2>2. PassesOK' /\ RowsOK'
      BY <2>1 DEF PassInv, PassesOK, RowsOK
    <2>3. Spent'
      BY <2>1 DEF PassInv, Spent, Asked, Selected, Distinct, Declared, Rung4
    <2>4. Running' = Running
      BY <2>1 DEF Running
    <2>5. Alone'
      BY <2>1, <2>4 DEF PassInv, Alone
    <2>6. QED
      BY <2>2, <2>3, <2>5 DEF PassInv
  <1>6. QED
    BY <1>2, <1>3, <1>4, <1>5, StartKeeps, AskKeeps, AnswerKeeps DEF Next, Work

\* However many passes run, one after another or at once, with whatever
\* budgets, and wherever they are killed, no more URLs of a host are asked
\* than the largest budget; and a pass that has the run to itself asks no URL
\* that has an observation.
THEOREM BudgetAndMemory == Spec => [](BudgetKept /\ AskedOnce)
  <1>1. PassInv => BudgetKept
    <2> SUFFICES ASSUME PassInv, NEW u \in Asked
                 PROVE  Cardinality({v \in Asked : HostOf[v] = HostOf[u]}) <= widest
      BY DEF BudgetKept, Asked
    <2> DEFINE mine == {v \in Asked : HostOf[v] = HostOf[u]}
               sample == {v \in Distinct : /\ HostOf[v] = HostOf[u]
                                           /\ Cardinality(Before(v, Distinct)) < widest}
    <2>1. mine \subseteq sample
      BY DEF PassInv, Spent, Selected
    <2>2. widest \in Nat /\ sample \in SUBSET Urls
      BY DistinctTyped DEF PassInv, PassesOK
    <2>3. Cardinality(sample) <= widest
      BY <2>2, DistinctTyped, SampleBound
    <2> HIDE DEF mine, sample
    <2>4. IsFiniteSet(sample) /\ Cardinality(sample) \in Nat /\ mine \in SUBSET Urls
      BY <2>1, <2>2, UrlsFinite
    <2>5. Cardinality(mine) <= Cardinality(sample) /\ Cardinality(mine) \in Nat
      BY <2>1, <2>4, UrlsFinite, FS_Subset
    <2>6. Cardinality(mine) <= widest
      BY <2>2, <2>3, <2>4, <2>5
    <2>7. QED
      BY <2>6 DEF mine
  <1>2. PassInv => AskedOnce
    BY DEF PassInv, Alone, AskedOnce
  <1>3. QED
    BY <1>1, <1>2, PassInit, PassStep, PTL DEF Spec
-----------------------------------------------------------------------------
(* Types, of everything but the rows.                                      *)

Typed ==
    /\ probes \in Observations
    /\ stamp \in {"sweep", "liveness"}
    /\ pc \in [Passes -> {"off", "probing", "judging"}]
    /\ budget \in [Passes -> Budgets \cup {0}]
    /\ todo \in [Passes -> SUBSET Urls]
    /\ flying \in [Passes -> SUBSET Urls]
    /\ \A p \in Passes : Cardinality(flying[p]) <= Concurrency
    /\ view \in [Passes -> Observations]
    /\ left \in [Passes -> SUBSET Agents]
    /\ starts \in 0 .. MaxStarts
    /\ company \in SUBSET Passes /\ torn \in SUBSET Passes
    /\ widest \in Budgets \cup {0}

\* A set of observations is a function from some URLs to answers.
LEMMA ObservationsAre ==
    \A f : f \in Observations <=> DOMAIN f \in SUBSET Urls /\ f \in [DOMAIN f -> Responses]
  <1>1. ASSUME NEW f, f \in Observations
        PROVE  DOMAIN f \in SUBSET Urls /\ f \in [DOMAIN f -> Responses]
    <2>1. PICK D \in SUBSET Urls : f \in [D -> Responses]
      BY <1>1 DEF Observations
    <2>2. QED
      BY <2>1
  <1>2. ASSUME NEW f, DOMAIN f \in SUBSET Urls, f \in [DOMAIN f -> Responses]
        PROVE  f \in Observations
    BY <1>2 DEF Observations
  <1>3. QED
    BY <1>1, <1>2

LEMMA NothingTyped == Nothing \in Observations /\ DOMAIN Nothing = {}
  <1>1. DOMAIN Nothing = {} /\ Nothing \in [{} -> Responses]
    BY DEF Nothing
  <1>2. QED
    BY <1>1, ObservationsAre

\* Answers that are recorded are kept.
LEMMA RecordKeeps ==
    ASSUME Typed, NEW u \in Urls, NEW obs \in Responses, RecordProbe(u, obs)
    PROVE  /\ probes' \in Observations
           /\ DOMAIN probes' = DOMAIN probes \cup {u}
           /\ \A v \in DOMAIN probes : probes'[v] = probes[v]
  <1>1. DOMAIN probes \in SUBSET Urls /\ probes \in [DOMAIN probes -> Responses]
    BY ObservationsAre DEF Typed
  <1>2. CASE u \in DOMAIN probes
    BY <1>2 DEF RecordProbe, Typed
  <1>3. CASE u \notin DOMAIN probes
    <2> DEFINE f == [v \in DOMAIN probes \cup {u} |-> IF v = u THEN obs ELSE probes[v]]
    <2>1. probes' = f
      BY <1>3 DEF RecordProbe, With
    <2>2. DOMAIN f = DOMAIN probes \cup {u} /\ \A v \in DOMAIN probes : f[v] = probes[v]
      BY <1>3
    <2>3. f \in [DOMAIN f -> Responses]
      BY <1>1
    <2> HIDE DEF f
    <2>4. f \in Observations
      BY <1>1, <2>2, <2>3, ObservationsAre
    <2>5. QED
      BY <2>1, <2>2, <2>4
  <1>4. QED
    BY <1>2, <1>3

\* One more request, or one less, of those that may be in the air.
LEMMA Crowd ==
    ASSUME NEW S \in SUBSET Urls, NEW u
    PROVE  /\ Cardinality(S) \in Nat
           /\ Cardinality(S \cup {u}) <= Cardinality(S) + 1 /\ Cardinality(S \cup {u}) \in Nat
           /\ Cardinality(S \ {u}) <= Cardinality(S) /\ Cardinality(S \ {u}) \in Nat
  <1>1. IsFiniteSet(S) /\ Cardinality(S) \in Nat
    BY UrlsFinite
  <1>2. Cardinality(S \cup {u}) = IF u \in S THEN Cardinality(S) ELSE Cardinality(S) + 1
    BY <1>1, FS_AddElement
  <1>3. Cardinality(S \ {u}) = IF u \in S THEN Cardinality(S) - 1 ELSE Cardinality(S)
    BY <1>1, FS_RemoveElement
  <1>4. IsFiniteSet(S \ {u}) /\ Cardinality(S \ {u}) \in Nat
    BY <1>1, FS_RemoveElement, FS_CardinalityType
  <1>5. QED
    BY <1>1, <1>2, <1>3, <1>4

\* Of what is left, the first is taken.
LEMMA MinOf == \A S \in SUBSET Nat : S # {} => Min(S) \in S
  <1> SUFFICES ASSUME NEW S \in SUBSET Nat, S # {} PROVE Min(S) \in S
    OBVIOUS
  <1>1. \E x \in S : \A y \in S : x <= y
    BY Least
  <1>2. QED
    BY <1>1 DEF Min

LEMMA TypedStep == ASSUME Typed, [Next]_vars PROVE Typed'
  <1> USE DEF Typed
  <1>0. Concurrency \in Nat /\ MaxStarts \in Nat /\ Urls \in SUBSET Nat /\ Agents \in SUBSET Nat
    BY LivePassAssumption DEF Urls, Agents
  <1>1. ASSUME NEW p \in Passes, Start(p) PROVE Typed'
    <2>1. PICK b \in Budgets :
            /\ budget' = [budget EXCEPT ![p] = b]
            /\ todo' = [todo EXCEPT ![p] = ToAsk(b)]
            /\ widest' = IF b > widest THEN b ELSE widest
      BY <1>1 DEF Start
    <2>2. ToAsk(b) \in SUBSET Urls
      BY SelectedTyped DEF ToAsk
    <2>3. budget' \in [Passes -> Budgets \cup {0}] /\ todo' \in [Passes -> SUBSET Urls]
          /\ widest' \in Budgets \cup {0}
      BY <2>1, <2>2
    <2>4. /\ pc' = [pc EXCEPT ![p] = "probing"] /\ starts' = starts + 1 /\ starts < MaxStarts
          /\ company' = IF Running = {} THEN {} ELSE company \cup Running \cup {p}
          /\ torn' = torn \cap Running
          /\ UNCHANGED <<rows, probes, stamp, flying, view, left>>
      BY <1>1 DEF Start
    <2>5. company' \in SUBSET Passes /\ torn' \in SUBSET Passes
      BY <2>4 DEF Running
    <2>6. starts' \in 0 .. MaxStarts /\ pc' \in [Passes -> {"off", "probing", "judging"}]
      BY <1>0, <2>4
    <2>7. QED
      BY <2>3, <2>4, <2>5, <2>6
  <1>2. ASSUME NEW p \in Passes, Ask(p) PROVE Typed'
    <2> DEFINE u == Min(todo[p])
    <2>1. u \in todo[p]
      BY <1>0, <1>2, MinOf DEF Ask
    <2>2. /\ todo' = [todo EXCEPT ![p] = todo[p] \ {u}]
          /\ flying' = [flying EXCEPT ![p] = flying[p] \cup {u}]
          /\ Cardinality(flying[p]) < Concurrency
          /\ UNCHANGED <<rows, probes, stamp, pc, budget, view, left, starts, company, torn, widest>>
      BY <1>2 DEF Ask, Room, history
    <2> HIDE DEF u
    <2>3. todo' \in [Passes -> SUBSET Urls] /\ flying' \in [Passes -> SUBSET Urls]
      BY <2>1, <2>2
    <2>4. Cardinality(flying[p] \cup {u}) <= Concurrency
      <3>1. flying[p] \in SUBSET Urls /\ Cardinality(flying[p]) < Concurrency
        BY <2>2
      <3>2. /\ Cardinality(flying[p]) \in Nat /\ Cardinality(flying[p] \cup {u}) \in Nat
            /\ Cardinality(flying[p] \cup {u}) <= Cardinality(flying[p]) + 1
        BY <3>1, Crowd, Zenon
      <3> HIDE DEF Typed
      <3>3. QED
        BY <1>0, <3>1, <3>2
    <2>5. \A q \in Passes : Cardinality(flying'[q]) <= Concurrency
      BY <2>2, <2>4
    <2>6. QED
      BY <2>2, <2>3, <2>5
  <1>3. ASSUME NEW p \in Passes, Answer(p) PROVE Typed'
    <2>1. PICK u \in flying[p] :
            /\ flying' = [flying EXCEPT ![p] = flying[p] \ {u}]
            /\ todo' = todo
            /\ (\E obs \in Responses : RecordProbe(u, obs)) \/ probes' = probes
      BY <1>3 DEF Answer, RecordFails
    <2>2. u \in Urls /\ flying' \in [Passes -> SUBSET Urls]
      BY <2>1
    <2>3. probes' \in Observations
      BY <2>1, <2>2, RecordKeeps
    <2>4. Cardinality(flying[p] \ {u}) <= Concurrency
      <3>1. Cardinality(flying[p]) <= Concurrency /\ flying[p] \in SUBSET Urls
        OBVIOUS
      <3>2. /\ Cardinality(flying[p]) \in Nat /\ Cardinality(flying[p] \ {u}) \in Nat
            /\ Cardinality(flying[p] \ {u}) <= Cardinality(flying[p])
        BY <3>1, Crowd, Zenon
      <3> HIDE DEF Typed
      <3>3. QED
        BY <1>0, <3>1, <3>2
    <2>5. \A q \in Passes : Cardinality(flying'[q]) <= Concurrency
      BY <2>1, <2>4
    <2>6. UNCHANGED <<stamp, pc, budget, view, left, starts, company, torn, widest>>
      BY <1>3 DEF Answer, history
    <2>7. QED
      BY <2>1, <2>2, <2>3, <2>5, <2>6
  <1>4. ASSUME NEW p \in Passes, Load(p) PROVE Typed'
    BY <1>4 DEF Load, Observed, history
  <1>5. ASSUME NEW p \in Passes, Judge(p) PROVE Typed'
    <2>1. /\ left' = [left EXCEPT ![p] = left[p] \ {Min(left[p])}]
          /\ torn' = torn \cup {p} \/ torn' = torn
          /\ UNCHANGED <<probes, stamp, pc, budget, todo, flying, view, starts, company, widest>>
      BY <1>5 DEF Judge
    <2>2. QED
      BY <2>1
  <1>6. ASSUME NEW p \in Passes, Restamp(p) \/ Crash(p) PROVE Typed'
    <2>1. /\ Gone(p) /\ stamp' \in {stamp, "liveness"}
          /\ UNCHANGED <<probes, starts, company, torn, widest>>
      BY <1>6 DEF Restamp, Crash, history
    <2>2. \A q \in Passes : Cardinality(flying'[q]) <= Concurrency
      BY <1>0, <2>1, FS_EmptySet DEF Gone
    <2>3. QED
      BY <2>1, <2>2, NothingTyped DEF Gone
  <1>7. CASE UNCHANGED vars
    BY <1>7 DEF vars, passVars, history
  <1>8. QED
    BY <1>1, <1>2, <1>3, <1>4, <1>5, <1>6, <1>7 DEF Next, Work

LEMMA TypedInit == Init => Typed
  <1> SUFFICES ASSUME Init PROVE Typed
    OBVIOUS
  <1>1. probes \in Observations /\ view \in [Passes -> Observations]
    BY NothingTyped DEF Init
  <1>2. \A p \in Passes : Cardinality(flying[p]) <= Concurrency
    BY LivePassAssumption, FS_EmptySet DEF Init
  <1>3. QED
    BY <1>1, <1>2, LivePassAssumption DEF Init, Typed
-----------------------------------------------------------------------------
(* The ladder.                                                             *)

\* What stops the rungs on r, if `below` is what stops r itself.
StopAt(raw, r, below) ==
    IF r \notin DOMAIN raw THEN NoStop
    ELSE IF below # NoStop THEN below
    ELSE IF raw[r] # "pass" THEN <<r, raw[r]>>
    ELSE NoStop

LEMMA Depends ==
    /\ DependsOn[1] = 0 /\ DependsOn[2] = 1 /\ DependsOn[3] = 2 /\ DependsOn[4] = 3
    /\ DependsOn[5] = 4 /\ DependsOn[6] = 4 /\ DependsOn[7] = 1
  BY DEF DependsOn

\* stopper_by_rung is what its recursive definition says: there is such a function.
LEMMA StopperIs ==
    ASSUME NEW raw, DOMAIN raw \subseteq Rungs
    PROVE  Stopper(raw) = [r \in 0 .. 7 |-> StopAt(raw, r, Stopper(raw)[DependsOn[r]])]
  <1> DEFINE F(f) == [r \in 0 .. 7 |-> StopAt(raw, r, f[DependsOn[r]])]
             s1 == StopAt(raw, 1, NoStop)
             s2 == StopAt(raw, 2, s1)
             s3 == StopAt(raw, 3, s2)
             s4 == StopAt(raw, 4, s3)
             s5 == StopAt(raw, 5, s4)
             s6 == StopAt(raw, 6, s4)
             s7 == StopAt(raw, 7, s1)
             g == [r \in 0 .. 7 |-> IF r = 0 THEN NoStop ELSE
                      <<s1, s2, s3, s4, s5, s6, s7>>[r]]
  <1>1. g = F(g)
    <2>1. /\ g[0] = NoStop /\ g[1] = s1 /\ g[2] = s2 /\ g[3] = s3 /\ g[4] = s4
          /\ g[5] = s5 /\ g[6] = s6 /\ g[7] = s7
      OBVIOUS
    <2>2. \A x : StopAt(raw, 0, x) = NoStop
      BY DEF StopAt, Rungs
    <2> HIDE DEF s1, s2, s3, s4, s5, s6, s7
    <2>3. ASSUME NEW r \in 0 .. 7 PROVE g[r] = StopAt(raw, r, g[DependsOn[r]])
      <3> HIDE DEF g
      <3>1. r \in {0, 1, 2, 3, 4, 5, 6, 7}
        OBVIOUS
      <3>2. QED
        BY Depends, <2>1, <2>2, <3>1 DEF s1, s2, s3, s4, s5, s6, s7
    <2>4. QED
      BY <2>3
  <1>2. Stopper(raw) = CHOOSE f : f = F(f)
    BY Zenon DEF Stopper, StopAt
  <1> HIDE DEF F, g
  <1>3. \E f : f = F(f)
    BY <1>1
  <1>4. Stopper(raw) = F(Stopper(raw))
    BY <1>2, <1>3, Zenon
  <1>5. QED
    BY <1>4 DEF F

\* The two rows that the pass puts through the ladder.
LEMMA LadderOfTwo ==
    ASSUME NEW four, NEW result
    PROVE  RunLadder([r \in {4, 6} |-> IF r = 4 THEN four ELSE result])[6]
              = IF four = "pass" THEN Row(result) ELSE Skipped(<<4, four>>)
  <1> DEFINE raw == [r \in {4, 6} |-> IF r = 4 THEN four ELSE result]
             S == Stopper(raw)
  <1>1. DOMAIN raw = {4, 6} /\ raw[4] = four /\ raw[6] = result
    OBVIOUS
  <1> HIDE DEF raw
  <1>2. S = [r \in 0 .. 7 |-> StopAt(raw, r, S[DependsOn[r]])]
    BY <1>1, StopperIs DEF Rungs
  <1>3. RunLadder(raw)[6] = IF S[4] # NoStop THEN Skipped(S[4]) ELSE Row(result)
    BY <1>1, Depends DEF RunLadder
  <1> HIDE DEF S
  <1>4. S[3] = NoStop
    BY <1>1, <1>2 DEF StopAt
  <1>5. S[4] = StopAt(raw, 4, NoStop)
    BY <1>2, <1>4, Depends
  <1>6. S[4] = IF four = "pass" THEN NoStop ELSE <<4, four>>
    BY <1>1, <1>5 DEF StopAt
  <1>7. <<4, four>> # NoStop
    BY DEF NoStop
  <1>8. QED
    BY <1>3, <1>6, <1>7 DEF raw

\* Raw results as the sweep has them.
Judgeable(raw) ==
    /\ DOMAIN raw = 1 .. 5 \cup (IF raw[1] = "pass" THEN {7} ELSE {})
    /\ \A r \in DOMAIN raw : raw[r] \in Statuses \ {"skipped"}

\* What stops a rung is one that was judged and did not pass, and that nothing
\* stops; and nothing stops the rungs on r exactly when r passed and is not stopped.
LEMMA StopperNames ==
    ASSUME NEW raw, Judgeable(raw)
    PROVE  /\ Stopper(raw)[0] = NoStop
           /\ \A r \in DOMAIN raw :
                 LET S == Stopper(raw)
                     stop == S[r]
                 IN  /\ stop = NoStop <=> S[DependsOn[r]] = NoStop /\ raw[r] = "pass"
                     /\ stop # NoStop =>
                           \E k \in DOMAIN raw :
                              /\ stop = <<k, raw[k]>> /\ k <= r
                              /\ raw[k] # "pass" /\ S[DependsOn[k]] = NoStop
  <1> DEFINE S == Stopper(raw)
             Named(r) == S[r] # NoStop =>
                           \E k \in DOMAIN raw :
                              /\ S[r] = <<k, raw[k]>> /\ k <= r
                              /\ raw[k] # "pass" /\ S[DependsOn[k]] = NoStop
  <1>1. DOMAIN raw \subseteq Rungs
    BY DEF Judgeable, Rungs
  <1>2. S = [r \in 0 .. 7 |-> StopAt(raw, r, S[DependsOn[r]])]
    BY <1>1, StopperIs
  <1> HIDE DEF S
  <1>3. S[0] = NoStop
    BY <1>1, <1>2 DEF StopAt, Rungs
  <1>4. ASSUME NEW r \in DOMAIN raw
        PROVE  S[r] = IF S[DependsOn[r]] # NoStop THEN S[DependsOn[r]]
                      ELSE IF raw[r] # "pass" THEN <<r, raw[r]>> ELSE NoStop
    <2>1. r \in 0 .. 7
      BY <1>1 DEF Rungs
    <2>2. S[r] = StopAt(raw, r, S[DependsOn[r]])
      BY <1>2, <2>1
    <2>3. QED
      BY <2>2 DEF StopAt
  <1>5. ASSUME NEW r \in DOMAIN raw
        PROVE  S[r] = NoStop <=> S[DependsOn[r]] = NoStop /\ raw[r] = "pass"
    <2>1. <<r, raw[r]>> # NoStop
      BY <1>1 DEF NoStop, Rungs
    <2>2. QED
      BY <1>4, <2>1
  <1>6. ASSUME NEW r \in DOMAIN raw, S[DependsOn[r]] = NoStop PROVE Named(r)
    <2>1. S[r] # NoStop => S[r] = <<r, raw[r]>> /\ raw[r] # "pass"
      BY <1>4, <1>6
    <2>2. r <= r
      BY <1>1 DEF Rungs
    <2>3. QED
      BY <1>6, <2>1, <2>2
  <1>7. ASSUME NEW r \in DOMAIN raw, NEW d \in DOMAIN raw, d = DependsOn[r], d < r, Named(d)
        PROVE  Named(r)
    <2>1. CASE S[d] = NoStop
      BY <1>6, <1>7, <2>1
    <2>2. CASE S[d] # NoStop
      <3>1. S[r] = S[d]
        BY <1>4, <1>7, <2>2
      <3>2. PICK k \in DOMAIN raw :
               S[d] = <<k, raw[k]>> /\ k <= d /\ raw[k] # "pass" /\ S[DependsOn[k]] = NoStop
        BY <1>7, <2>2
      <3>3. k <= r
        BY <1>1, <1>7, <3>2 DEF Rungs
      <3>4. QED
        BY <3>1, <3>2, <3>3
    <2>3. QED
      BY <2>1, <2>2
  <1> HIDE DEF Named
  <1>8. {1, 2, 3, 4, 5} \subseteq DOMAIN raw /\ DOMAIN raw \subseteq {1, 2, 3, 4, 5, 7}
    BY DEF Judgeable
  <1>9. Named(1)
    BY <1>3, <1>6, <1>8, Depends
  <1>10. Named(2)
    BY <1>7, <1>8, <1>9, Depends
  <1>11. Named(3)
    BY <1>7, <1>8, <1>10, Depends
  <1>12. Named(4)
    BY <1>7, <1>8, <1>11, Depends
  <1>13. Named(5)
    BY <1>7, <1>8, <1>12, Depends
  <1>14. 7 \in DOMAIN raw => Named(7)
    BY <1>7, <1>8, <1>9, Depends
  <1>15. \A r \in DOMAIN raw : Named(r)
    BY <1>8, <1>9, <1>10, <1>11, <1>12, <1>13, <1>14
  <1>16. QED
    BY <1>3, <1>5, <1>15 DEF Named, S

\* The rows of the sweep: a row is skipped exactly when the rung it depends on was
\* judged and its row did not pass, and it names a rung whose row is what stopped it.
LEMMA SweepLadder ==
    ASSUME NEW raw, Judgeable(raw)
    PROVE  LET R == RunLadder(raw)
           IN  /\ DOMAIN R = DOMAIN raw
               /\ \A r \in DOMAIN raw :
                     /\ R[r] \in Rows
                     /\ R[r].status = "skipped" <=>
                           DependsOn[r] \in DOMAIN raw /\ R[DependsOn[r]].status # "pass"
                     /\ R[r].status = "skipped" =>
                           \E k \in DOMAIN raw :
                              /\ R[r].because = <<k, R[k].status>> /\ k < r
                              /\ R[k].status \notin {"pass", "skipped"}
                     /\ R[r].status # "skipped" => R[r].status = raw[r]
  <1> DEFINE R == RunLadder(raw)
             S == Stopper(raw)
  <1>1. /\ S[0] = NoStop
        /\ \A r \in DOMAIN raw :
              /\ S[r] = NoStop <=> S[DependsOn[r]] = NoStop /\ raw[r] = "pass"
              /\ S[r] # NoStop =>
                    \E k \in DOMAIN raw :
                       /\ S[r] = <<k, raw[k]>> /\ k <= r
                       /\ raw[k] # "pass" /\ S[DependsOn[k]] = NoStop
    BY StopperNames
  <1>2. /\ DOMAIN R = DOMAIN raw
        /\ \A r \in DOMAIN raw :
              R[r] = IF S[DependsOn[r]] # NoStop THEN Skipped(S[DependsOn[r]]) ELSE Row(raw[r])
    BY DEF RunLadder
  <1>3. /\ \A r \in DOMAIN raw : raw[r] \in Statuses /\ raw[r] # "skipped"
        /\ DOMAIN raw \subseteq Rungs /\ DOMAIN raw \subseteq {1, 2, 3, 4, 5, 7}
        /\ {1, 2, 3, 4, 5} \subseteq DOMAIN raw
    BY DEF Judgeable, Rungs
  <1> HIDE DEF R, S
  <1>4. \A r \in DOMAIN raw :
           \/ r = 1 /\ DependsOn[r] = 0
           \/ DependsOn[r] \in DOMAIN raw /\ DependsOn[r] < r
    <2> SUFFICES ASSUME NEW r \in DOMAIN raw
                 PROVE  \/ r = 1 /\ DependsOn[r] = 0
                        \/ DependsOn[r] \in DOMAIN raw /\ DependsOn[r] < r
      OBVIOUS
    <2>1. r \in {1, 2, 3, 4, 5, 7}
      BY <1>3
    <2>2. QED
      BY <1>3, <2>1, Depends
  <1>5. \A r \in DOMAIN raw :
           /\ R[r].status = IF S[DependsOn[r]] # NoStop THEN "skipped" ELSE raw[r]
           /\ S[DependsOn[r]] # NoStop => R[r].because = S[DependsOn[r]]
           /\ S[DependsOn[r]] = NoStop => R[r].because = NoStop
    BY <1>2 DEF Skipped, Row
  <1>6. \A r \in DOMAIN raw : R[r].status = "pass" <=> S[r] = NoStop
    BY <1>1, <1>3, <1>5
  <1>7. ASSUME NEW r \in DOMAIN raw, S[DependsOn[r]] # NoStop
        PROVE  \E k \in DOMAIN raw :
                  /\ S[DependsOn[r]] = <<k, raw[k]>> /\ k < r
                  /\ R[k].status = raw[k] /\ raw[k] \notin {"pass", "skipped"}
    <2>1. DependsOn[r] \in DOMAIN raw /\ DependsOn[r] < r
      BY <1>1, <1>4, <1>7
    <2>2. PICK k \in DOMAIN raw :
             /\ S[DependsOn[r]] = <<k, raw[k]>> /\ k <= DependsOn[r]
             /\ raw[k] # "pass" /\ S[DependsOn[k]] = NoStop
      BY <1>1, <1>7, <2>1
    <2>3. R[k].status = raw[k] /\ raw[k] # "skipped"
      BY <1>3, <1>5, <2>2
    <2>4. k < r
      BY <1>3, <2>1, <2>2 DEF Rungs
    <2>5. QED
      BY <2>2, <2>3, <2>4
  <1>8. ASSUME NEW r \in DOMAIN raw
        PROVE  /\ R[r] \in Rows
               /\ R[r].status = "skipped" <=>
                     DependsOn[r] \in DOMAIN raw /\ R[DependsOn[r]].status # "pass"
               /\ R[r].status = "skipped" =>
                     \E k \in DOMAIN raw :
                        /\ R[r].because = <<k, R[k].status>> /\ k < r
                        /\ R[k].status \notin {"pass", "skipped"}
               /\ R[r].status # "skipped" => R[r].status = raw[r]
    <2>1. R[r].status = "skipped" <=> S[DependsOn[r]] # NoStop
      BY <1>3, <1>5
    <2>2. R[r].status = "skipped" <=>
             DependsOn[r] \in DOMAIN raw /\ R[DependsOn[r]].status # "pass"
      <3>1. CASE r = 1 /\ DependsOn[r] = 0
        BY <1>1, <1>3, <2>1, <3>1 DEF Rungs
      <3>2. CASE DependsOn[r] \in DOMAIN raw
        BY <1>6, <2>1, <3>2
      <3>3. QED
        BY <1>4, <3>1, <3>2
    <2>3. R[r].status = "skipped" =>
             \E k \in DOMAIN raw :
                /\ R[r].because = <<k, R[k].status>> /\ k < r
                /\ R[k].status \notin {"pass", "skipped"}
      BY <1>5, <1>7, <2>1
    <2>4. R[r] \in Rows
      <3>1. CASE S[DependsOn[r]] # NoStop
        <4>1. PICK k \in DOMAIN raw : S[DependsOn[r]] = <<k, raw[k]>>
          BY <1>7, <3>1
        <4>2. S[DependsOn[r]] \in Rungs \X Statuses
          BY <1>3, <4>1
        <4>3. R[r] = Skipped(S[DependsOn[r]])
          BY <1>2, <3>1
        <4>4. QED
          BY <4>2, <4>3 DEF Skipped, Rows, Statuses
      <3>2. CASE S[DependsOn[r]] = NoStop
        BY <1>2, <1>3, <3>2 DEF Row, Rows
      <3>3. QED
        BY <3>1, <3>2
    <2>5. QED
      BY <1>5, <2>1, <2>2, <2>3, <2>4
  <1>9. QED
    BY <1>2, <1>8 DEF R

-----------------------------------------------------------------------------
(* What a verdict rests on.                                                *)

\* VerdictIsBacked, of one verdict and what was observed.
Backed(seen, status) ==
    LET answers == {obs.status : obs \in {o \in seen : o.error = "none"}}
        errors == {obs.error : obs \in seen}
    IN  /\ status = "pass" => \E code \in answers : Success(code) \/ code = 402
        /\ status = "fail" =>
               \/ "ssrf_blocked" \in errors
               \/ \E code \in answers \ {0} : ~Success(code) /\ ~DeclinedUs(code)
        /\ status = "refused" =>
               \/ \E error \in errors : CouldNotAsk(error)
               \/ \E code \in answers : DeclinedUs(code) /\ code # 402
        /\ status = "error" => seen # {}

\* More observations take nothing away.
LEMMA BackedGrows ==
    ASSUME NEW S, NEW T, S \subseteq T, NEW status, Backed(S, status)
    PROVE  Backed(T, status)
  <1>1. /\ {obs.status : obs \in {o \in S : o.error = "none"}}
              \subseteq {obs.status : obs \in {o \in T : o.error = "none"}}
        /\ {obs.error : obs \in S} \subseteq {obs.error : obs \in T}
    OBVIOUS
  <1>2. QED
    BY <1>1 DEF Backed

LEMMA VerdictBacked ==
    ASSUME NEW S, S # {}
    PROVE  Backed(S, Verdict({SeenAt(obs) : obs \in S}))
  <1> DEFINE seen == {SeenAt(obs) : obs \in S}
             answers == {obs.status : obs \in {o \in S : o.error = "none"}}
             errors == {obs.error : obs \in S}
             v == Verdict(seen)
  <1>1. \A obs \in S : /\ obs.error \in errors
                       /\ obs.error = "none" => obs.status \in answers
    OBVIOUS
  <1>2. ASSUME v = "pass" PROVE \E code \in answers : Success(code) \/ code = 402
    <2>1. PICK obs \in S : SeenAt(obs) = "live"
      BY <1>2 DEF Verdict
    <2>2. obs.error = "none" /\ (Success(obs.status) \/ obs.status = 402)
      BY <2>1 DEF SeenAt
    <2>3. obs.status \in answers
      BY <1>1, <2>2
    <2> HIDE DEF answers
    <2>4. QED
      BY <2>2, <2>3
  <1>3. ASSUME v = "fail"
        PROVE  \/ "ssrf_blocked" \in errors
               \/ \E code \in answers \ {0} : ~Success(code) /\ ~DeclinedUs(code)
    <2>1. PICK obs \in S : SeenAt(obs) = "not_live"
      BY <1>3 DEF Verdict
    <2>2. CASE obs.error # "none"
      <3>1. obs.error = "ssrf_blocked"
        BY <2>1, <2>2 DEF SeenAt
      <3>2. QED
        BY <1>1, <3>1
    <2>3. CASE obs.error = "none"
      <3>1. /\ ~Success(obs.status) /\ obs.status # 402 /\ obs.status # 0
            /\ ~(DeclinedUs(obs.status) /\ obs.status # 402)
        BY <2>1, <2>3 DEF SeenAt
      <3>2. QED
        BY <1>1, <2>3, <3>1
    <2>4. QED
      BY <2>2, <2>3
  <1>4. ASSUME v = "refused"
        PROVE  \/ \E error \in errors : CouldNotAsk(error)
               \/ \E code \in answers : DeclinedUs(code) /\ code # 402
    <2>1. PICK obs \in S : SeenAt(obs) = "refused"
      BY <1>4 DEF Verdict
    <2>2. CASE obs.error # "none"
      <3>1. CouldNotAsk(obs.error)
        BY <2>1, <2>2 DEF SeenAt
      <3>2. QED
        BY <1>1, <3>1
    <2>3. CASE obs.error = "none"
      <3>1. DeclinedUs(obs.status) /\ obs.status # 402
        BY <2>1, <2>3 DEF SeenAt
      <3>2. QED
        BY <1>1, <2>3, <3>1
    <2>4. QED
      BY <2>2, <2>3
  <1> HIDE DEF v, seen
  <1>5. Backed(S, v)
    BY <1>2, <1>3, <1>4 DEF Backed
  <1>6. QED
    BY <1>5 DEF v, seen
-----------------------------------------------------------------------------
(* The rows.                                                               *)

\* The rows of the sweep are still what its ladder made of some raw results.
SweptRows(a) ==
    \E raw \in Raw[a] :
        /\ DOMAIN rows[a] \ {6} = DOMAIN raw
        /\ \A r \in DOMAIN raw : rows[a][r] = RunLadder(raw)[r]

\* A row of rung 6 stands on that of rung 4, and a verdict on what was observed.
SixOK(a) ==
    6 \in DOMAIN rows[a] =>
        IF Rung4(a) = "pass"
        THEN \E status \in {"unprobeable", "pass", "fail", "refused", "error"} :
                rows[a][6] = Row(status) /\ Backed(ObservedOf(a, probes), status)
        ELSE rows[a][6] = Skipped(<<4, Rung4AsRead(Rung4(a))>>)

\* The rows of every agent, of the sweep and of the passes.
LadderInv ==
    /\ rows = [a \in Agents |-> rows[a]]
    /\ \A a \in Agents : SweptRows(a) /\ SixOK(a)

\* What a pass has in mind of the observations is in the table.
Views ==
    \A p \in Passes :
        /\ DOMAIN view[p] \subseteq DOMAIN probes
        /\ \A u \in DOMAIN view[p] : probes[u] = view[p][u]

LEMMA RawsAreJudgeable ==
    ASSUME NEW a \in Agents, NEW raw \in Raw[a]
    PROVE  Judgeable(raw) /\ raw[4] \in {"pass", "fail"}
  BY LivePassAssumption DEF Judgeable

\* What rung 6 can find at rung 4.
LEMMA FourIs ==
    ASSUME LadderInv, NEW a \in Agents
    PROVE  /\ 4 \in DOMAIN rows[a] /\ Rung4(a) \in {"pass", "fail", "skipped"}
           /\ Rung4AsRead(Rung4(a)) = Rung4(a)
  <1>1. PICK raw \in Raw[a] :
          /\ DOMAIN rows[a] \ {6} = DOMAIN raw
          /\ \A r \in DOMAIN raw : rows[a][r] = RunLadder(raw)[r]
    BY DEF LadderInv, SweptRows
  <1>2. Judgeable(raw) /\ raw[4] \in {"pass", "fail"}
    BY RawsAreJudgeable
  <1>3. 4 \in DOMAIN raw
    BY <1>2 DEF Judgeable
  <1>4. \/ RunLadder(raw)[4].status = "skipped"
        \/ RunLadder(raw)[4].status = raw[4]
    BY <1>2, <1>3, SweepLadder
  <1>5. Rung4(a) \in {"pass", "fail", "skipped"}
    BY <1>1, <1>2, <1>3, <1>4 DEF Rung4
  <1>6. QED
    BY <1>1, <1>3, <1>5 DEF Rung4AsRead

\* The judgement, case by case.
LEMMA JudgedIs ==
    ASSUME LadderInv, NEW a \in Agents, NEW observed
    PROVE  Judged(a, observed) =
              IF Rung4(a) # "pass" THEN {Skipped(<<4, Rung4(a)>>)}
              ELSE IF a \notin HasServices THEN {}
              ELSE IF Declares[a] = {} THEN {Row("unprobeable")}
              ELSE IF ObservedOf(a, observed) = {} THEN {}
              ELSE {Row(Verdict({SeenAt(obs) : obs \in ObservedOf(a, observed)}))}
  <1> DEFINE ladder(result) ==
          {RunLadder([r \in {4, 6} |-> IF r = 4 THEN Rung4AsRead(Rung4(a)) ELSE result])[6]}
             verdict == Verdict({SeenAt(obs) : obs \in ObservedOf(a, observed)})
  <1>1. ASSUME NEW result
        PROVE  ladder(result) = {IF Rung4(a) = "pass" THEN Row(result) ELSE Skipped(<<4, Rung4(a)>>)}
    <2>1. RunLadder([r \in {4, 6} |-> IF r = 4 THEN Rung4AsRead(Rung4(a)) ELSE result])[6]
             = IF Rung4AsRead(Rung4(a)) = "pass" THEN Row(result)
               ELSE Skipped(<<4, Rung4AsRead(Rung4(a))>>)
      BY LadderOfTwo
    <2>2. Rung4AsRead(Rung4(a)) = Rung4(a)
      BY FourIs
    <2>3. QED
      BY <2>1, <2>2
  <1>2. Judged(a, observed) =
          IF a \in Declared
          THEN IF Declares[a] = {} THEN ladder("unprobeable")
               ELSE IF ObservedOf(a, observed) = {} THEN {} ELSE ladder(verdict)
          ELSE IF Rung4(a) = "pass" THEN {} ELSE ladder("unprobeable")
    BY Zenon DEF Judged
  <1> HIDE DEF ladder, verdict
  <1>3. a \in Declared <=> a \in HasServices /\ Rung4(a) = "pass"
    BY DEF Declared
  <1>4. QED
    BY <1>1, <1>2, <1>3 DEF verdict

\* What one step of the judging writes.
Wrote(p, a) ==
    /\ \A b \in Agents \ {a} : rows'[b] = rows[b]
    /\ DOMAIN rows'[a] \ {6} = DOMAIN rows[a] \ {6}
    /\ \A r \in DOMAIN rows[a] \ {6} : rows'[a][r] = rows[a][r]
    /\ Judged(a, view[p]) = {} => 6 \notin DOMAIN rows'[a]
    /\ \A row : Judged(a, view[p]) = {row} => 6 \in DOMAIN rows'[a] /\ rows'[a][6] = row

LEMMA JudgeWrites ==
    ASSUME Typed, LadderInv, NEW p \in Passes, Judge(p)
    PROVE  \E a \in left[p] :
              /\ a \in Agents /\ left' = [left EXCEPT ![p] = left[p] \ {a}]
              /\ rows' = [b \in Agents |-> rows'[b]]
              /\ \/ Wrote(p, a) /\ torn' = torn
                 \/ rows' = rows /\ torn' = torn \cup {p}
  <1> DEFINE a == Min(left[p])
             judged == Judged(a, view[p])
  <1>1. a \in left[p] /\ a \in Agents
    <2>1. left[p] \in SUBSET Agents /\ left[p] # {} /\ Agents \in SUBSET Nat
      BY DEF Typed, Judge, Agents
    <2>2. QED
      BY <2>1, MinOf
  <1>2. /\ left' = [left EXCEPT ![p] = left[p] \ {a}]
        /\ \/ Replace(a, judged) /\ torn' = torn
           \/ torn' = torn \cup {p} /\ rows' = rows
    BY DEF Judge
  <1> HIDE DEF a
  <1>3. CASE Replace(a, judged)
    <2> DEFINE new == IF judged = {} THEN WithoutRung6(a)
                      ELSE [r \in DOMAIN rows[a] \cup {6} |->
                               IF r = 6 THEN CHOOSE row \in judged : TRUE ELSE rows[a][r]]
    <2>1. rows' = [rows EXCEPT ![a] = new]
      BY <1>3 DEF Replace
    <2>2. judged = {} => /\ DOMAIN new = DOMAIN rows[a] \ {6}
                         /\ \A r \in DOMAIN rows[a] \ {6} : new[r] = rows[a][r]
      BY DEF WithoutRung6, Restrict
    <2>3. judged # {} => /\ DOMAIN new = DOMAIN rows[a] \cup {6}
                         /\ \A r \in DOMAIN rows[a] \ {6} : new[r] = rows[a][r]
                         /\ new[6] = CHOOSE row \in judged : TRUE
      OBVIOUS
    <2>4. \A row : judged = {row} => (CHOOSE x \in judged : TRUE) = row
      OBVIOUS
    <2> HIDE DEF new
    <2>5. rows'[a] = new /\ \A b \in Agents \ {a} : rows'[b] = rows[b]
      BY <1>1, <2>1 DEF LadderInv
    <2>6. rows' = [b \in Agents |-> rows'[b]]
      BY <2>1 DEF LadderInv
    <2> HIDE DEF judged
    <2>7. /\ DOMAIN rows'[a] \ {6} = DOMAIN rows[a] \ {6}
          /\ \A r \in DOMAIN rows[a] \ {6} : rows'[a][r] = rows[a][r]
          /\ judged = {} => 6 \notin DOMAIN rows'[a]
          /\ \A row : judged = {row} => 6 \in DOMAIN rows'[a] /\ rows'[a][6] = row
      <3>1. CASE judged = {}
        BY <2>2, <2>5, <3>1
      <3>2. CASE judged # {}
        BY <2>3, <2>4, <2>5, <3>2
      <3>3. QED
        BY <3>1, <3>2
    <2>8. Wrote(p, a)
      BY <2>5, <2>7 DEF Wrote, judged
    <2>9. QED
      BY <1>1, <1>2, <2>6, <2>8
  <1>4. CASE rows' = rows /\ torn' = torn \cup {p}
    BY <1>1, <1>2, <1>4 DEF LadderInv
  <1>5. QED
    BY <1>2, <1>3, <1>4
\* Steps that judge nothing leave the rows alone, and what is in the table.
LEMMA OtherSteps ==
    ASSUME Typed, [Next]_vars, ~ \E p \in Passes : Judge(p)
    PROVE  /\ rows' = rows
           /\ DOMAIN probes \subseteq DOMAIN probes'
           /\ \A u \in DOMAIN probes : probes'[u] = probes[u]
  <1>1. CASE \E p \in Passes : Start(p) \/ Ask(p) \/ Load(p) \/ Restamp(p) \/ Crash(p)
    BY <1>1 DEF Start, Ask, Load, Restamp, Crash
  <1>2. CASE \E p \in Passes : Answer(p)
    <2>1. PICK p \in Passes : Answer(p)
      BY <1>2
    <2>2. PICK u \in flying[p] : (\E obs \in Responses : RecordProbe(u, obs)) \/ probes' = probes
      BY <2>1 DEF Answer, RecordFails
    <2>3. u \in Urls /\ rows' = rows
      BY <2>1 DEF Answer, Typed
    <2>4. QED
      BY <2>2, <2>3, RecordKeeps
  <1>3. CASE UNCHANGED vars
    BY <1>3 DEF vars
  <1>4. QED
    BY <1>1, <1>2, <1>3 DEF Next, Work

\* A judging step leaves the table alone.
LEMMA JudgeLeaves ==
    ASSUME NEW p \in Passes, Judge(p)
    PROVE  UNCHANGED <<probes, view, pc, company>>
  BY DEF Judge

LEMMA ViewsStep == ASSUME Typed, Views, [Next]_vars PROVE Views'
  <1> SUFFICES ASSUME NEW q \in Passes
               PROVE  /\ DOMAIN view'[q] \subseteq DOMAIN probes'
                      /\ \A u \in DOMAIN view'[q] : probes'[u] = view'[q][u]
    BY DEF Views
  <1>1. /\ DOMAIN probes \subseteq DOMAIN probes'
        /\ \A u \in DOMAIN probes : probes'[u] = probes[u]
    BY OtherSteps, JudgeLeaves
  <1>2. view'[q] = view[q] \/ view'[q] = probes \/ view'[q] = Nothing
    <2>1. ASSUME NEW p \in Passes, Start(p) \/ Ask(p) \/ Answer(p) \/ Judge(p) PROVE view' = view
      BY <2>1 DEF Start, Ask, Answer, Judge
    <2>2. ASSUME NEW p \in Passes, Load(p) PROVE view'[q] = view[q] \/ view'[q] = probes
      BY <2>2 DEF Load, Observed, Typed
    <2>3. ASSUME NEW p \in Passes, Restamp(p) \/ Crash(p)
          PROVE  view'[q] = view[q] \/ view'[q] = Nothing
      BY <2>3 DEF Restamp, Crash, Gone, Typed
    <2>4. CASE UNCHANGED vars
      BY <2>4 DEF vars, passVars
    <2>5. QED
      BY <2>1, <2>2, <2>3, <2>4 DEF Next, Work
  <1>3. QED
    BY <1>1, <1>2, NothingTyped DEF Views

\* What a pass observed of an agent's URLs is still there.
LEMMA ObservedGrows ==
    ASSUME NEW f, NEW g, NEW a, DOMAIN f \subseteq DOMAIN g, \A u \in DOMAIN f : g[u] = f[u]
    PROVE  ObservedOf(a, f) \subseteq ObservedOf(a, g)
  BY DEF ObservedOf

LEMMA LadderStep == ASSUME Typed, Views, LadderInv, [Next]_vars PROVE LadderInv'
  <1>1. ASSUME NEW p \in Passes, Judge(p) PROVE LadderInv'
    <2>1. PICK a \in left[p] :
             /\ a \in Agents /\ rows' = [b \in Agents |-> rows'[b]]
             /\ Wrote(p, a) \/ rows' = rows
      BY <1>1, JudgeWrites
    <2>2. probes' = probes
      BY <1>1, JudgeLeaves
    <2>3. CASE rows' = rows
      BY <2>2, <2>3 DEF LadderInv, SweptRows, SixOK, Rung4
    <2>4. CASE Wrote(p, a)
      <3>1. ASSUME NEW b \in Agents, b # a PROVE SweptRows(b)' /\ SixOK(b)'
        <4>1. rows'[b] = rows[b]
          BY <2>4, <3>1 DEF Wrote
        <4>2. SweptRows(b) /\ SixOK(b)
          BY DEF LadderInv
        <4>3. SweptRows(b)'
          BY <4>1, <4>2 DEF SweptRows
        <4>4. SixOK(b)'
          BY <2>2, <4>1, <4>2 DEF SixOK, Rung4
        <4>5. QED
          BY <4>3, <4>4
      <3>2. SweptRows(a)'
        <4>1. PICK raw \in Raw[a] :
                /\ DOMAIN rows[a] \ {6} = DOMAIN raw
                /\ \A r \in DOMAIN raw : rows[a][r] = RunLadder(raw)[r]
          BY <2>1 DEF LadderInv, SweptRows
        <4>2. /\ DOMAIN rows'[a] \ {6} = DOMAIN raw
              /\ \A r \in DOMAIN raw : rows'[a][r] = RunLadder(raw)[r]
          BY <2>4, <4>1 DEF Wrote
        <4>3. QED
          BY <4>2 DEF SweptRows
      <3>3. SixOK(a)'
        <4>1. Rung4(a)' = Rung4(a) /\ Rung4AsRead(Rung4(a)) = Rung4(a)
          <5>1. 4 \in DOMAIN rows[a] \ {6} /\ Rung4AsRead(Rung4(a)) = Rung4(a)
            BY <2>1, FourIs
          <5>2. QED
            BY <2>4, <5>1 DEF Wrote, Rung4
        <4>2. ObservedOf(a, view[p]) \subseteq ObservedOf(a, probes)
          BY ObservedGrows DEF Views
        <4>3. ASSUME 6 \in DOMAIN rows'[a], Rung4(a) # "pass"
              PROVE  rows'[a][6] = Skipped(<<4, Rung4(a)>>)
          <5>1. Judged(a, view[p]) = {Skipped(<<4, Rung4(a)>>)}
            BY <2>1, <4>3, JudgedIs
          <5>2. QED
            BY <2>4, <5>1 DEF Wrote
        <4>4. ASSUME 6 \in DOMAIN rows'[a], Rung4(a) = "pass"
              PROVE  \E status \in {"unprobeable", "pass", "fail", "refused", "error"} :
                        rows'[a][6] = Row(status) /\ Backed(ObservedOf(a, probes), status)
          <5> DEFINE seen == ObservedOf(a, view[p])
                     verdict == Verdict({SeenAt(obs) : obs \in seen})
          <5>1. Judged(a, view[p]) # {}
            BY <2>4, <4>4 DEF Wrote
          <5>2. \/ Judged(a, view[p]) = {Row("unprobeable")}
                \/ seen # {} /\ Judged(a, view[p]) = {Row(verdict)}
            BY <2>1, <4>4, <5>1, JudgedIs
          <5>3. CASE Judged(a, view[p]) = {Row("unprobeable")}
            <6>1. rows'[a][6] = Row("unprobeable")
              BY <2>4, <5>3 DEF Wrote
            <6>2. Backed(ObservedOf(a, probes), "unprobeable")
              BY DEF Backed
            <6>3. QED
              BY <6>1, <6>2
          <5>4. CASE seen # {} /\ Judged(a, view[p]) = {Row(verdict)}
            <6>1. rows'[a][6] = Row(verdict)
              BY <2>4, <5>4 DEF Wrote
            <6>2. Backed(seen, verdict)
              BY <5>4, VerdictBacked
            <6>3. verdict \in {"pass", "fail", "refused", "error"}
              BY DEF Verdict
            <6> HIDE DEF verdict, seen
            <6>4. Backed(ObservedOf(a, probes), verdict)
              BY <4>2, <6>2, BackedGrows DEF seen
            <6>5. QED
              BY <6>1, <6>3, <6>4
          <5>5. QED
            BY <5>2, <5>3, <5>4
        <4>5. QED
          BY <2>2, <4>1, <4>3, <4>4 DEF SixOK
      <3>4. QED
        BY <2>1, <3>1, <3>2, <3>3 DEF LadderInv
    <2>5. QED
      BY <2>1, <2>3, <2>4
  <1>2. CASE ~ \E p \in Passes : Judge(p)
    <2>1. /\ rows' = rows
          /\ \A a \in Agents : ObservedOf(a, probes) \subseteq ObservedOf(a, probes')
      BY <1>2, OtherSteps, ObservedGrows
    <2>2. ASSUME NEW a \in Agents PROVE SixOK(a)'
      <3>1. \A status : Backed(ObservedOf(a, probes), status)
                           => Backed(ObservedOf(a, probes'), status)
        BY <2>1, BackedGrows
      <3>2. QED
        BY <2>1, <3>1 DEF LadderInv, SixOK, Rung4
    <2>3. QED
      BY <2>1, <2>2 DEF LadderInv, SweptRows
  <1>3. QED
    BY <1>1, <1>2

LEMMA LadderInit == Init => LadderInv /\ Views
  <1> SUFFICES ASSUME Init PROVE LadderInv /\ Views
    OBVIOUS
  <1>1. PICK raw \in [Agents -> UNION {Raw[a] : a \in Agents}] :
            /\ \A a \in Agents : raw[a] \in Raw[a]
            /\ rows = [a \in Agents |-> RunLadder(raw[a])]
    BY DEF Init
  <1>2. ASSUME NEW a \in Agents PROVE SweptRows(a) /\ SixOK(a)
    <2>1. raw[a] \in Raw[a] /\ Judgeable(raw[a])
      BY <1>1, RawsAreJudgeable
    <2>2. DOMAIN RunLadder(raw[a]) = DOMAIN raw[a] /\ 6 \notin DOMAIN raw[a]
      <3>1. DOMAIN RunLadder(raw[a]) = DOMAIN raw[a]
        BY DEF RunLadder
      <3>2. 6 \notin DOMAIN raw[a]
        BY <2>1 DEF Judgeable
      <3>3. QED
        BY <3>1, <3>2
    <2>3. rows[a] = RunLadder(raw[a])
      BY <1>1
    <2>4. SweptRows(a)
      BY <2>1, <2>2, <2>3 DEF SweptRows
    <2>5. SixOK(a)
      BY <2>2, <2>3 DEF SixOK
    <2>6. QED
      BY <2>4, <2>5
  <1>3. Views
    BY NothingTyped DEF Init, Views
  <1>4. QED
    BY <1>1, <1>2, <1>3 DEF LadderInv

\* In every state the rows are those of the ladder, and what passes have in mind is true.
LEMMA Ladders == Spec => [](Typed /\ Views /\ LadderInv)
  <1>1. Typed /\ Views /\ LadderInv /\ [Next]_vars => (Typed /\ Views /\ LadderInv)'
    BY TypedStep, ViewsStep, LadderStep
  <1>2. QED
    BY <1>1, TypedInit, LadderInit, PTL DEF Spec

\* The rows of the sweep and that of the pass, taken together.
LEMMA RowsAre ==
    ASSUME LadderInv, NEW a \in Agents
    PROVE  /\ DOMAIN rows[a] \subseteq Rungs
           /\ \A r \in DOMAIN rows[a] :
                 /\ rows[a][r] \in Rows
                 /\ rows[a][r].status = "skipped" <=>
                       DependsOn[r] \in DOMAIN rows[a] /\ rows[a][DependsOn[r]].status # "pass"
                 /\ r # 6 /\ rows[a][r].status = "skipped" =>
                       \E k \in DOMAIN rows[a] :
                          /\ rows[a][r].because = <<k, rows[a][k].status>> /\ k < r
                          /\ rows[a][k].status \notin {"pass", "skipped"}
  <1>1. PICK raw \in Raw[a] :
          /\ DOMAIN rows[a] \ {6} = DOMAIN raw
          /\ \A r \in DOMAIN raw : rows[a][r] = RunLadder(raw)[r]
    BY DEF LadderInv, SweptRows
  <1>2. Judgeable(raw)
    BY RawsAreJudgeable
  <1>3. DOMAIN raw \subseteq {1, 2, 3, 4, 5, 7}
    BY <1>2 DEF Judgeable
  <1>4. DOMAIN rows[a] \subseteq Rungs
    BY <1>1, <1>3 DEF Rungs
  <1>5. ASSUME NEW r \in DOMAIN rows[a], r # 6
        PROVE  /\ rows[a][r] \in Rows
               /\ rows[a][r].status = "skipped" <=>
                     DependsOn[r] \in DOMAIN rows[a] /\ rows[a][DependsOn[r]].status # "pass"
               /\ rows[a][r].status = "skipped" =>
                     \E k \in DOMAIN rows[a] :
                        /\ rows[a][r].because = <<k, rows[a][k].status>> /\ k < r
                        /\ rows[a][k].status \notin {"pass", "skipped"}
    <2> DEFINE R == RunLadder(raw)
    <2>1. r \in DOMAIN raw /\ DependsOn[r] # 6
      <3>1. r \in DOMAIN raw
        BY <1>1, <1>5
      <3>2. r \in {1, 2, 3, 4, 5, 7}
        BY <1>3, <3>1
      <3>3. QED
        BY <3>1, <3>2, Depends
    <2>2. DependsOn[r] \in DOMAIN rows[a] <=> DependsOn[r] \in DOMAIN raw
      BY <1>1, <2>1
    <2>3. /\ R[r] \in Rows
          /\ R[r].status = "skipped" <=>
                DependsOn[r] \in DOMAIN raw /\ R[DependsOn[r]].status # "pass"
          /\ R[r].status = "skipped" =>
                \E k \in DOMAIN raw :
                   /\ R[r].because = <<k, R[k].status>> /\ k < r
                   /\ R[k].status \notin {"pass", "skipped"}
      BY <1>2, <2>1, SweepLadder
    <2>4. \A k \in DOMAIN raw : k \in DOMAIN rows[a] /\ rows[a][k] = R[k]
      BY <1>1
    <2> HIDE DEF R
    <2>5. QED
      BY <2>1, <2>2, <2>3, <2>4
  <1>6. ASSUME 6 \in DOMAIN rows[a]
        PROVE  /\ rows[a][6] \in Rows
               /\ rows[a][6].status = "skipped" <=>
                     DependsOn[6] \in DOMAIN rows[a] /\ rows[a][DependsOn[6]].status # "pass"
    <2>1. /\ 4 \in DOMAIN rows[a] /\ rows[a][4].status = Rung4(a)
          /\ Rung4(a) \in {"pass", "fail", "skipped"} /\ Rung4AsRead(Rung4(a)) = Rung4(a)
      BY FourIs DEF Rung4
    <2>2. CASE Rung4(a) = "pass"
      <3>1. PICK status \in {"unprobeable", "pass", "fail", "refused", "error"} :
               rows[a][6] = Row(status)
        BY <1>6, <2>2 DEF LadderInv, SixOK
      <3>2. QED
        BY <2>1, <2>2, <3>1, Depends DEF Row, Rows, Statuses
    <2>3. CASE Rung4(a) # "pass"
      <3>1. rows[a][6] = Skipped(<<4, Rung4(a)>>)
        BY <1>6, <2>1, <2>3 DEF LadderInv, SixOK
      <3>2. <<4, Rung4(a)>> \in Rungs \X Statuses
        BY <2>1 DEF Rungs, Statuses
      <3>3. QED
        BY <2>1, <2>3, <3>1, <3>2, Depends DEF Skipped, Rows, Statuses
    <2>4. QED
      BY <2>2, <2>3
  <1>7. QED
    BY <1>4, <1>5, <1>6

\* The tracks are the dependencies of the ladder, in the other direction.
LEMMA TracksDepend ==
    /\ \A edge \in Track : edge[1] = DependsOn[edge[2]]
    /\ \A r \in Rungs : r = 1 \/ <<DependsOn[r], r>> \in Track
    /\ DependsOn[1] = 0
  <1>1. \A r \in Rungs : r \in {1, 2, 3, 4, 5, 6, 7}
    BY DEF Rungs
  <1>2. QED
    BY <1>1, Depends DEF Track

\* The ladder of ladder.rs holds across the rows of the sweep and of the passes: a
\* row is skipped exactly when what it depends on did not pass, and a skipped row
\* of the sweep names the rung that stopped it, as that rung's row still says;
\* whatever passes ran, together or one after the other, and wherever they stopped.
THEOREM LadderStands == Spec => []LadderKept
  <1>1. ASSUME Typed, LadderInv PROVE LadderKept
    <2>1. TypeOK
      <3>1. \A a \in Agents : DOMAIN rows[a] \subseteq Rungs /\ Range(rows[a]) \subseteq Rows
        BY <1>1, RowsAre DEF Range
      <3>2. QED
        BY <1>1, <3>1 DEF TypeOK, Typed
    <2>2. SkippedIffStopped
      <3> SUFFICES ASSUME NEW a \in Agents, NEW r \in DOMAIN rows[a]
                   PROVE  rows[a][r].status = "skipped" <=>
                            \E edge \in Track :
                              /\ edge[2] = r /\ edge[1] \in DOMAIN rows[a]
                              /\ rows[a][edge[1]].status # "pass"
        BY DEF SkippedIffStopped
      <3>1. /\ r \in Rungs /\ 0 \notin DOMAIN rows[a]
            /\ rows[a][r].status = "skipped" <=>
                  DependsOn[r] \in DOMAIN rows[a] /\ rows[a][DependsOn[r]].status # "pass"
        BY <1>1, RowsAre DEF Rungs
      <3>2. CASE r = 1
        BY <3>1, <3>2, TracksDepend
      <3>3. CASE <<DependsOn[r], r>> \in Track
        BY <3>1, <3>3, TracksDepend
      <3>4. QED
        BY <3>1, <3>2, <3>3, TracksDepend
    <2>3. OriginalStopper
      <3> SUFFICES ASSUME NEW a \in Agents, NEW r \in DOMAIN rows[a] \ {6},
                          rows[a][r].status = "skipped"
                   PROVE  /\ rows[a][r].because[1] \in DOMAIN rows[a]
                          /\ rows[a][r].because[1] < r
                          /\ rows[a][rows[a][r].because[1]].status = rows[a][r].because[2]
                          /\ rows[a][r].because[2] \notin {"pass", "skipped"}
        BY DEF OriginalStopper
      <3>1. PICK k \in DOMAIN rows[a] :
               /\ rows[a][r].because = <<k, rows[a][k].status>> /\ k < r
               /\ rows[a][k].status \notin {"pass", "skipped"}
        BY <1>1, RowsAre
      <3>2. rows[a][r].because[1] = k /\ rows[a][r].because[2] = rows[a][k].status
        BY <3>1
      <3>3. QED
        BY <3>1, <3>2
    <2>4. QED
      BY <2>1, <2>2, <2>3 DEF LadderKept
  <1>2. QED
    BY <1>1, Ladders, PTL

\* What was asked of a host stays within the largest budget, nothing that has an
\* answer is asked again by a pass alone, and every verdict in the table rests on an
\* observation in the table that says so.
THEOREM ProbesStand == Spec => []ProbesKept
  <1>1. ASSUME LadderInv PROVE VerdictIsBacked
    <2> SUFFICES ASSUME NEW a \in Agents, 6 \in DOMAIN rows[a]
                 PROVE  Backed(ObservedOf(a, probes), rows[a][6].status)
      BY DEF VerdictIsBacked, Backed
    <2>1. CASE Rung4(a) = "pass"
      <3>1. PICK status \in {"unprobeable", "pass", "fail", "refused", "error"} :
               rows[a][6] = Row(status) /\ Backed(ObservedOf(a, probes), status)
        BY <1>1, <2>1 DEF LadderInv, SixOK
      <3>2. rows[a][6].status = status
        BY <3>1 DEF Row
      <3>3. QED
        BY <3>1, <3>2
    <2>2. CASE Rung4(a) # "pass"
      <3>1. rows[a][6] = Skipped(<<4, Rung4AsRead(Rung4(a))>>)
        BY <1>1, <2>2 DEF LadderInv, SixOK
      <3>2. rows[a][6].status = "skipped"
        BY <3>1 DEF Skipped
      <3>3. QED
        BY <3>2 DEF Backed
    <2>3. QED
      BY <2>1, <2>2
  <1>2. QED
    BY <1>1, Ladders, BudgetAndMemory, PTL DEF ProbesKept
-----------------------------------------------------------------------------
(* What a pass leaves behind.                                              *)

\* A pass alone reads what is in the table, and what it has judged is what the
\* agents deserve.
Settled ==
    \A p \in Passes :
        pc[p] = "judging" /\ p \notin company =>
            /\ view[p] = probes
            /\ p \notin torn =>
                  \A a \in Agents \ left[p] :
                      {rows[a][r] : r \in DOMAIN rows[a] \cap {6}} = Deserved(a)

LEMMA SeenAtIs ==
    ASSUME NEW obs
    PROVE  SeenAt(obs) \in {"live", "not_live", "refused", "our_error"}
  <1>1. CASE obs.error # "none"
    BY <1>1 DEF SeenAt
  <1>2. CASE obs.error = "none"
    BY <1>2 DEF SeenAt
  <1>3. QED
    BY <1>1, <1>2

\* The strongest of what was seen is what the verdict says.
LEMMA Strongest ==
    ASSUME NEW S \in SUBSET {"live", "not_live", "refused", "our_error"}, S # {}
    PROVE  LET seen == {Strength[x] : x \in S}
           IN  (CHOOSE s \in seen : \A t \in seen : t[1] <= s[1])[2] = Verdict(S)
  <1> DEFINE seen == {Strength[x] : x \in S}
             best == CHOOSE s \in seen : \A t \in seen : t[1] <= s[1]
  <1>1. /\ Strength["live"][1] = 4 /\ Strength["live"][2] = "pass"
        /\ Strength["not_live"][1] = 3 /\ Strength["not_live"][2] = "fail"
        /\ Strength["refused"][1] = 2 /\ Strength["refused"][2] = "refused"
        /\ Strength["our_error"][1] = 1 /\ Strength["our_error"][2] = "error"
    BY DEF Strength
  <1>2. \E x \in S : \A y \in S : Strength[y][1] <= Strength[x][1]
    <2>1. CASE "live" \in S
      BY <1>1, <2>1
    <2>2. CASE "live" \notin S /\ "not_live" \in S
      BY <1>1, <2>2
    <2>3. CASE "live" \notin S /\ "not_live" \notin S /\ "refused" \in S
      <3>1. \A y \in S : y = "refused" \/ y = "our_error"
        BY <2>3
      <3>2. QED
        BY <1>1, <2>3, <3>1
    <2>4. CASE "live" \notin S /\ "not_live" \notin S /\ "refused" \notin S
      <3>1. "our_error" \in S /\ \A y \in S : y = "our_error"
        BY <2>4
      <3>2. QED
        BY <1>1, <3>1
    <2>5. QED
      BY <2>1, <2>2, <2>3, <2>4
  <1>3. \E s \in seen : \A t \in seen : t[1] <= s[1]
    BY <1>2
  <1>4. best \in seen /\ \A t \in seen : t[1] <= best[1]
    BY <1>3
  <1> HIDE DEF best
  <1>5. PICK x \in S : best = Strength[x]
    BY <1>4
  <1>6. \A y \in S : Strength[y][1] <= Strength[x][1]
    BY <1>4, <1>5
  <1>7. best[2] = Verdict(S)
    <2>1. CASE x = "live"
      BY <1>1, <1>5, <2>1 DEF Verdict
    <2>2. CASE x = "not_live"
      <3>1. "live" \notin S
        BY <1>1, <1>6, <2>2
      <3>2. QED
        BY <1>1, <1>5, <2>2, <3>1 DEF Verdict
    <2>3. CASE x = "refused"
      <3>1. "live" \notin S /\ "not_live" \notin S
        BY <1>1, <1>6, <2>3
      <3>2. QED
        BY <1>1, <1>5, <2>3, <3>1 DEF Verdict
    <2>4. CASE x = "our_error"
      <3>1. "live" \notin S /\ "not_live" \notin S /\ "refused" \notin S
        BY <1>1, <1>6, <2>4
      <3>2. QED
        BY <1>1, <1>5, <2>4, <3>1 DEF Verdict
    <2>5. QED
      BY <2>1, <2>2, <2>3, <2>4
  <1>8. QED
    BY <1>7 DEF best

\* What a pass makes of all that was ever observed is what the agent deserves.
LEMMA DeservedIs ==
    ASSUME LadderInv, NEW a \in Agents
    PROVE  Deserved(a) = Judged(a, probes)
  <1> DEFINE O == ObservedOf(a, probes)
             S == {SeenAt(obs) : obs \in O}
             seen == {Strength[SeenAt(obs)] : obs \in O}
             best == CHOOSE s \in seen : \A t \in seen : t[1] <= s[1]
  <1>1. seen = {Strength[x] : x \in S} /\ (O = {} <=> seen = {}) /\ (O = {} <=> S = {})
    OBVIOUS
  <1>2. S \in SUBSET {"live", "not_live", "refused", "our_error"}
    BY SeenAtIs
  <1>3. S # {} => best[2] = Verdict(S)
    <2> HIDE DEF S
    <2> SUFFICES ASSUME S # {}
                 PROVE  (CHOOSE s \in {Strength[x] : x \in S} :
                            \A t \in {Strength[x] : x \in S} : t[1] <= s[1])[2] = Verdict(S)
      BY <1>1, Zenon
    <2>1. QED
      BY <1>2, Strongest
  <1>4. Deserved(a) = IF Rung4(a) # "pass" THEN {Skipped(<<4, Rung4(a)>>)}
                      ELSE IF a \notin HasServices THEN {}
                      ELSE IF Declares[a] = {} THEN {Row("unprobeable")}
                      ELSE IF seen = {} THEN {} ELSE {Row(best[2])}
    BY Zenon DEF Deserved
  <1>5. Judged(a, probes) = IF Rung4(a) # "pass" THEN {Skipped(<<4, Rung4(a)>>)}
                            ELSE IF a \notin HasServices THEN {}
                            ELSE IF Declares[a] = {} THEN {Row("unprobeable")}
                            ELSE IF O = {} THEN {} ELSE {Row(Verdict(S))}
    BY JudgedIs
  <1> HIDE DEF best, seen, S, O
  <1>6. QED
    BY <1>1, <1>3, <1>4, <1>5

LEMMA SettledStep ==
    ASSUME Typed, Views, LadderInv, PassInv, Settled, [Next]_vars PROVE Settled'
  <1> SUFFICES ASSUME NEW q \in Passes, pc'[q] = "judging", q \notin company'
               PROVE  /\ view'[q] = probes'
                      /\ q \notin torn' =>
                           \A a \in Agents \ left'[q] :
                              {rows'[a][r] : r \in DOMAIN rows'[a] \cap {6}} = Deserved(a)'
    BY DEF Settled
  \* While q judges alone, no other pass runs.
  <1>1. ASSUME pc[q] = "judging", q \notin company, NEW p \in Passes, pc[p] # "off" PROVE p = q
    <2>1. Running = {q}
      BY <1>1 DEF PassInv, Alone
    <2>2. QED
      BY <1>1, <2>1 DEF Running
  <1>2. ASSUME NEW p \in Passes, Start(p) PROVE FALSE
    <2>1. p # q /\ pc[q] = "judging"
      BY <1>2 DEF Start, Typed
    <2>2. q \in Running /\ Running # {}
      BY <2>1 DEF Running
    <2>3. q \in company'
      BY <1>2, <2>2 DEF Start
    <2>4. QED
      BY <2>3
  <1>3. ASSUME NEW p \in Passes, Ask(p) \/ Answer(p) PROVE FALSE
    <2>1. pc[p] = "probing" /\ pc' = pc /\ company' = company
      BY <1>3 DEF Ask, Answer, history
    <2>2. QED
      BY <1>1, <2>1
  <1>4. ASSUME NEW p \in Passes, Load(p)
        PROVE  view'[q] = probes' /\ left'[q] = Agents
    <2>1. pc[p] = "probing" /\ pc' = [pc EXCEPT ![p] = "judging"] /\ company' = company
      BY <1>4 DEF Load, history
    <2>2. p = q
      BY <1>1, <2>1 DEF Typed
    <2>3. QED
      BY <1>4, <2>2 DEF Load, Observed, Typed
  <1>5. ASSUME NEW p \in Passes, Restamp(p) \/ Crash(p) PROVE FALSE
    <2>1. pc[p] # "off" /\ pc' = [pc EXCEPT ![p] = "off"] /\ company' = company
      BY <1>5 DEF Restamp, Crash, Gone, history
    <2>2. pc[q] = "judging" /\ p # q
      BY <2>1 DEF Typed
    <2>3. QED
      BY <1>1, <2>1, <2>2
  <1>6. CASE UNCHANGED vars
    <2>1. /\ pc' = pc /\ company' = company /\ torn' = torn /\ left' = left
          /\ view' = view /\ probes' = probes /\ rows' = rows
      BY <1>6 DEF vars, passVars, history
    <2>2. \A a \in Agents : Deserved(a)' = Deserved(a)
      BY <2>1 DEF Deserved, Rung4, ObservedOf
    <2>3. QED
      BY <2>1, <2>2 DEF Settled
  <1>7. ASSUME NEW p \in Passes, Judge(p)
        PROVE  /\ view'[q] = probes'
               /\ q \notin torn' =>
                    \A a \in Agents \ left'[q] :
                       {rows'[a][r] : r \in DOMAIN rows'[a] \cap {6}} = Deserved(a)'
    <2>1. /\ probes' = probes /\ view' = view /\ pc' = pc /\ company' = company
          /\ pc[p] = "judging"
      BY <1>7, JudgeLeaves DEF Judge
    <2>2. p = q
      BY <1>1, <2>1
    <2>3. /\ view[q] = probes
          /\ q \notin torn => \A b \in Agents \ left[q] :
                                 {rows[b][r] : r \in DOMAIN rows[b] \cap {6}} = Deserved(b)
      BY <2>1 DEF Settled
    <2>4. PICK a \in left[q] :
             /\ a \in Agents /\ left' = [left EXCEPT ![q] = left[q] \ {a}]
             /\ \/ Wrote(q, a) /\ torn' = torn
                \/ rows' = rows /\ torn' = torn \cup {q}
      BY <1>7, <2>2, JudgeWrites
    <2>5. ASSUME q \notin torn', NEW b \in Agents \ left'[q]
          PROVE  {rows'[b][r] : r \in DOMAIN rows'[b] \cap {6}} = Deserved(b)'
      <3>1. Wrote(q, a) /\ q \notin torn
        BY <2>4, <2>5
      <3>2. left'[q] = left[q] \ {a}
        BY <2>4 DEF Typed
      <3>3. rows'[b][4] = rows[b][4]
        <4>1. 4 \in DOMAIN rows[b] \ {6}
          BY FourIs
        <4>2. QED
          BY <3>1, <4>1 DEF Wrote
      <3>4. Deserved(b)' = Deserved(b)
        BY <2>1, <3>3 DEF Deserved, Rung4, ObservedOf
      <3>5. CASE b # a
        <4>1. rows'[b] = rows[b] /\ b \notin left[q]
          BY <3>1, <3>2, <3>5 DEF Wrote
        <4>2. QED
          BY <2>3, <3>1, <3>4, <4>1
      <3>6. CASE b = a
        <4> DEFINE judged == Judged(a, view[q])
        <4>1. judged = Deserved(a)
          <5>1. Deserved(a) = Judged(a, probes)
            BY <2>4, DeservedIs
          <5>2. QED
            BY <2>3, <5>1
        <4>2. judged = {} \/ \E row : judged = {row}
          BY <2>4, JudgedIs
        <4>3. /\ judged = {} => 6 \notin DOMAIN rows'[a]
              /\ \A row : judged = {row} => 6 \in DOMAIN rows'[a] /\ rows'[a][6] = row
          BY <3>1 DEF Wrote
        <4> HIDE DEF judged
        <4>4. {rows'[a][r] : r \in DOMAIN rows'[a] \cap {6}} = judged
          <5>1. CASE judged = {}
            BY <4>3, <5>1
          <5>2. CASE judged # {}
            <6>1. PICK row : judged = {row}
              BY <4>2, <5>2
            <6>2. 6 \in DOMAIN rows'[a] /\ rows'[a][6] = row
              BY <4>3, <6>1
            <6>3. QED
              BY <6>1, <6>2
          <5>3. QED
            BY <5>1, <5>2
        <4>5. QED
          BY <3>4, <3>6, <4>1, <4>4
      <3>7. QED
        BY <3>5, <3>6
    <2>6. QED
      BY <2>1, <2>3, <2>5
  <1>8. QED
    BY <1>2, <1>3, <1>4, <1>5, <1>6, <1>7 DEF Next, Work

\* A pass that had the run to itself and could write its rows ends with the row that
\* all observations justify at every agent it judged, and with none where nothing
\* was asked, however many passes before it were killed or ran together.
THEOREM PassesSettle == Spec => PassSettles
  <1>1. Init => Settled
    BY DEF Init, Settled
  <1>2. Typed /\ Views /\ LadderInv /\ PassInv /\ Settled /\ [Next]_vars => Settled'
    BY SettledStep
  <1>3. ASSUME Settled, [Next]_vars
        PROVE  [\A p \in Passes :
                   pc[p] = "judging" /\ pc'[p] = "off" /\ left[p] = {} /\ stamp' = "liveness"
                      /\ p \notin company \cup torn
                   => \A a \in Agents :
                          {rows[a][r] : r \in DOMAIN rows[a] \cap {6}} = Deserved(a)]_vars
    BY <1>3 DEF Settled
  <1>4. Spec => []PassInv
    BY PassInit, PassStep, PTL DEF Spec
  <1>5. QED
    BY <1>1, <1>2, <1>3, <1>4, Ladders, PTL DEF Spec, PassSettles
=============================================================================
