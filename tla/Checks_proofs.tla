--------------------------- MODULE Checks_proofs ----------------------------
(***************************************************************************)
(* What the checks say of an agent (AgentCheck), for every network, every  *)
(* document and every number of gateways and hops; and what the tools do   *)
(* with the rows of a run afterwards (Archive).                            *)
(***************************************************************************)
EXTENDS AgentCheck, Archive, FiniteSetTheorems, WellFoundedInduction, TLAPS

-----------------------------------------------------------------------------
(***************************************************************************)
(* The check of one agent.                                                 *)
(***************************************************************************)

(* The ladder over the document rungs.                                     *)

\* What stops the rungs on r, if `below` is what stops r itself.
StopAt(raw, r, below) ==
    IF r \notin DOMAIN raw THEN NoStop
    ELSE IF below # NoStop THEN below
    ELSE IF raw[r] # "pass" THEN <<r, raw[r]>>
    ELSE NoStop

LEMMA Depends ==
    /\ DependsOn[1] = 0 /\ DependsOn[2] = 1 /\ DependsOn[3] = 2 /\ DependsOn[4] = 3
    /\ DependsOn[5] = 4 /\ DependsOn[6] = 4 /\ DependsOn[7] = 1
  BY DEF DependsOn

\* stopper_by_rung is what its recursive definition says: there is such a function.
LEMMA StopperIs ==
    ASSUME NEW raw, DOMAIN raw \subseteq Rungs
    PROVE  Stopper(raw) = [r \in 0 .. 7 |-> StopAt(raw, r, Stopper(raw)[DependsOn[r]])]
  <1> DEFINE F(f) == [r \in 0 .. 7 |-> StopAt(raw, r, f[DependsOn[r]])]
             s1 == StopAt(raw, 1, NoStop)
             s2 == StopAt(raw, 2, s1)
             s3 == StopAt(raw, 3, s2)
             s4 == StopAt(raw, 4, s3)
             s5 == StopAt(raw, 5, s4)
             s6 == StopAt(raw, 6, s4)
             s7 == StopAt(raw, 7, s1)
             g == [r \in 0 .. 7 |-> IF r = 0 THEN NoStop ELSE
                      <<s1, s2, s3, s4, s5, s6, s7>>[r]]
  <1>1. g = F(g)
    <2>1. /\ g[0] = NoStop /\ g[1] = s1 /\ g[2] = s2 /\ g[3] = s3 /\ g[4] = s4
          /\ g[5] = s5 /\ g[6] = s6 /\ g[7] = s7
      OBVIOUS
    <2>2. \A x : StopAt(raw, 0, x) = NoStop
      BY DEF StopAt, Rungs
    <2> HIDE DEF s1, s2, s3, s4, s5, s6, s7
    <2>3. ASSUME NEW r \in 0 .. 7 PROVE g[r] = StopAt(raw, r, g[DependsOn[r]])
      <3> HIDE DEF g
      <3>1. r \in {0, 1, 2, 3, 4, 5, 6, 7}
        OBVIOUS
      <3>2. QED
        BY Depends, <2>1, <2>2, <3>1 DEF s1, s2, s3, s4, s5, s6, s7
    <2>4. QED
      BY <2>3
  <1>2. Stopper(raw) = CHOOSE f : f = F(f)
    BY Zenon DEF Stopper, StopAt
  <1> HIDE DEF F, g
  <1>3. \E f : f = F(f)
    BY <1>1
  <1>4. Stopper(raw) = F(Stopper(raw))
    BY <1>2, <1>3, Zenon
  <1>5. QED
    BY <1>4 DEF F

\* The rungs below r that did not pass are what skips r.
LEMMA DocumentRungs ==
    ASSUME NEW raw, DOMAIN raw \subseteq Rungs, 1 .. 5 \subseteq DOMAIN raw
    PROVE  /\ DOMAIN RunLadder(raw) = DOMAIN raw
           /\ \A r \in 1 .. 5 :
                 IF \A k \in 1 .. (r - 1) : raw[k] = "pass"
                 THEN RunLadder(raw)[r] = Row(raw[r])
                 ELSE RunLadder(raw)[r].status = "skipped"
           /\ raw[1] # "pass" => \A r \in 2 .. 5 : RunLadder(raw)[r] = Skipped(<<1, raw[1]>>)
  <1> DEFINE S == Stopper(raw)
             R == RunLadder(raw)
  <1>1. S = [r \in 0 .. 7 |-> StopAt(raw, r, S[DependsOn[r]])]
    BY StopperIs
  <1>2. /\ DOMAIN R = DOMAIN raw
        /\ \A r \in DOMAIN raw :
              R[r] = IF S[DependsOn[r]] # NoStop THEN Skipped(S[DependsOn[r]]) ELSE Row(raw[r])
    BY DEF RunLadder
  <1> HIDE DEF S, R
  <1>3. S[0] = NoStop
    BY <1>1 DEF StopAt, Rungs
  <1>4. \A r : <<r, raw[r]>> # NoStop \/ r = 0
    BY DEF NoStop
  <1>5. ASSUME NEW r \in 1 .. 5
        PROVE  /\ DependsOn[r] = r - 1 /\ r \in DOMAIN raw
               /\ S[r] = IF S[r - 1] # NoStop THEN S[r - 1]
                         ELSE IF raw[r] # "pass" THEN <<r, raw[r]>> ELSE NoStop
    <2>1. r \in DOMAIN raw /\ r \in 0 .. 7 /\ r \in {1, 2, 3, 4, 5}
      OBVIOUS
    <2>2. DependsOn[r] = r - 1
      BY <2>1, Depends
    <2>3. S[r] = StopAt(raw, r, S[r - 1])
      BY <1>1, <2>1, <2>2
    <2>4. QED
      BY <2>1, <2>2, <2>3 DEF StopAt
  <1>6. /\ S[1] = NoStop <=> raw[1] = "pass"
        /\ S[2] = NoStop <=> raw[1] = "pass" /\ raw[2] = "pass"
        /\ S[3] = NoStop <=> raw[1] = "pass" /\ raw[2] = "pass" /\ raw[3] = "pass"
        /\ S[4] = NoStop <=> raw[1] = "pass" /\ raw[2] = "pass" /\ raw[3] = "pass"
                                 /\ raw[4] = "pass"
    <2>1. S[1] = NoStop <=> raw[1] = "pass"
      BY <1>3, <1>4, <1>5
    <2>2. S[2] = NoStop <=> S[1] = NoStop /\ raw[2] = "pass"
      BY <1>4, <1>5
    <2>3. S[3] = NoStop <=> S[2] = NoStop /\ raw[3] = "pass"
      BY <1>4, <1>5
    <2>4. S[4] = NoStop <=> S[3] = NoStop /\ raw[4] = "pass"
      BY <1>4, <1>5
    <2>5. QED
      BY <2>1, <2>2, <2>3, <2>4
  <1>7. ASSUME NEW r \in 1 .. 5
        PROVE  S[r - 1] = NoStop <=> \A k \in 1 .. (r - 1) : raw[k] = "pass"
    <2>1. CASE r = 1
      BY <1>3, <2>1
    <2>2. CASE r = 2
      <3>1. 1 .. (r - 1) = {1} /\ r - 1 = 1
        BY <2>2
      <3>2. QED
        BY <1>6, <3>1
    <2>3. CASE r = 3
      <3>1. 1 .. (r - 1) = {1, 2} /\ r - 1 = 2
        BY <2>3
      <3>2. QED
        BY <1>6, <3>1
    <2>4. CASE r = 4
      <3>1. 1 .. (r - 1) = {1, 2, 3} /\ r - 1 = 3
        BY <2>4
      <3>2. QED
        BY <1>6, <3>1
    <2>5. CASE r = 5
      <3>1. 1 .. (r - 1) = {1, 2, 3, 4} /\ r - 1 = 4
        BY <2>5
      <3>2. QED
        BY <1>6, <3>1
    <2>6. QED
      BY <2>1, <2>2, <2>3, <2>4, <2>5
  <1>8. ASSUME NEW r \in 1 .. 5
        PROVE  IF \A k \in 1 .. (r - 1) : raw[k] = "pass"
               THEN R[r] = Row(raw[r]) ELSE R[r].status = "skipped"
    <2>1. R[r] = IF S[r - 1] # NoStop THEN Skipped(S[r - 1]) ELSE Row(raw[r])
      BY <1>2, <1>5
    <2>2. QED
      BY <1>7, <2>1 DEF Skipped
  <1>9. ASSUME raw[1] # "pass", NEW r \in 2 .. 5 PROVE R[r] = Skipped(<<1, raw[1]>>)
    <2>1. S[1] = <<1, raw[1]>> /\ S[1] # NoStop
      BY <1>3, <1>4, <1>5, <1>9
    <2>2. S[2] = S[1] /\ S[3] = S[1] /\ S[4] = S[1]
      <3>1. S[2] = S[1]
        BY <1>5, <2>1
      <3>2. S[3] = S[1]
        BY <1>5, <2>1, <3>1
      <3>3. S[4] = S[1]
        BY <1>5, <2>1, <3>2
      <3>4. QED
        BY <3>1, <3>2, <3>3
    <2>3. r - 1 \in {1, 2, 3, 4} /\ r \in 1 .. 5
      OBVIOUS
    <2>4. S[r - 1] = S[1]
      BY <2>2, <2>3
    <2>5. R[r] = IF S[r - 1] # NoStop THEN Skipped(S[r - 1]) ELSE Row(raw[r])
      BY <1>2, <1>5, <2>3
    <2>6. QED
      BY <2>1, <2>4, <2>5
  <1>10. QED
    BY <1>2, <1>8, <1>9 DEF R

\* The rows of a ladder over the rungs 1 to 5, in terms of the raw results.
Assembled(R, holder, o, actual, seven) ==
    /\ seven = NotAsked => DOMAIN R = 1 .. 5
    /\ R[1] = Row(Registered(holder))
    /\ Registered(holder) # "pass" => \A r \in 2 .. 5 : R[r] = Skipped(<<1, Registered(holder)>>)
    /\ Registered(holder) = "pass" => R[2] = Row(Resolvable(o))
    /\ R[3].status # "skipped" =>
           /\ Registered(holder) = "pass" /\ Resolvable(o) = "pass"
           /\ R[3].status = Parseable(o)
    /\ R[4].status # "skipped" =>
           /\ Registered(holder) = "pass" /\ Resolvable(o) = "pass"
           /\ Parseable(o) = "pass" /\ R[3] = Row("pass")
           /\ R[4].status = Conformant(Document(o))
    /\ R[5].status # "skipped" =>
           /\ Registered(holder) = "pass" /\ Resolvable(o) = "pass"
           /\ Parseable(o) = "pass" /\ R[3] = Row("pass")
           /\ R[5].status = Bound(Document(o), actual)

\* What assemble_ladder makes of the raw results.
LEMMA AssembledRows ==
    \A holder, o, actual, seven :
        Assembled(Assemble(holder, o, actual, seven), holder, o, actual, seven)
  <1> SUFFICES ASSUME NEW holder, NEW o, NEW actual, NEW seven
               PROVE  Assembled(Assemble(holder, o, actual, seven), holder, o, actual, seven)
    OBVIOUS
  <1> DEFINE one == Registered(holder)
             two == Resolvable(o)
             three == Parseable(o)
             four == Conformant(Document(o))
             five == Bound(Document(o), actual)
             asked == IF seven = NotAsked THEN 1 .. 5 ELSE (1 .. 5) \cup {7}
             raw == [r \in asked |-> IF r = 7 THEN seven ELSE <<one, two, three, four, five>>[r]]
             R == Assemble(holder, o, actual, seven)
  <1>1. R = RunLadder(raw)
    BY DEF Assemble
  <1>2. DOMAIN raw \subseteq Rungs /\ 1 .. 5 \subseteq DOMAIN raw /\ DOMAIN raw = asked
    BY DEF Rungs
  <1>3. raw[1] = one /\ raw[2] = two /\ raw[3] = three /\ raw[4] = four /\ raw[5] = five
    <2> HIDE DEF one, two, three, four, five
    <2> QED
      OBVIOUS
  <1>4. seven = NotAsked => DOMAIN raw = 1 .. 5
    OBVIOUS
  <1> HIDE DEF raw, R, one, two, three, four, five
  <1>5. /\ DOMAIN R = DOMAIN raw
        /\ \A r \in 1 .. 5 : IF \A k \in 1 .. (r - 1) : raw[k] = "pass"
                             THEN R[r] = Row(raw[r]) ELSE R[r].status = "skipped"
        /\ raw[1] # "pass" => \A r \in 2 .. 5 : R[r] = Skipped(<<1, raw[1]>>)
    BY <1>1, <1>2, DocumentRungs
  <1>6. R[1] = Row(one)
    <2>1. 1 \in 1 .. 5 /\ \A k \in 1 .. (1 - 1) : raw[k] = "pass"
      OBVIOUS
    <2>2. QED
      BY <1>3, <1>5, <2>1
  <1>7. one = "pass" => R[2] = Row(two)
    <2>1. 2 \in 1 .. 5 /\ 1 .. (2 - 1) = {1}
      OBVIOUS
    <2>2. QED
      BY <1>3, <1>5, <2>1
  <1>8. R[3].status # "skipped" => one = "pass" /\ two = "pass" /\ R[3] = Row(three)
    <2>1. 3 \in 1 .. 5 /\ 1 .. (3 - 1) = {1, 2}
      OBVIOUS
    <2>2. QED
      BY <1>3, <1>5, <2>1
  <1>9. one = "pass" /\ two = "pass" => R[3] = Row(three)
    <2>1. 3 \in 1 .. 5 /\ 1 .. (3 - 1) = {1, 2}
      OBVIOUS
    <2>2. QED
      BY <1>3, <1>5, <2>1
  <1>10. R[4].status # "skipped" =>
            one = "pass" /\ two = "pass" /\ three = "pass" /\ R[4] = Row(four)
    <2>1. 4 \in 1 .. 5 /\ 1 .. (4 - 1) = {1, 2, 3}
      OBVIOUS
    <2>2. QED
      BY <1>3, <1>5, <2>1
  <1>11. R[5].status # "skipped" =>
            one = "pass" /\ two = "pass" /\ three = "pass" /\ R[5] = Row(five)
    <2>1. 5 \in 1 .. 5 /\ 1 .. (5 - 1) = {1, 2, 3, 4}
      OBVIOUS
    <2>2. QED
      BY <1>3, <1>5, <2>1
  <1>12. \A s : Row(s).status = s
    BY DEF Row
  <1>13. QED
    BY <1>2, <1>3, <1>4, <1>5, <1>6, <1>7, <1>8, <1>9, <1>10, <1>11, <1>12
       DEF Assembled, R, one, two, three, four, five

-----------------------------------------------------------------------------
(* The entry that speaks for the document.                                 *)

LEMMA LeastNat ==
    ASSUME NEW T \in SUBSET Nat, T # {} PROVE \E x \in T : \A y \in T : x <= y
  <1>1. PICK x \in T : \A y \in T : ~ (<<y, x>> \in OpToRel(<, Nat))
    BY NatLessThanWellFounded, WFMin
  <1>2. \A y \in T : ~(y < x)
    BY <1>1 DEF OpToRel
  <1>3. QED
    BY <1>2

Parts == {"agent", "namespace", "chain", "address"}

LEMMA FourParts == IsFiniteSet(Parts) /\ Cardinality(Parts) = 4
  <1>1. IsFiniteSet({}) /\ Cardinality({}) = 0
    BY FS_EmptySet
  <1>2. IsFiniteSet({"agent"}) /\ Cardinality({"agent"}) = 1
    BY FS_Singleton
  <1>3. IsFiniteSet({"agent", "namespace"}) /\ Cardinality({"agent", "namespace"}) = 2
    <2>1. {"agent", "namespace"} = {"agent"} \cup {"namespace"} /\ "namespace" \notin {"agent"}
      OBVIOUS
    <2>2. QED
      BY <1>2, <2>1, FS_AddElement
  <1>4. /\ IsFiniteSet({"agent", "namespace", "chain"})
        /\ Cardinality({"agent", "namespace", "chain"}) = 3
    <2>1. /\ {"agent", "namespace", "chain"} = {"agent", "namespace"} \cup {"chain"}
          /\ "chain" \notin {"agent", "namespace"}
      OBVIOUS
    <2>2. QED
      BY <1>3, <2>1, FS_AddElement
  <1>5. /\ Parts = {"agent", "namespace", "chain"} \cup {"address"}
        /\ "address" \notin {"agent", "namespace", "chain"}
    BY DEF Parts
  <1>6. QED
    BY <1>4, <1>5, FS_AddElement

\* An entry agrees with the chain in none to four parts, and in four only when
\* it names the agent in full.
LEMMA Scores ==
    ASSUME NEW e, NEW actual
    PROVE  /\ Cardinality(Agreements(e, actual)) \in 0 .. 4
           /\ Cardinality(Agreements(e, actual)) = 4 =>
                  /\ e.agentId = actual.agent
                  /\ e.chain = actual.chain /\ e.address = actual.registry
  <1> DEFINE A == Agreements(e, actual)
  <1>1. A \subseteq Parts
    BY DEF Agreements, Parts
  <1>2. IsFiniteSet(A) /\ Cardinality(A) <= 4 /\ (Cardinality(A) = 4 => A = Parts)
    BY <1>1, FourParts, FS_Subset
  <1>3. Cardinality(A) \in Nat
    BY <1>2, FS_CardinalityType
  <1>4. A = Parts => /\ e.agentId = actual.agent
                     /\ e.chain = actual.chain /\ e.address = actual.registry
    <2> SUFFICES ASSUME A = Parts
                 PROVE  /\ e.agentId = actual.agent
                        /\ e.chain = actual.chain /\ e.address = actual.registry
      OBVIOUS
    <2>1. "agent" \in A /\ "chain" \in A /\ "address" \in A
      BY DEF Parts
    <2>2. QED
      BY <2>1 DEF Agreements
  <1>5. QED
    BY <1>2, <1>3, <1>4

\* evaluate's winner: no entry agrees in more parts.
LEMMA BestIs ==
    ASSUME NEW doc, NEW n \in Nat \ {0}, DOMAIN doc = 1 .. n, NEW actual
    PROVE  /\ Best(doc, actual) \in DOMAIN doc
           /\ \A j \in DOMAIN doc :
                 Cardinality(Agreements(doc[j], actual))
                    <= Cardinality(Agreements(doc[Best(doc, actual)], actual))
  <1> DEFINE score(i) == Cardinality(Agreements(doc[i], actual))
             Wins(i) == \A j \in DOMAIN doc :
                            score(i) > score(j) \/ (score(i) = score(j) /\ i <= j)
             short == {4 - score(i) : i \in DOMAIN doc}
  <1>1. \A i : score(i) \in 0 .. 4
    BY Scores
  <1>2. Best(doc, actual) = CHOOSE i \in DOMAIN doc : Wins(i)
    BY DEF Best
  <1> HIDE DEF score
  <1>3. PICK m \in short : \A x \in short : m <= x
    <2>1. short \subseteq Nat
      BY <1>1
    <2>2. 1 \in DOMAIN doc
      OBVIOUS
    <2>3. short # {}
      BY <2>2
    <2> HIDE DEF short
    <2>4. QED
      BY <2>1, <2>3, LeastNat
  <1> DEFINE ties == {i \in DOMAIN doc : 4 - score(i) = m}
  <1>4. PICK i \in ties : \A j \in ties : i <= j
    <2>1. ties \subseteq Nat /\ ties # {}
      BY <1>3
    <2> HIDE DEF ties
    <2>2. QED
      BY <2>1, LeastNat
  <1>5. Wins(i)
    <2> SUFFICES ASSUME NEW j \in DOMAIN doc
                 PROVE  score(i) > score(j) \/ (score(i) = score(j) /\ i <= j)
      OBVIOUS
    <2>1. score(i) \in Nat /\ score(j) \in Nat /\ 4 - score(i) = m /\ m <= 4 - score(j)
      BY <1>1, <1>3
    <2>2. CASE 4 - score(j) = m
      BY <1>4, <2>1, <2>2
    <2>3. CASE 4 - score(j) # m
      BY <2>1, <2>3
    <2>4. QED
      BY <2>2, <2>3
  <1>6. i \in DOMAIN doc
    OBVIOUS
  <1> HIDE DEF Wins
  <1>7. Best(doc, actual) \in DOMAIN doc /\ Wins(Best(doc, actual))
    BY <1>2, <1>5, <1>6
  <1>8. \A j \in DOMAIN doc : score(j) <= score(Best(doc, actual))
    <2> SUFFICES ASSUME NEW j \in DOMAIN doc
                 PROVE  score(j) <= score(Best(doc, actual))
      OBVIOUS
    <2>1. score(j) \in Nat /\ score(Best(doc, actual)) \in Nat
      BY <1>1
    <2>2. QED
      BY <1>7, <2>1 DEF Wins
  <1>9. QED
    BY <1>7, <1>8 DEF score

\* Rung 5 in terms of the entries alone.
LEMMA BoundIs ==
    ASSUME NEW doc \in Documents
    PROVE  /\ Bound(doc, Actual) \in {"pass", "fail", "unclaimed"}
           /\ Bound(doc, Actual) = "pass" =>
                 \E i \in DOMAIN doc :
                    /\ doc[i].agentId = Actual.agent /\ doc[i].chain = Actual.chain
                    /\ doc[i].address = Actual.registry
           /\ Bound(doc, Actual) = "fail" =>
                 \A i \in DOMAIN doc : Cardinality(Agreements(doc[i], Actual)) < 4
  <1> DEFINE score(i) == Cardinality(Agreements(doc[i], Actual))
             b == Best(doc, Actual)
  <1>1. \A i : score(i) \in 0 .. 4
    BY Scores
  <1>2. CASE doc = <<>>
    BY <1>2 DEF Bound
  <1>3. CASE doc # <<>>
    <2>1. Len(doc) \in Nat \ {0} /\ DOMAIN doc = 1 .. Len(doc)
      BY <1>3, CheckAssumption
    <2>2. b \in DOMAIN doc /\ \A j \in DOMAIN doc : score(j) <= score(b)
      BY <2>1, BestIs
    <2>3. score(b) = 4 => /\ doc[b].agentId = Actual.agent
                          /\ doc[b].chain = Actual.chain
                          /\ doc[b].address = Actual.registry
      BY Scores
    <2>4. Bound(doc, Actual) = IF score(b) = 4 THEN "pass" ELSE "fail"
      BY <1>3 DEF Bound
    <2> HIDE DEF score, b
    <2>5. score(b) # 4 => \A j \in DOMAIN doc : score(j) < 4
      <3> SUFFICES ASSUME score(b) # 4, NEW j \in DOMAIN doc PROVE score(j) < 4
        OBVIOUS
      <3>1. score(b) \in 0 .. 4 /\ score(j) \in 0 .. 4 /\ score(j) <= score(b)
        BY <1>1, <2>2
      <3>2. QED
        BY <3>1
    <2>6. QED
      BY <2>2, <2>3, <2>4, <2>5 DEF score
  <1>4. QED
    BY <1>2, <1>3

-----------------------------------------------------------------------------
(* Whose doing an outcome is.                                              *)

\* What rung 2 has to say of a fetch that ended for this cause.
Said(why, verdict) ==
    \/ why = "success" /\ verdict = "pass"
    \/ /\ why \in {"no_uri", "unsupported", "not_public", "no_address", "answered"}
       /\ verdict = "fail"
    \/ why \in {"no_permission", "declined"} /\ verdict = "refused"
    \/ why \in {"our_codec", "our_network", "our_redirects", "all_gateways"} /\ verdict = "error"

Blamed(why, o) ==
    /\ Said(why, Resolvable(o))
    /\ o.body = NoBody \/ o.body \in Body

\* The outcome of a request that nothing has been heard of yet.
Asked(scheme) == [Outcome(scheme) EXCEPT !.asked = TRUE]

LEMMA AskedFields ==
    ASSUME NEW scheme
    PROVE  /\ Asked(scheme).scheme = scheme /\ Asked(scheme).asked = TRUE
           /\ Asked(scheme).status = 0 /\ Asked(scheme).error = "none"
           /\ Asked(scheme).body = NoBody
           /\ DOMAIN Asked(scheme) = {"scheme", "asked", "status", "error", "body"}
  BY DEF Asked, Outcome

\* A request that failed is judged by its error.
LEMMA FailureJudged ==
    ASSUME NEW o, o.asked = TRUE, o.scheme \in {"http", "ipfs"}, o.error # "none"
    PROVE  Resolvable(o) =
              IF o.error \in {"no_uri", "unsupported_scheme", "ssrf_blocked", "http_status"}
              THEN "fail"
              ELSE IF o.error \in {"robots_disallowed", "robots_unavailable",
                                   "payment_required", "declined"}
              THEN "refused" ELSE "error"
  <1>1. SchemeBucket(o) = o.scheme
    BY DEF SchemeBucket
  <1>2. Reason(o) = o.error
    BY <1>1 DEF Reason
  <1>3. QED
    BY <1>2 DEF Resolvable, CouldNotAsk

\* An answer is judged by its status.
LEMMA AnswerJudged ==
    ASSUME NEW o, o.asked = TRUE, o.scheme \in {"http", "ipfs"}, o.error = "none",
           o.status \in 100 .. 599
    PROVE  Resolvable(o) = IF Success(o.status) THEN "pass"
                           ELSE IF DeclinedUs(o.status) THEN "refused" ELSE "fail"
  <1>1. SchemeBucket(o) = o.scheme
    BY DEF SchemeBucket
  <1>2. o.scheme \notin {"empty", "unsupported", "data"}
    OBVIOUS
  <1>3. Reason(o) = CASE o.status = 0 -> "no_response"
                      [] Success(o.status) -> "none"
                      [] o.status = 402 -> "payment_required"
                      [] DeclinedUs(o.status) /\ o.status # 402 -> "declined"
                      [] OTHER -> "http_status"
    BY <1>1, <1>2 DEF Reason
  <1>4. CASE Success(o.status)
    <2>1. Reason(o) = "none"
      BY <1>3, <1>4 DEF Success, DeclinedUs
    <2>2. QED
      BY <1>4, <2>1 DEF Resolvable, CouldNotAsk
  <1>5. CASE o.status = 402
    <2>1. Reason(o) = "payment_required" /\ ~Success(o.status) /\ DeclinedUs(o.status)
      BY <1>3, <1>5 DEF Success, DeclinedUs
    <2>2. QED
      BY <2>1 DEF Resolvable, CouldNotAsk
  <1>6. CASE DeclinedUs(o.status) /\ o.status # 402
    <2>1. Reason(o) = "declined" /\ ~Success(o.status)
      BY <1>3, <1>6 DEF Success, DeclinedUs
    <2>2. QED
      BY <1>6, <2>1 DEF Resolvable, CouldNotAsk
  <1>7. CASE ~Success(o.status) /\ ~DeclinedUs(o.status)
    <2>1. Reason(o) = "http_status"
      BY <1>3, <1>7 DEF Success, DeclinedUs
    <2>2. QED
      BY <1>7, <2>1 DEF Resolvable, CouldNotAsk
  <1>8. QED
    BY <1>4, <1>5, <1>6, <1>7

\* A URI that no request goes out for.
LEMMA InlineJudged ==
    /\ Blamed("no_uri", Outcome(""))
    /\ Blamed("unsupported", Outcome("ipfs"))
    /\ Blamed("unsupported", Outcome("unknown"))
    /\ Blamed("unsupported", Outcome("data"))
    /\ Blamed("our_codec", [Outcome("data") EXCEPT !.error = "unsupported_compression"])
    /\ \A b \in Body : Blamed("success", [Outcome("data") EXCEPT !.body = b])
  <1>1. ASSUME NEW s
        PROVE  LET o == Outcome(s)
               IN  /\ o.scheme = s /\ o.asked = FALSE /\ o.status = 0 /\ o.error = "none"
                   /\ o.body = NoBody /\ o.body.kept = FALSE
    BY DEF Outcome, NoBody
  <1>2. Blamed("no_uri", Outcome(""))
    <2>1. SchemeBucket(Outcome("")) = "empty"
      BY <1>1 DEF SchemeBucket
    <2>2. Reason(Outcome("")) = "no_uri"
      BY <2>1 DEF Reason
    <2>3. QED
      BY <1>1, <2>2 DEF Blamed, Said, Resolvable, CouldNotAsk
  <1>3. ASSUME NEW s \in {"ipfs", "unknown", "data"} PROVE Blamed("unsupported", Outcome(s))
    <2>1. SchemeBucket(Outcome(s)) = "unsupported"
      BY <1>1 DEF SchemeBucket
    <2>2. Reason(Outcome(s)) = "unsupported_scheme"
      BY <2>1 DEF Reason
    <2>3. QED
      BY <1>1, <2>2 DEF Blamed, Said, Resolvable, CouldNotAsk
  <1>4. Blamed("our_codec", [Outcome("data") EXCEPT !.error = "unsupported_compression"])
    <2> DEFINE o == [Outcome("data") EXCEPT !.error = "unsupported_compression"]
    <2>1. /\ o.scheme = "data" /\ o.asked = FALSE /\ o.body = NoBody
          /\ o.error = "unsupported_compression"
      BY DEF Outcome
    <2> HIDE DEF o
    <2>2. SchemeBucket(o) = "data"
      BY <2>1 DEF SchemeBucket
    <2>3. Reason(o) = "unsupported_compression"
      BY <2>1, <2>2 DEF Reason
    <2>4. Blamed("our_codec", o)
      BY <2>1, <2>3 DEF Blamed, Said, Resolvable, CouldNotAsk
    <2>5. QED
      BY <2>4 DEF o
  <1>5. ASSUME NEW b \in Body PROVE Blamed("success", [Outcome("data") EXCEPT !.body = b])
    <2> DEFINE o == [Outcome("data") EXCEPT !.body = b]
    <2>1. o.scheme = "data" /\ o.asked = FALSE /\ o.body = b /\ o.error = "none"
      BY DEF Outcome
    <2>2. b.kept = TRUE
      BY DEF Body
    <2> HIDE DEF o
    <2>3. SchemeBucket(o) = "data"
      BY <2>1, <2>2 DEF SchemeBucket
    <2>4. Reason(o) = "none"
      BY <2>1, <2>3 DEF Reason
    <2>5. Blamed("success", o)
      BY <2>1, <2>4 DEF Blamed, Said, Resolvable, CouldNotAsk
    <2>6. QED
      BY <2>5 DEF o
  <1>6. QED
    BY <1>2, <1>3, <1>4, <1>5

\* A request that failed for one of the reasons of the code.
LEMMA FailureBlamed ==
    ASSUME NEW scheme \in {"http", "ipfs"}, NEW error, NEW why,
           \/ error = "ssrf_blocked" /\ why \in {"not_public", "no_address"}
           \/ error \in {"robots_disallowed", "robots_unavailable"} /\ why = "no_permission"
           \/ error \in {"timeout", "connection_failed"} /\ why = "our_network"
           \/ error = "bad_redirect_location" /\ why = "our_redirects"
           \/ error = "ipfs_all_gateways_failed" /\ why = "all_gateways"
    PROVE  Blamed(why, [Asked(scheme) EXCEPT !.error = error])
  <1> DEFINE o == [Asked(scheme) EXCEPT !.error = error]
  <1>1. o.asked = TRUE /\ o.scheme = scheme /\ o.error = error /\ o.body = NoBody
    BY AskedFields
  <1> HIDE DEF o
  <1>2. error # "none"
    OBVIOUS
  <1>3. Resolvable(o) =
              IF o.error \in {"no_uri", "unsupported_scheme", "ssrf_blocked", "http_status"}
              THEN "fail"
              ELSE IF o.error \in {"robots_disallowed", "robots_unavailable",
                                   "payment_required", "declined"}
              THEN "refused" ELSE "error"
    BY <1>1, <1>2, FailureJudged
  <1>4. Said(why, Resolvable(o))
    BY <1>1, <1>3 DEF Said
  <1>5. QED
    BY <1>1, <1>4 DEF Blamed, o

\* A terminal response, a redirect or not.
LEMMA TerminalBlamed ==
    ASSUME NEW scheme \in {"http", "ipfs"}, NEW code \in Codes, NEW b \in Body
    PROVE  LET o == [Asked(scheme) EXCEPT !.status = code, !.body = b]
           IN  /\ Redirects(code) =>
                      Blamed("our_redirects", [o EXCEPT !.error = "too_many_redirects"])
               /\ Blamed(Meaning(code), o)
  <1> DEFINE o == [Asked(scheme) EXCEPT !.status = code, !.body = b]
             x == [o EXCEPT !.error = "too_many_redirects"]
  <1>1. /\ o.asked = TRUE /\ o.scheme = scheme /\ o.error = "none"
        /\ o.status = code /\ o.body = b
    BY AskedFields
  <1>2. /\ x.asked = TRUE /\ x.scheme = scheme /\ x.error = "too_many_redirects" /\ x.body = b
    BY AskedFields
  <1> HIDE DEF o, x
  <1>3. Blamed("our_redirects", x)
    <2>1. Resolvable(x) = "error"
      BY <1>2, FailureJudged
    <2>2. QED
      BY <1>2, <2>1 DEF Blamed, Said
  <1>4. Blamed(Meaning(code), o)
    <2>1. code \in 100 .. 599
      BY CheckAssumption
    <2>2. Resolvable(o) = IF Success(code) THEN "pass"
                          ELSE IF DeclinedUs(code) THEN "refused" ELSE "fail"
      BY <1>1, <2>1, AnswerJudged
    <2>3. ~(Success(code) /\ DeclinedUs(code))
      BY <2>1 DEF Success, DeclinedUs
    <2>4. Meaning(code) = IF Success(code) THEN "success"
                          ELSE IF DeclinedUs(code) THEN "declined" ELSE "answered"
      BY <2>3 DEF Meaning
    <2>5. Said(Meaning(code), Resolvable(o))
      BY <2>2, <2>3, <2>4 DEF Said
    <2>6. QED
      BY <1>1, <2>5 DEF Blamed
  <1>5. QED
    BY <1>3, <1>4 DEF o, x

-----------------------------------------------------------------------------
(* The check, step by step.                                                *)

Reached == {"feedback", "judge", "judged"}

\* The fetch has ended for a cause that its outcome tells, unless there was
\* nothing to fetch.
BlameInv ==
    /\ pc \in {"snapshot", "resolve", "validate", "robots", "send", "left_out"} \cup Reached
    /\ pc \in {"snapshot", "resolve", "validate", "robots", "send"} => cause = "none"
    /\ pc \in {"validate", "robots", "send"} =>
           uri.form \in {"http", "ipfs"} /\ out = Asked(uri.form)
    /\ pc \in Reached =>
           \/ cause = "none" /\ caller = "spot" /\ ~Held
           \/ Blamed(cause, out)

\* fetch_ipfs_chain: the next gateway, or the end of the fetch.
LEMMA AnsweredStep ==
    ASSUME BlameInv, NEW o, NEW why, Blamed(why, o), Answered(o, why), UNCHANGED chain,
           uri.form \in {"http", "ipfs"}, pc \in {"validate", "robots", "send"}
    PROVE  BlameInv'
  <1>1. CASE uri.form # "ipfs" \/ Success(o.status)
    <2>1. pc' = "feedback" /\ cause' = why /\ out' = o
      BY <1>1 DEF Answered, Ends, Goto
    <2>2. Blamed(cause', out')
      BY <2>1
    <2>3. QED
      BY <2>1, <2>2 DEF BlameInv, Reached, Blamed, Body
  <1>2. CASE ~(uri.form # "ipfs" \/ Success(o.status)) /\ gateway < Gateways
    <2>1. pc' = "validate" /\ cause' = cause /\ out' = Asked("ipfs") /\ uri' = uri
      BY <1>2 DEF Answered, Request, Goto, chain, Asked
    <2>2. cause = "none"
      BY DEF BlameInv
    <2>3. QED
      BY <1>2, <2>1, <2>2 DEF BlameInv, Reached, Asked, Outcome
  <1>3. CASE ~(uri.form # "ipfs" \/ Success(o.status)) /\ ~(gateway < Gateways)
    <2>1. /\ pc' = "feedback" /\ cause' = "all_gateways"
          /\ out' = [Asked("ipfs") EXCEPT !.error = "ipfs_all_gateways_failed"]
      BY <1>3 DEF Answered, Ends, Goto, Asked, Outcome
    <2>2. Blamed(cause', out')
      BY <2>1, FailureBlamed
    <2>3. QED
      BY <2>1, <2>2 DEF BlameInv, Reached, Blamed, Body
  <1>4. QED
    BY <1>1, <1>2, <1>3

LEMMA BlameInit == CheckInit => BlameInv
  BY DEF CheckInit, BlameInv, Reached

LEMMA BlameStep == BlameInv /\ [CheckNext]_checkVars => BlameInv'
  <1> SUFFICES ASSUME BlameInv, [CheckNext]_checkVars PROVE BlameInv'
    OBVIOUS
  <1>1. CASE Snapshot
    BY <1>1 DEF Snapshot, Goto, chain, BlameInv, Reached, Held, Blamed, Body
  <1>2. CASE SnapshotFails
    BY <1>2 DEF SnapshotFails, Goto, chain, BlameInv, Reached
  <1>3. CASE ResolveInline
    <2>1. pc' = "feedback" /\ Blamed(cause', out')
      <3> DEFINE kind == IF uri.form = "data" THEN Decode(uri) ELSE uri.form
      <3>1. CASE kind = "blank"
        BY <1>3, <3>1, InlineJudged DEF ResolveInline, Ends, Goto
      <3>2. CASE kind = "ipfs_empty"
        BY <1>3, <3>2, InlineJudged DEF ResolveInline, Ends, Goto
      <3>3. CASE kind = "other"
        BY <1>3, <3>3, InlineJudged DEF ResolveInline, Ends, Goto
      <3>4. CASE kind = "malformed"
        BY <1>3, <3>4, InlineJudged DEF ResolveInline, Ends, Goto
      <3>5. CASE kind = "unsupported_compression"
        BY <1>3, <3>5, InlineJudged DEF ResolveInline, Ends, Goto
      <3>6. CASE kind \notin {"blank", "ipfs_empty", "other", "malformed", "unsupported_compression"}
        <4>1. PICK b \in Body : Ends([Outcome("data") EXCEPT !.body = b], "success")
          BY <1>3, <3>6 DEF ResolveInline
        <4>2. QED
          BY <4>1, InlineJudged DEF Ends, Goto
      <3>7. QED
        BY <3>1, <3>2, <3>3, <3>4, <3>5, <3>6
    <2>2. QED
      BY <2>1 DEF BlameInv, Reached, Blamed, Body
  <1>4. CASE ResolveHttp
    <2>1. pc' = "validate" /\ out' = Asked("http") /\ uri.form = "http"
          /\ uri' = uri /\ cause' = cause /\ cause = "none"
      BY <1>4 DEF ResolveHttp, Request, Goto, chain, Asked, BlameInv
    <2>2. QED
      BY <2>1 DEF BlameInv, Reached, Asked, Outcome
  <1>5. CASE ResolveIpfs
    <2>1. pc' = "validate" /\ out' = Asked("ipfs") /\ uri.form = "ipfs"
          /\ uri' = uri /\ cause' = cause /\ cause = "none"
      BY <1>5 DEF ResolveIpfs, Request, Goto, chain, Asked, BlameInv
    <2>2. QED
      BY <2>1 DEF BlameInv, Reached, Asked, Outcome
  <1>6. CASE HopAllowed \/ RobotsAllow
    <2>1. /\ pc \in {"validate", "robots"} /\ pc' \in {"robots", "send"}
          /\ UNCHANGED <<uri, out, cause>>
      BY <1>6 DEF HopAllowed, RobotsAllow, Goto, chain
    <2>2. QED
      BY <2>1 DEF BlameInv, Reached, Asked
  <1>7. ASSUME NEW error, NEW why, Failed(error, why), UNCHANGED chain,
               pc \in {"validate", "robots", "send"},
               \/ error = "ssrf_blocked" /\ why \in {"not_public", "no_address"}
               \/ error \in {"robots_disallowed", "robots_unavailable"} /\ why = "no_permission"
               \/ error \in {"timeout", "connection_failed"} /\ why = "our_network"
               \/ error = "bad_redirect_location" /\ why = "our_redirects"
        PROVE  BlameInv'
    <2>1. uri.form \in {"http", "ipfs"} /\ out = Asked(uri.form)
      BY <1>7 DEF BlameInv
    <2>2. Blamed(why, [Asked(uri.form) EXCEPT !.error = error])
      BY <1>7, <2>1, FailureBlamed
    <2>3. Answered([Asked(uri.form) EXCEPT !.error = error], why)
      BY <1>7, <2>1 DEF Failed
    <2>4. QED
      BY <1>7, <2>1, <2>2, <2>3, AnsweredStep
  <1>8. CASE HopBlocked
    <2>1. PICK why \in {"not_public", "no_address"} : Failed("ssrf_blocked", why)
      BY <1>8 DEF HopBlocked
    <2>2. pc = "validate" /\ UNCHANGED chain
      BY <1>8 DEF HopBlocked
    <2>3. QED
      BY <1>7, <2>1, <2>2
  <1>9. CASE RobotsRefuse
    <2>1. PICK error \in {"robots_disallowed", "robots_unavailable"} :
             Failed(error, "no_permission")
      BY <1>9 DEF RobotsRefuse
    <2>2. pc = "robots" /\ UNCHANGED chain
      BY <1>9 DEF RobotsRefuse
    <2>3. QED
      BY <1>7, <2>1, <2>2
  <1>10. CASE SendFails
    <2>1. PICK error \in {"timeout", "connection_failed"} : Failed(error, "our_network")
      BY <1>10 DEF SendFails
    <2>2. pc = "send" /\ UNCHANGED chain
      BY <1>10 DEF SendFails
    <2>3. QED
      BY <1>7, <2>1, <2>2
  <1>11. CASE BadLocation
    <2>1. pc = "send" /\ UNCHANGED chain /\ Failed("bad_redirect_location", "our_redirects")
      BY <1>11 DEF BadLocation
    <2>2. QED
      BY <1>7, <2>1
  <1>12. CASE Redirected
    <2>1. pc = "send" /\ pc' = "validate" /\ UNCHANGED <<uri, out, cause>>
      BY <1>12 DEF Redirected, Follow, Goto, chain
    <2>2. QED
      BY <2>1 DEF BlameInv, Reached, Asked
  <1>13. CASE Terminal
    <2>1. pc = "send" /\ UNCHANGED chain
      BY <1>13 DEF Terminal
    <2>2. uri.form \in {"http", "ipfs"} /\ out = Asked(uri.form)
      BY <2>1 DEF BlameInv
    <2>3. PICK code \in Codes, b \in Body :
             LET o == [Asked(uri.form) EXCEPT !.status = code, !.body = b]
             IN  IF Redirects(code)
                 THEN Answered([o EXCEPT !.error = "too_many_redirects"], "our_redirects")
                 ELSE Answered(o, Meaning(code))
      BY <1>13, <2>2 DEF Terminal
    <2> DEFINE o == [Asked(uri.form) EXCEPT !.status = code, !.body = b]
               x == [o EXCEPT !.error = "too_many_redirects"]
    <2>4. (Redirects(code) => Blamed("our_redirects", x)) /\ Blamed(Meaning(code), o)
      BY <2>2, TerminalBlamed
    <2>5. IF Redirects(code) THEN Answered(x, "our_redirects") ELSE Answered(o, Meaning(code))
      BY <2>3
    <2> HIDE DEF o, x
    <2>6. CASE Redirects(code)
      BY <2>1, <2>2, <2>4, <2>5, <2>6, AnsweredStep
    <2>7. CASE ~Redirects(code)
      BY <2>1, <2>2, <2>4, <2>5, <2>7, AnsweredStep
    <2>8. QED
      BY <2>6, <2>7
  <1>14. CASE ReadFeedback \/ FeedbackFails \/ Judge
    <2>1. /\ pc \in {"feedback", "judge"} /\ pc' \in {"judge", "judged", "left_out"}
          /\ UNCHANGED <<caller, owner, uri, out, cause>>
      BY <1>14 DEF ReadFeedback, FeedbackFails, Judge, Goto, chain
    <2>2. QED
      BY <2>1 DEF BlameInv, Reached, Held, Blamed, Body
  <1>15. CASE UNCHANGED checkVars
    BY <1>15 DEF checkVars, BlameInv, Held, Blamed, Body
  <1>16. QED
    BY <1>1, <1>2, <1>3, <1>4, <1>5, <1>6, <1>8, <1>9, <1>10, <1>11, <1>12, <1>13, <1>14, <1>15
       DEF CheckNext

-----------------------------------------------------------------------------
(* What the rows say.                                                      *)

LEMMA HeldIs == Registered(owner) = IF Held THEN "pass" ELSE "fail"
  BY DEF Registered, Held

LEMMA RowsAre ==
    \E o, seven : results = Assemble(owner, o, Actual, seven) /\ (Held => o = out)
  <1>1. CASE caller = "census"
    BY <1>1 DEF results, CensusRows
  <1>2. CASE caller # "census" /\ Held
    BY <1>2 DEF results, SpotRows
  <1>3. CASE caller # "census" /\ ~Held
    BY <1>3 DEF results, SpotRows
  <1>4. QED
    BY <1>1, <1>2, <1>3

LEMMA BlameIsJust == BlameInv => JustBlame
  <1> SUFFICES ASSUME BlameInv, pc = "judged", Held
               PROVE  results[2].status =
            CASE cause = "success" -> "pass"
              [] cause \in {"no_uri", "unsupported", "not_public", "no_address", "answered"} -> "fail"
              [] cause \in {"no_permission", "declined"} -> "refused"
              [] cause \in {"our_codec", "our_network", "our_redirects", "all_gateways"} -> "error"
    BY DEF JustBlame
  <1>1. PICK o, seven : results = Assemble(owner, o, Actual, seven) /\ o = out
    BY RowsAre
  <1>2. results[2] = Row(Resolvable(out))
    <2>1. Assembled(results, owner, o, Actual, seven)
      BY <1>1, AssembledRows, Zenon
    <2>2. QED
      BY <1>1, <2>1, HeldIs DEF Assembled
  <1>3. Said(cause, Resolvable(out))
    BY DEF BlameInv, Reached, Blamed
  <1>4. results[2].status = Resolvable(out)
    BY <1>2 DEF Row
  <1>5. QED
    BY <1>3, <1>4 DEF Said

LEMMA JudgesTheDocument == BlameInv => JudgedOnTheDocument
  <1> SUFFICES ASSUME BlameInv, pc = "judged" PROVE JudgedOnTheDocument
    BY DEF JudgedOnTheDocument
  <1>1. PICK o, seven : results = Assemble(owner, o, Actual, seven) /\ (Held => o = out)
    BY RowsAre
  <1>2. /\ results[3].status # "skipped" =>
              /\ Registered(owner) = "pass" /\ Resolvable(o) = "pass"
              /\ results[3].status = Parseable(o)
        /\ results[4].status # "skipped" =>
              /\ Registered(owner) = "pass" /\ Resolvable(o) = "pass"
              /\ Parseable(o) = "pass" /\ results[3] = Row("pass")
              /\ results[4].status = Conformant(Document(o))
        /\ results[5].status # "skipped" =>
              /\ Registered(owner) = "pass" /\ Resolvable(o) = "pass"
              /\ Parseable(o) = "pass" /\ results[3] = Row("pass")
              /\ results[5].status = Bound(Document(o), Actual)
    <2>1. Assembled(results, owner, o, Actual, seven)
      BY <1>1, AssembledRows, Zenon
    <2>2. QED
      BY <2>1 DEF Assembled
  <1>3. Held /\ Resolvable(out) = "pass" =>
           cause = "success" /\ (out.body = NoBody \/ out.body \in Body)
    BY DEF BlameInv, Reached, Blamed, Said
  <1>4. Parseable(out) = "pass" =>
           /\ out.body.whole /\ out.body.json /\ out.body # NoBody
           /\ Document(out) = out.body.doc
    BY DEF Parseable, Document, NoBody
  <1>5. Parseable(out) \in {"pass", "fail"} => out.body.whole
    BY DEF Parseable
  <1>6. results[3].status \in {"pass", "fail"} => Held /\ cause = "success" /\ out.body.whole
    BY <1>1, <1>2, <1>3, <1>5, HeldIs
  <1>7. ASSUME results[4].status \in {"pass", "fail"} \/ results[5].status \in {"pass", "fail", "unclaimed"}
        PROVE  /\ out.body.json /\ results[3].status \in {"pass"}
               /\ out.body \in Body /\ o = out /\ Document(out) = out.body.doc
    <2>1. Registered(owner) = "pass" /\ Resolvable(o) = "pass" /\ Parseable(o) = "pass"
          /\ results[3] = Row("pass")
      BY <1>2, <1>7
    <2>2. Held /\ o = out
      BY <1>1, <2>1, HeldIs
    <2>3. QED
      BY <1>3, <1>4, <2>1, <2>2 DEF Row
  <1>8. ASSUME results[4].status \in {"pass"}
        PROVE  \A i \in DOMAIN out.body.doc : out.body.doc[i].agentId # Absent
    <2>1. Conformant(out.body.doc) = "pass"
      BY <1>2, <1>7, <1>8
    <2>2. MustViolations(out.body.doc) = {}
      BY <2>1 DEF Conformant
    <2>3. {<<i, "agentId">> : i \in {j \in DOMAIN out.body.doc : out.body.doc[j].agentId = Absent}} = {}
      BY <2>2 DEF MustViolations
    <2>4. QED
      BY <2>3
  <1>9. ASSUME results[5].status \in {"pass", "fail", "unclaimed"}
        PROVE  results[5].status = Bound(out.body.doc, Actual) /\ out.body.doc \in Documents
    <2>1. results[5].status = Bound(out.body.doc, Actual) /\ out.body \in Body /\ out.body.json
      BY <1>2, <1>7, <1>9
    <2>2. QED
      BY <2>1 DEF Body
  <1>10. results[5].status \in {"pass"} =>
            \E i \in DOMAIN out.body.doc :
               /\ out.body.doc[i].agentId = Actual.agent
               /\ out.body.doc[i].chain = Actual.chain
               /\ out.body.doc[i].address = Actual.registry
    <2> SUFFICES ASSUME results[5].status = "pass"
                 PROVE  \E i \in DOMAIN out.body.doc :
                           /\ out.body.doc[i].agentId = Actual.agent
                           /\ out.body.doc[i].chain = Actual.chain
                           /\ out.body.doc[i].address = Actual.registry
      OBVIOUS
    <2>1. Bound(out.body.doc, Actual) = "pass" /\ out.body.doc \in Documents
      BY <1>9
    <2>2. QED
      BY <2>1, BoundIs
  <1>11. results[5].status \in {"fail"} =>
            \A i \in DOMAIN out.body.doc : Cardinality(Agreements(out.body.doc[i], Actual)) < 4
    <2> SUFFICES ASSUME results[5].status = "fail"
                 PROVE  \A i \in DOMAIN out.body.doc :
                           Cardinality(Agreements(out.body.doc[i], Actual)) < 4
      OBVIOUS
    <2>1. Bound(out.body.doc, Actual) = "fail" /\ out.body.doc \in Documents
      BY <1>9
    <2>2. QED
      BY <2>1, BoundIs
  <1>12. QED
    BY <1>6, <1>7, <1>8, <1>10, <1>11 DEF JudgedOnTheDocument

LEMMA ProgramsAgree == BlameInv => SpotAgreesWithCensus
  <1> SUFFICES ASSUME BlameInv, pc = "judged", cause # "none" PROVE SpotAgreesWithCensus
    BY DEF SpotAgreesWithCensus
  <1> DEFINE census == CensusRows(out, clients)
             spot == SpotRows(out, clients)
  <1>1. CASE Held
    <2>1. census = spot /\ results = census
      BY <1>1, HeldIs DEF CensusRows, SpotRows, results
    <2>2. QED
      BY <2>1 DEF SpotAgreesWithCensus
  <1>2. CASE ~Held
    <2>1. /\ census = Assemble(owner, out, Actual, NotAsked)
          /\ spot = Assemble(owner, Outcome(""), Actual, NotAsked)
          /\ results = census \/ results = spot
      BY <1>2, HeldIs DEF CensusRows, SpotRows, results
    <2> HIDE DEF census, spot
    <2>2. Registered(owner) = "fail"
      BY <1>2, HeldIs
    <2>3. /\ DOMAIN census = 1 .. 5 /\ census[1] = Row("fail")
          /\ \A r \in 2 .. 5 : census[r] = Skipped(<<1, "fail">>)
      <3>1. Assembled(census, owner, out, Actual, NotAsked)
        BY <2>1, AssembledRows, Zenon
      <3>2. QED
        BY <2>2, <3>1 DEF Assembled
    <2>4. /\ DOMAIN spot = 1 .. 5 /\ spot[1] = Row("fail")
          /\ \A r \in 2 .. 5 : spot[r] = Skipped(<<1, "fail">>)
      <3>1. Assembled(spot, owner, Outcome(""), Actual, NotAsked)
        BY <2>1, AssembledRows, Zenon
      <3>2. QED
        BY <2>2, <3>1 DEF Assembled
    <2>5. \A r \in 1 .. 5 : census[r] = spot[r]
      <3> SUFFICES ASSUME NEW r \in 1 .. 5 PROVE census[r] = spot[r]
        OBVIOUS
      <3>1. r = 1 \/ r \in 2 .. 5
        OBVIOUS
      <3>2. QED
        BY <2>3, <2>4, <3>1
    <2>6. \A r \in DOMAIN results : r \in DOMAIN census => results[r] = census[r]
      BY <2>1, <2>3, <2>4, <2>5
    <2>7. QED
      BY <2>5, <2>6 DEF SpotAgreesWithCensus, census, spot
  <1>3. QED
    BY <1>1, <1>2

\* Rung 2 blames the agent, its origin or the checker for what really ended the
\* fetch, for any number of gateways and hops and any order of their failures.
THEOREM BlamesAreJust == CheckSpec => []JustBlame
  <1>1. QED
    BY BlameInit, BlameStep, BlameIsJust, PTL DEF CheckSpec

\* Rungs 3 to 5 speak only from the whole document that the agent serves, for any
\* documents.
THEOREM DocumentsAreJudged == CheckSpec => []JudgedOnTheDocument
  <1>1. QED
    BY BlameInit, BlameStep, JudgesTheDocument, PTL DEF CheckSpec

\* The spot check and the census write the same rows from the same observation.
THEOREM SpotIsTheCensus == CheckSpec => []SpotAgreesWithCensus
  <1>1. QED
    BY BlameInit, BlameStep, ProgramsAgree, PTL DEF CheckSpec

-----------------------------------------------------------------------------
(***************************************************************************)
(* The rows of a run.                                                      *)
(***************************************************************************)

(* Re-judging.                                                             *)

\* Both builds, and the backfill, go by the reason.
LEMMA ReasonStatus ==
    ASSUME NEW a \in Agents, NEW o \in Observations[a]
    PROVE  /\ Reason(o) = "declined" => DeclinedUs(o.status)
           /\ Reason(o) = "payment_required" => DeclinedUs(o.status)
           /\ Reason(o) \in {"no_uri", "unsupported_scheme", "ssrf_blocked", "http_status"} =>
                 ~DeclinedUs(o.status)
  <1>1. /\ o.asked \in BOOLEAN
        /\ o.asked => o.scheme \in {"http", "ipfs"}
        /\ o.status # 0 => o.asked /\ o.error \in {"none", "too_many_redirects"}
        /\ o.error \notin {"declined", "payment_required"}
    BY ArchiveAssumption
  <1>2. DeclinedUs(o.status) =>
           o.status # 0 /\ SchemeBucket(o) \in {"http", "ipfs"}
    <2> SUFFICES ASSUME DeclinedUs(o.status)
                 PROVE  o.status # 0 /\ SchemeBucket(o) \in {"http", "ipfs"}
      OBVIOUS
    <2>1. o.status # 0
      BY DEF DeclinedUs
    <2>2. o.asked = TRUE /\ o.scheme \in {"http", "ipfs"}
      BY <1>1, <2>1
    <2>3. SchemeBucket(o) = o.scheme
      BY <2>2 DEF SchemeBucket
    <2>4. QED
      BY <2>1, <2>2, <2>3
  <1>3. CASE DeclinedUs(o.status) /\ o.error # "none"
    <2>1. SchemeBucket(o) \in {"http", "ipfs"} /\ o.error = "too_many_redirects"
      BY <1>1, <1>2, <1>3
    <2>2. Reason(o) = "too_many_redirects"
      BY <2>1 DEF Reason
    <2>3. QED
      BY <2>2
  <1>4. CASE DeclinedUs(o.status) /\ o.error = "none"
    <2>1. SchemeBucket(o) \in {"http", "ipfs"} /\ ~Success(o.status)
      BY <1>2, <1>4 DEF Success, DeclinedUs
    <2>2. Reason(o) = CASE o.status = 0 -> "no_response"
                        [] Success(o.status) -> "none"
                        [] o.status = 402 -> "payment_required"
                        [] DeclinedUs(o.status) /\ o.status # 402 -> "declined"
                        [] OTHER -> "http_status"
      BY <1>4, <2>1 DEF Reason
    <2>3. CASE o.status = 402
      <3>1. Reason(o) = "payment_required"
        BY <2>1, <2>2, <2>3
      <3>2. QED
        BY <1>4, <3>1
    <2>4. CASE o.status # 402
      <3>1. Reason(o) = "declined"
        BY <1>2, <1>4, <2>1, <2>2, <2>4
      <3>2. QED
        BY <1>4, <3>1
    <2>5. QED
      BY <2>3, <2>4
  <1>5. CASE ~DeclinedUs(o.status)
    <2>1. Reason(o) \notin {"declined", "payment_required"}
      <3> DEFINE bucket == SchemeBucket(o)
      <3>1. CASE bucket = "empty"
        BY <3>1 DEF Reason
      <3>2. CASE bucket = "unsupported"
        BY <3>2 DEF Reason
      <3>3. CASE bucket \notin {"empty", "unsupported"} /\ o.error # "none"
        <4>1. Reason(o) = o.error
          BY <3>3 DEF Reason
        <4>2. QED
          BY <1>1, <4>1
      <3>4. CASE bucket = "data" /\ o.error = "none"
        <4>1. Reason(o) = "none"
          BY <3>4 DEF Reason
        <4>2. QED
          BY <4>1
      <3>5. CASE bucket \notin {"empty", "unsupported", "data"} /\ o.error = "none"
        <4>1. Reason(o) = CASE o.status = 0 -> "no_response"
                            [] Success(o.status) -> "none"
                            [] o.status = 402 -> "payment_required"
                            [] DeclinedUs(o.status) /\ o.status # 402 -> "declined"
                            [] OTHER -> "http_status"
          BY <3>5 DEF Reason
        <4>2. o.status # 402
          BY <1>5 DEF DeclinedUs
        <4>3. CASE o.status = 0
          <5>1. Reason(o) = "no_response"
            BY <4>1, <4>3 DEF Success, DeclinedUs
          <5>2. QED
            BY <5>1
        <4>4. CASE o.status # 0 /\ Success(o.status)
          <5>1. Reason(o) = "none"
            BY <1>5, <4>1, <4>2, <4>4
          <5>2. QED
            BY <5>1
        <4>5. CASE o.status # 0 /\ ~Success(o.status)
          <5>1. Reason(o) = "http_status"
            BY <1>5, <4>1, <4>2, <4>5
          <5>2. QED
            BY <5>1
        <4>6. QED
          BY <4>3, <4>4, <4>5
      <3>6. QED
        BY <3>1, <3>2, <3>3, <3>4, <3>5
    <2>2. QED
      BY <1>5, <2>1
  <1>6. QED
    BY <1>3, <1>4, <1>5

\* The backfill finds the rows of the former build that a fresh sweep would
\* write otherwise, says of each what it would write, and leaves a fresh row alone.
LEMMA Rejudging ==
    ASSUME NEW a \in Agents, NEW o \in Observations[a]
    PROVE  /\ Rejudge(Fresh(o)) = "unchanged"
           /\ Rejudge(Former(o)) \in {"declined", "keep", "unchanged"}
           /\ Rejudge(Former(o)) = "declined" =>
                 Fresh(o) = [Former(o) EXCEPT !.status = "refused", !.reason = "declined"]
           /\ Rejudge(Former(o)) = "keep" => Fresh(o) = [Former(o) EXCEPT !.status = "refused"]
           /\ Rejudge(Former(o)) = "unchanged" => Former(o) = Fresh(o)
           /\ Former(o).status = "pass" <=> Fresh(o).status = "pass"
  <1> DEFINE w == Reason(o)
             d == DeclinedUs(o.status)
  <1>1. /\ w = "declined" => d
        /\ w = "payment_required" => d
        /\ w \in {"no_uri", "unsupported_scheme", "ssrf_blocked", "http_status"} => ~d
    BY ReasonStatus
  <1>2. Fresh(o) = Judged(Resolvable(o), o, w)
    BY DEF Fresh
  <1>3. CASE w = "declined"
    <2>1. Resolvable(o) = "refused"
      BY <1>3 DEF Resolvable, CouldNotAsk
    <2>2. Former(o) = Judged("fail", o, "http_status")
      BY <1>3 DEF Former, CouldNotAsk
    <2>3. Fresh(o) = Judged("refused", o, "declined")
      BY <1>2, <1>3, <2>1
    <2>4. d
      BY <1>1, <1>3
    <2>5. /\ Former(o).status = "fail" /\ Former(o).code = o.status
          /\ Former(o).reason = "http_status"
          /\ Fresh(o).status = "refused" /\ Fresh(o).reason = "declined"
      BY <2>2, <2>3 DEF Judged
    <2>6. Rejudge(Former(o)) = "declined"
      BY <2>4, <2>5 DEF Rejudge, CouldNotAsk
    <2>7. Rejudge(Fresh(o)) = "unchanged"
      BY <2>5 DEF Rejudge, CouldNotAsk
    <2>8. Fresh(o) = [Former(o) EXCEPT !.status = "refused", !.reason = "declined"]
      <3>1. ASSUME NEW c
            PROVE  [[status |-> "fail", code |-> c, reason |-> "http_status"]
                        EXCEPT !.status = "refused", !.reason = "declined"]
                     = [status |-> "refused", code |-> c, reason |-> "declined"]
        <4> DEFINE x == [[status |-> "fail", code |-> c, reason |-> "http_status"]
                            EXCEPT !.status = "refused", !.reason = "declined"]
        <4>1. x \in [status : {"refused"}, code : {c}, reason : {"declined"}]
          <5>1. [[status |-> "fail", code |-> c, reason |-> "http_status"] EXCEPT !.status = "refused"]
                  = [status |-> "refused", code |-> c, reason |-> "http_status"]
            OBVIOUS
          <5>2. [[status |-> "refused", code |-> c, reason |-> "http_status"] EXCEPT !.reason = "declined"]
                  = [status |-> "refused", code |-> c, reason |-> "declined"]
            OBVIOUS
          <5>3. QED
            BY <5>1, <5>2
        <4> HIDE DEF x
        <4>2. x = [status |-> "refused", code |-> c, reason |-> "declined"]
          BY <4>1
        <4>3. QED
          BY <4>2 DEF x
      <3>2. QED
        BY <2>2, <2>3, <3>1 DEF Judged
    <2>9. QED
      BY <2>5, <2>6, <2>7, <2>8
  <1>4. CASE w = "payment_required"
    <2>1. Resolvable(o) = "refused"
      BY <1>4 DEF Resolvable, CouldNotAsk
    <2>2. /\ Former(o) = Judged("fail", o, "payment_required")
          /\ Fresh(o) = Judged("refused", o, "payment_required")
      BY <1>2, <1>4, <2>1 DEF Former, CouldNotAsk
    <2>3. QED
      BY <1>1, <1>4, <2>2 DEF Rejudge, Judged, CouldNotAsk
  <1>5. CASE CouldNotAsk(w)
    <2>1. Resolvable(o) = "refused" /\ w \notin {"declined", "payment_required"}
      BY <1>5 DEF Resolvable, CouldNotAsk
    <2>2. Former(o) = Judged("error", o, w) /\ Fresh(o) = Judged("refused", o, w)
      BY <1>2, <1>5, <2>1 DEF Former
    <2>3. QED
      BY <1>5, <2>2 DEF Rejudge, Judged
  <1>6. CASE w \notin {"declined", "payment_required"} /\ ~CouldNotAsk(w)
    <2>1. Former(o) = Fresh(o)
      BY <1>6 DEF Former
    <2>2. Resolvable(o) = IF w = "none" THEN "pass"
                          ELSE IF w \in {"no_uri", "unsupported_scheme", "ssrf_blocked", "http_status"}
                          THEN "fail" ELSE "error"
      BY <1>6 DEF Resolvable
    <2>3. Fresh(o).status = Resolvable(o) /\ Fresh(o).code = o.status /\ Fresh(o).reason = w
      BY <1>2 DEF Judged
    <2> HIDE DEF w
    <2>4. Rejudge(Fresh(o)) = "unchanged"
      BY <1>1, <1>6, <2>2, <2>3 DEF Rejudge
    <2>5. QED
      BY <2>1, <2>4
  <1>7. QED
    BY <1>3, <1>4, <1>5, <1>6

-----------------------------------------------------------------------------
(* The inductive invariant.                                                *)

\* Rows that one of the two builds, or the backfill, wrote of these sightings.
Reads(judged, seen) ==
    /\ DOMAIN judged = DOMAIN seen
    /\ \A a \in DOMAIN seen : judged[a] \in {Former(seen[a]), Fresh(seen[a])}

\* Each row of a run is what one of the builds says of what was observed, the rows of a
\* run that was re-judged what the newer one says, and a figure that of the rows.
RunOK(r) ==
    /\ DOMAIN observed[r] \subseteq Agents
    /\ \A a \in DOMAIN observed[r] : observed[r][a] \in Observations[a]
    /\ Reads(rows[r], observed[r])
    /\ findings[r] \subseteq {Figure(rows[r])}
    /\ r \in rejudged => \A a \in DOMAIN observed[r] : rows[r][a] = Fresh(observed[r][a])
    /\ status[r] = "absent" => rows[r] = NoRows /\ findings[r] = {} /\ r \notin rejudged

\* The directory and the copy are of run 1, and there is none before its sweep.
FileOK ==
    /\ DOMAIN file = {"rows", "stamp"}
    /\ DOMAIN copy = {"present", "stamp", "rows", "findings"}
    /\ status[1] = "absent" => file = NoFile /\ ~copy.present
    /\ status[1] # "absent" => Reads(file.rows, observed[1])
    /\ copy.present => Reads(copy.rows, observed[1])
    /\ copy.findings \subseteq {Figure(copy.rows)}

\* What a backfill has still to mark is what it would find if it read the run again.
ToolOK ==
    /\ "name" \in DOMAIN tool
    /\ tool.name = "backfill" =>
          /\ {"run", "declined", "keep", "moved"} \subseteq DOMAIN tool
          /\ tool.run \in Runs /\ status[tool.run] # "absent"
          /\ tool.declined = Candidates(tool.run, "declined")
          /\ tool.keep = Candidates(tool.run, "keep")
    /\ tool.name = "export" =>
          /\ "left" \in DOMAIN tool /\ tool.left \subseteq DOMAIN rows[1]
          /\ status[1] # "absent"

\* The runs, what was copied of them, and the tool at work.
ArchiveInv ==
    /\ DOMAIN observed = Runs /\ DOMAIN rows = Runs /\ DOMAIN status = Runs
    /\ DOMAIN findings = Runs
    /\ \A r \in Runs : RunOK(r)
    /\ FileOK
    /\ ToolOK

LEMMA OneIsARun == 1 \in Runs
  BY ArchiveAssumption DEF Runs

LEMMA LeastRun ==
    ASSUME NEW S \in SUBSET Runs, S # {}
    PROVE  (CHOOSE r \in S : \A s \in S : r <= s) \in S
  <1>1. S \in SUBSET Nat
    BY ArchiveAssumption DEF Runs
  <1>2. PICK x \in S : \A y \in S : x <= y
    BY <1>1, LeastNat
  <1>3. QED
    BY <1>2

LEMMA ArchiveInit == Init => ArchiveInv
  <1> SUFFICES ASSUME Init PROVE ArchiveInv
    OBVIOUS
  <1>1. DOMAIN NoRows = {}
    BY DEF NoRows
  <1>2. ASSUME NEW r \in Runs PROVE RunOK(r)
    <2>1. observed[r] = NoRows /\ rows[r] = NoRows /\ findings[r] = {} /\ rejudged = {}
      BY DEF Init
    <2>2. QED
      BY <1>1, <2>1 DEF RunOK, Reads
  <1>3. FileOK
    <2>1. file = NoFile /\ copy = NoCopy
      BY DEF Init
    <2>2. copy.present = FALSE /\ copy.findings = {}
      BY <2>1 DEF NoCopy
    <2>3. DOMAIN file = {"rows", "stamp"} /\ DOMAIN copy = {"present", "stamp", "rows", "findings"}
      BY <2>1 DEF NoFile, NoCopy
    <2>4. status[1] = "absent"
      BY OneIsARun DEF Init
    <2>5. QED
      BY <2>1, <2>2, <2>3, <2>4 DEF FileOK
  <1>4. ToolOK
    BY DEF Init, Idle, ToolOK
  <1>5. QED
    BY <1>2, <1>3, <1>4 DEF ArchiveInv, Init

\* A step that touches no run, and neither the directory nor the copy.
LEMMA RunsStand ==
    ASSUME ArchiveInv, UNCHANGED <<observed, rows, status, findings, rejudged>>
    PROVE  /\ \A r \in Runs : RunOK(r)'
           /\ UNCHANGED <<file, copy>> => FileOK'
           /\ DOMAIN observed' = Runs /\ DOMAIN rows' = Runs
           /\ DOMAIN status' = Runs /\ DOMAIN findings' = Runs
  <1>1. ASSUME NEW r \in Runs PROVE RunOK(r)'
    <2>1. RunOK(r)
      BY DEF ArchiveInv
    <2>2. QED
      BY <2>1 DEF RunOK
  <1>2. UNCHANGED <<file, copy>> => FileOK'
    BY DEF ArchiveInv, FileOK
  <1>3. QED
    BY <1>1, <1>2 DEF ArchiveInv

LEMMA SweepStep == ArchiveInv /\ Sweep => ArchiveInv'
  <1> SUFFICES ASSUME ArchiveInv, Sweep PROVE ArchiveInv'
    OBVIOUS
  <1>1. PICK r \in Runs, seen \in Sightings :
          /\ \A s \in Runs : status[s] = "absent" <=> s >= r
          /\ observed' = [observed EXCEPT ![r] = seen]
          /\ rows' = [rows EXCEPT ![r] = [a \in DOMAIN seen |-> By(checker, seen[a])]]
          /\ \E how \in {"finished", "failed"} : status' = [status EXCEPT ![r] = how]
          /\ stamp' = [stamp EXCEPT ![r] = checker]
          /\ file' = IF r = 1 THEN [rows |-> rows'[1], stamp |-> checker] ELSE file
    BY DEF Sweep
  <1>2. status[r] = "absent"
    BY <1>1, ArchiveAssumption DEF Runs
  <1>3. UNCHANGED <<findings, copy, tool, rejudged>> /\ tool = Idle
    BY DEF Sweep, Quiet
  <1>4. PICK how \in {"finished", "failed"} : status' = [status EXCEPT ![r] = how]
    BY <1>1
  <1>5. DOMAIN seen \subseteq Agents /\ \A a \in DOMAIN seen : seen[a] \in Observations[a]
    BY DEF Sightings
  <1>6. /\ DOMAIN observed' = Runs /\ DOMAIN rows' = Runs
        /\ DOMAIN status' = Runs /\ DOMAIN findings' = Runs
    BY <1>1, <1>3, <1>4 DEF ArchiveInv
  <1>7. /\ observed'[r] = seen /\ rows'[r] = [a \in DOMAIN seen |-> By(checker, seen[a])]
        /\ status'[r] = how
    BY <1>1, <1>4 DEF ArchiveInv
  <1>8. Reads(rows'[r], observed'[r])
    BY <1>7 DEF Reads, By
  <1>9. ASSUME NEW s \in Runs PROVE RunOK(s)'
    <2>1. RunOK(s)
      BY DEF ArchiveInv
    <2>2. CASE s = r
      <3>1. findings[s] = {} /\ s \notin rejudged
        BY <1>2, <2>1, <2>2 DEF RunOK
      <3>2. status'[s] # "absent"
        BY <1>4, <1>7, <2>2
      <3>3. QED
        BY <1>3, <1>5, <1>7, <1>8, <2>2, <3>1, <3>2 DEF RunOK
    <2>3. CASE s # r
      <3>1. /\ observed'[s] = observed[s] /\ rows'[s] = rows[s] /\ status'[s] = status[s]
        BY <1>1, <1>4, <2>3 DEF ArchiveInv
      <3>2. QED
        BY <1>3, <2>1, <3>1 DEF RunOK
    <2>4. QED
      BY <2>2, <2>3
  <1>10. FileOK'
    <2>0. FileOK
      BY DEF ArchiveInv
    <2>1. CASE r = 1
      <3>1. ~copy.present
        BY <1>2, <2>0, <2>1 DEF FileOK
      <3>2. file' = [rows |-> rows'[1], stamp |-> checker]
        BY <1>1, <2>1
      <3>3. file'.rows = rows'[1] /\ DOMAIN file' = {"rows", "stamp"}
        BY <3>2
      <3>4. status'[1] # "absent" /\ Reads(file'.rows, observed'[1])
        BY <1>4, <1>7, <1>8, <2>1, <3>3
      <3>5. QED
        BY <1>3, <2>0, <3>1, <3>3, <3>4 DEF FileOK
    <2>2. CASE r # 1
      <3>1. file' = file /\ observed'[1] = observed[1] /\ status'[1] = status[1]
        BY <1>1, <1>4, <2>2, OneIsARun DEF ArchiveInv
      <3>2. QED
        BY <1>3, <2>0, <3>1 DEF FileOK
    <2>3. QED
      BY <2>1, <2>2
  <1>11. ToolOK'
    BY <1>3 DEF ToolOK, Idle
  <1>12. QED
    BY <1>6, <1>9, <1>10, <1>11 DEF ArchiveInv

LEMMA FindingsStep == ArchiveInv /\ WriteFindings => ArchiveInv'
  <1> SUFFICES ASSUME ArchiveInv, WriteFindings PROVE ArchiveInv'
    OBVIOUS
  <1>1. PICK which \in {WithResults, WithResults \cap {r \in Finished : \A s \in Finished : s <= r}} :
          findings' = [r \in Runs |-> IF r \in which THEN {Figure(rows[r])} ELSE findings[r]]
    BY DEF WriteFindings
  <1>2. /\ UNCHANGED <<observed, rows, status, file, copy, tool, rejudged>>
    BY DEF WriteFindings
  <1>3. ASSUME NEW r \in Runs PROVE RunOK(r)'
    <2>1. RunOK(r)
      BY DEF ArchiveInv
    <2>2. findings'[r] = IF r \in which THEN {Figure(rows[r])} ELSE findings[r]
      BY <1>1
    <2>3. r \in which => rows[r] # NoRows
      BY <1>1 DEF WithResults
    <2>4. QED
      BY <1>2, <2>1, <2>2, <2>3 DEF RunOK
  <1>4. FileOK' /\ ToolOK'
    <2>1. FileOK /\ ToolOK
      BY DEF ArchiveInv
    <2>2. QED
      BY <1>2, <2>1 DEF FileOK, ToolOK, Candidates
  <1>5. QED
    BY <1>1, <1>2, <1>3, <1>4 DEF ArchiveInv

\* The candidates of a run are what ReadRun keeps of it.
LEMMA ReadRunOK ==
    ASSUME ArchiveInv, NEW r \in Runs, status[r] # "absent", ReadRun(r),
           UNCHANGED <<rows, status>>
    PROVE  ToolOK'
  <1>1. tool' = [name |-> "backfill", run |-> r, declined |-> Candidates(r, "declined"),
                 keep |-> Candidates(r, "keep"),
                 moved |-> \E a \in DOMAIN rows[r] : Rejudge(rows[r][a]) # "unchanged"]
    BY DEF ReadRun
  <1>2. /\ tool'.name = "backfill" /\ tool'.run = r /\ tool'.declined = Candidates(r, "declined")
        /\ tool'.keep = Candidates(r, "keep")
        /\ DOMAIN tool' = {"name", "run", "declined", "keep", "moved"}
    BY <1>1
  <1>3. \A v : Candidates(r, v)' = Candidates(r, v)
    BY DEF Candidates
  <1>4. QED
    BY <1>2, <1>3 DEF ToolOK, Candidates

LEMMA MarkStep == ArchiveInv /\ Mark => ArchiveInv'
  <1> SUFFICES ASSUME ArchiveInv, Mark PROVE ArchiveInv'
    OBVIOUS
  <1>0. PICK t : t = tool.run
    OBVIOUS
  <1> DEFINE todo == IF tool.declined # {} THEN tool.declined ELSE tool.keep
             Marked(chunk, a) ==
                 CASE a \notin chunk -> rows[t][a]
                   [] a \in chunk /\ tool.declined = {} -> [rows[t][a] EXCEPT !.status = "refused"]
                   [] OTHER -> [rows[t][a] EXCEPT !.status = "refused", !.reason = "declined"]
  <1>1. /\ t \in Runs /\ status[t] # "absent" /\ tool.name = "backfill"
        /\ {"name", "run", "declined", "keep", "moved"} \subseteq DOMAIN tool
        /\ tool.declined = Candidates(t, "declined") /\ tool.keep = Candidates(t, "keep")
    BY <1>0 DEF ArchiveInv, ToolOK, Mark, Backfilling
  <1>2. RunOK(t)
    BY <1>1 DEF ArchiveInv
  <1>3. PICK chunk \in SUBSET todo :
          /\ rows' = [rows EXCEPT ![t] = [a \in DOMAIN @ |-> Marked(chunk, a)]]
          /\ tool' = [tool EXCEPT !.declined = @ \ chunk, !.keep = @ \ chunk]
    BY <1>0, Zenon DEF Mark
  <1>4. UNCHANGED <<observed, status, findings, file, copy, rejudged>>
    BY DEF Mark
  <1>5. /\ rows'[t] = [a \in DOMAIN rows[t] |-> Marked(chunk, a)]
        /\ \A r \in Runs \ {t} : rows'[r] = rows[r]
        /\ DOMAIN rows' = Runs
    BY <1>1, <1>3 DEF ArchiveInv
  <1>6. DOMAIN rows[t] = DOMAIN observed[t] /\ DOMAIN rows'[t] = DOMAIN observed[t]
    BY <1>2, <1>5 DEF RunOK, Reads
  <1>7. ASSUME NEW a \in DOMAIN observed[t]
        PROVE  /\ a \notin chunk => rows'[t][a] = rows[t][a]
               /\ a \in chunk => rows'[t][a] = Fresh(observed[t][a])
               /\ rows'[t][a].status = "pass" <=> rows[t][a].status = "pass"
    <2> DEFINE o == observed[t][a]
    <2>1. a \in Agents /\ o \in Observations[a] /\ rows[t][a] \in {Former(o), Fresh(o)}
      BY <1>2 DEF RunOK, Reads
    <2>2. /\ Rejudge(Fresh(o)) = "unchanged"
          /\ Rejudge(Former(o)) = "declined" =>
                Fresh(o) = [Former(o) EXCEPT !.status = "refused", !.reason = "declined"]
          /\ Rejudge(Former(o)) = "keep" => Fresh(o) = [Former(o) EXCEPT !.status = "refused"]
          /\ Former(o).status = "pass" <=> Fresh(o).status = "pass"
      BY <2>1, Rejudging
    <2>3. rows'[t][a] = Marked(chunk, a)
      BY <1>5, <1>6
    <2> HIDE DEF o
    <2>4. CASE a \notin chunk
      BY <2>3, <2>4
    <2>5. CASE a \in chunk /\ tool.declined = {}
      <3>1. a \in Candidates(t, "keep")
        BY <1>1, <2>5
      <3>2. Rejudge(rows[t][a]) = "keep"
        BY <3>1 DEF Candidates
      <3>3. rows[t][a] = Former(o) /\ Fresh(o) = [Former(o) EXCEPT !.status = "refused"]
        BY <2>1, <2>2, <3>2
      <3>4. rows'[t][a] = [rows[t][a] EXCEPT !.status = "refused"]
        BY <2>3, <2>5
      <3>5. rows'[t][a] = Fresh(o)
        BY <3>3, <3>4
      <3>6. QED
        BY <2>2, <2>5, <3>3, <3>5 DEF o
    <2>6. CASE a \in chunk /\ tool.declined # {}
      <3>1. a \in Candidates(t, "declined")
        BY <1>1, <2>6
      <3>2. Rejudge(rows[t][a]) = "declined"
        BY <3>1 DEF Candidates
      <3>3. /\ rows[t][a] = Former(o)
            /\ Fresh(o) = [Former(o) EXCEPT !.status = "refused", !.reason = "declined"]
        BY <2>1, <2>2, <3>2
      <3>4. rows'[t][a] = [rows[t][a] EXCEPT !.status = "refused", !.reason = "declined"]
        BY <2>3, <2>6
      <3>5. rows'[t][a] = Fresh(o)
        BY <3>3, <3>4
      <3>6. QED
        BY <2>2, <2>6, <3>3, <3>5 DEF o
    <2>7. QED
      BY <2>4, <2>5, <2>6
  <1> HIDE DEF Marked
  <1>8. Figure(rows'[t]) = Figure(rows[t])
    <2>1. {a \in DOMAIN rows'[t] : rows'[t][a].status = "pass"}
             = {a \in DOMAIN rows[t] : rows[t][a].status = "pass"}
      BY <1>6, <1>7
    <2>2. QED
      BY <2>1 DEF Figure
  <1>9. RunOK(t)'
    <2>1. Reads(rows'[t], observed[t])
      BY <1>2, <1>6, <1>7 DEF RunOK, Reads
    <2>2. t \in rejudged => \A a \in DOMAIN observed[t] : rows'[t][a] = Fresh(observed[t][a])
      BY <1>2, <1>7 DEF RunOK
    <2>3. findings[t] \subseteq {Figure(rows'[t])}
      BY <1>2, <1>8 DEF RunOK
    <2>4. QED
      BY <1>1, <1>2, <1>4, <2>1, <2>2, <2>3 DEF RunOK
  <1>10. ASSUME NEW r \in Runs PROVE RunOK(r)'
    <2>1. CASE r = t
      BY <1>9, <2>1
    <2>2. CASE r # t
      <3>1. RunOK(r) /\ rows'[r] = rows[r]
        BY <1>5, <2>2 DEF ArchiveInv
      <3>2. QED
        BY <1>4, <3>1 DEF RunOK
    <2>3. QED
      BY <2>1, <2>2
  <1>11. FileOK'
    BY <1>4 DEF ArchiveInv, FileOK
  <1>12. ToolOK'
    <2>1. /\ tool'.name = "backfill" /\ tool'.run = t
          /\ tool'.declined = tool.declined \ chunk /\ tool'.keep = tool.keep \ chunk
          /\ {"name", "run", "declined", "keep", "moved"} \subseteq DOMAIN tool'
      BY <1>0, <1>1, <1>3
    <2>2. ASSUME NEW a \in DOMAIN observed[t], a \in chunk
          PROVE  Rejudge(rows'[t][a]) = "unchanged"
      <3>1. a \in Agents /\ observed[t][a] \in Observations[a]
        BY <1>2 DEF RunOK
      <3>2. Rejudge(Fresh(observed[t][a])) = "unchanged"
        BY <3>1, Rejudging
      <3>3. QED
        BY <1>7, <2>2, <3>2
    <2>3. ASSUME NEW v \in {"declined", "keep"}
          PROVE  Candidates(t, v)' = Candidates(t, v) \ chunk
      <3>1. Candidates(t, v)' = {a \in DOMAIN rows'[t] : Rejudge(rows'[t][a]) = v}
        BY <1>3, <2>1 DEF Candidates
      <3>2. Candidates(t, v) = {a \in DOMAIN rows[t] : Rejudge(rows[t][a]) = v}
        BY DEF Candidates
      <3>3. \A a \in DOMAIN observed[t] :
               Rejudge(rows'[t][a]) = v <=> Rejudge(rows[t][a]) = v /\ a \notin chunk
        BY <1>7, <2>2
      <3>4. QED
        BY <1>6, <3>1, <3>2, <3>3
    <2>4. QED
      BY <1>1, <1>4, <2>1, <2>3 DEF ToolOK, Candidates
  <1>13. QED
    BY <1>4, <1>5, <1>10, <1>11, <1>12 DEF ArchiveInv

LEMMA RunDoneStep == ArchiveInv /\ RunDone => ArchiveInv'
  <1> SUFFICES ASSUME ArchiveInv, RunDone PROVE ArchiveInv'
    OBVIOUS
  <1>0. PICK t : t = tool.run
    OBVIOUS
  <1>1. /\ t \in Runs /\ status[t] # "absent"
        /\ Candidates(t, "declined") = {} /\ Candidates(t, "keep") = {}
        /\ rejudged' = rejudged \cup {t}
        /\ UNCHANGED <<observed, rows, status, findings, file, copy>>
    BY <1>0 DEF ArchiveInv, ToolOK, RunDone, Backfilling
  <1>2. ASSUME NEW a \in DOMAIN observed[t] PROVE rows[t][a] = Fresh(observed[t][a])
    <2>1. RunOK(t)
      BY <1>1 DEF ArchiveInv
    <2>2. /\ a \in Agents /\ observed[t][a] \in Observations[a] /\ a \in DOMAIN rows[t]
          /\ rows[t][a] \in {Former(observed[t][a]), Fresh(observed[t][a])}
      BY <2>1 DEF RunOK, Reads
    <2>3. Rejudge(rows[t][a]) # "declined" /\ Rejudge(rows[t][a]) # "keep"
      BY <1>1, <2>2 DEF Candidates
    <2>4. /\ Rejudge(Former(observed[t][a])) \in {"declined", "keep", "unchanged"}
          /\ Rejudge(Former(observed[t][a])) = "unchanged" =>
                Former(observed[t][a]) = Fresh(observed[t][a])
      BY <2>2, Rejudging
    <2>5. QED
      BY <2>2, <2>3, <2>4
  <1>3. ASSUME NEW r \in Runs PROVE RunOK(r)'
    <2>1. RunOK(r)
      BY DEF ArchiveInv
    <2>2. QED
      BY <1>1, <1>2, <2>1 DEF RunOK
  <1>4. FileOK'
    BY <1>1 DEF ArchiveInv, FileOK
  <1>5. ToolOK'
    <2> DEFINE later == {r \in WithResults : r > t}
    <2>1. CASE later = {}
      <3>1. tool' = [name |-> "recompute", left |-> {r \in Runs : deltas[r] # {}}]
        BY <1>0, <2>1 DEF RunDone
      <3>2. tool'.name = "recompute" /\ "name" \in DOMAIN tool'
        BY <3>1
      <3>3. QED
        BY <3>2 DEF ToolOK
    <2>2. CASE later # {}
      <3> DEFINE next == CHOOSE r \in later : \A s \in later : r <= s
      <3>1. ReadRun(next)
        BY <1>0, <2>2 DEF RunDone
      <3>2. later \in SUBSET Runs
        BY DEF WithResults
      <3>3. next \in later
        <4> HIDE DEF later
        <4> QED
          BY <2>2, <3>2, LeastRun
      <3>4. next \in Runs /\ status[next] # "absent"
        BY <3>3 DEF WithResults, ArchiveInv, RunOK
      <3> HIDE DEF next
      <3>5. QED
        BY <1>1, <3>1, <3>4, ReadRunOK
    <2>3. QED
      BY <2>1, <2>2
  <1>6. QED
    BY <1>1, <1>3, <1>4, <1>5 DEF ArchiveInv

LEMMA StartBackfillStep == ArchiveInv /\ StartBackfill => ArchiveInv'
  <1> SUFFICES ASSUME ArchiveInv, StartBackfill PROVE ArchiveInv'
    OBVIOUS
  <1> DEFINE first == CHOOSE r \in WithResults : \A s \in WithResults : r <= s
  <1>1. /\ WithResults # {} /\ ReadRun(first)
        /\ UNCHANGED <<observed, rows, status, findings, file, copy, rejudged>>
    BY DEF StartBackfill, database
  <1>2. WithResults \in SUBSET Runs
    BY DEF WithResults
  <1>3. first \in WithResults
    BY <1>1, <1>2, LeastRun
  <1>4. first \in Runs /\ status[first] # "absent"
    BY <1>3 DEF WithResults, ArchiveInv, RunOK
  <1> HIDE DEF first
  <1>5. ToolOK'
    BY <1>1, <1>4, ReadRunOK
  <1>6. QED
    BY <1>1, <1>5, RunsStand DEF ArchiveInv

LEMMA ExportStep == ArchiveInv /\ (StartExport \/ ExportAgent \/ ExportManifest) => ArchiveInv'
  <1> SUFFICES ASSUME ArchiveInv, StartExport \/ ExportAgent \/ ExportManifest PROVE ArchiveInv'
    OBVIOUS
  <1>0. FileOK /\ RunOK(1)
    BY OneIsARun DEF ArchiveInv
  <1>1. CASE StartExport
    <2>1. tool' = [name |-> "export", left |-> DOMAIN rows[1]] /\ status[1] = "finished"
          /\ UNCHANGED <<observed, rows, status, findings, file, copy, rejudged>>
      BY <1>1 DEF StartExport, database
    <2>2. tool'.name = "export" /\ tool'.left = DOMAIN rows[1] /\ DOMAIN tool' = {"name", "left"}
      BY <2>1
    <2>3. ToolOK'
      BY <2>1, <2>2 DEF ToolOK
    <2>4. QED
      BY <2>1, <2>3, RunsStand DEF ArchiveInv
  <1>2. CASE ExportAgent
    <2>1. /\ tool.name = "export" /\ "left" \in DOMAIN tool /\ "name" \in DOMAIN tool
          /\ tool.left \subseteq DOMAIN rows[1] /\ status[1] # "absent"
          /\ UNCHANGED <<observed, rows, status, findings, copy, rejudged>>
      BY <1>2 DEF ArchiveInv, ToolOK, ExportAgent, database
    <2>2. PICK a \in tool.left :
            /\ file' = [file EXCEPT !.rows =
                          [b \in DOMAIN @ \cup {a} |-> IF b = a THEN rows[1][a] ELSE @[b]]]
            /\ tool' = [tool EXCEPT !.left = @ \ {a}]
      BY <1>2 DEF ExportAgent
    <2>3. /\ tool'.name = "export" /\ tool'.left = tool.left \ {a}
          /\ "left" \in DOMAIN tool' /\ "name" \in DOMAIN tool'
      BY <2>1, <2>2
    <2>4. ToolOK'
      BY <2>1, <2>3 DEF ToolOK
    <2>5. /\ DOMAIN file' = {"rows", "stamp"}
          /\ file'.rows = [b \in DOMAIN file.rows \cup {a} |->
                              IF b = a THEN rows[1][a] ELSE file.rows[b]]
      BY <1>0, <2>2 DEF FileOK
    <2>6. Reads(file.rows, observed[1]) /\ Reads(rows[1], observed[1])
      BY <1>0, <2>1 DEF FileOK, RunOK
    <2>7. Reads(file'.rows, observed[1])
      BY <2>1, <2>2, <2>5, <2>6 DEF Reads
    <2>8. FileOK'
      BY <1>0, <2>1, <2>5, <2>7 DEF FileOK
    <2>9. QED
      BY <2>1, <2>4, <2>8, RunsStand DEF ArchiveInv
  <1>3. CASE ExportManifest
    <2>1. /\ file' = [file EXCEPT !.stamp = stamp[1]] /\ tool' = Idle
          /\ status[1] # "absent"
          /\ UNCHANGED <<observed, rows, status, findings, copy, rejudged>>
      BY <1>3 DEF ExportManifest, database, ArchiveInv, ToolOK
    <2>2. DOMAIN file' = {"rows", "stamp"} /\ file'.rows = file.rows
      BY <1>0, <2>1 DEF FileOK
    <2>3. FileOK'
      BY <1>0, <2>1, <2>2 DEF FileOK
    <2>4. ToolOK'
      BY <2>1 DEF ToolOK, Idle
    <2>5. QED
      BY <2>1, <2>3, <2>4, RunsStand DEF ArchiveInv
  <1>4. QED
    BY <1>1, <1>2, <1>3

LEMMA ImportStep == ArchiveInv /\ (Import \/ CountImported) => ArchiveInv'
  <1> SUFFICES ASSUME ArchiveInv, Import \/ CountImported PROVE ArchiveInv'
    OBVIOUS
  <1>0. FileOK
    BY DEF ArchiveInv
  <1>1. UNCHANGED <<observed, rows, status, findings, file, rejudged>>
    BY DEF Import, CountImported, database
  <1>2. CASE Import
    <2>1. file # NoFile /\ copy' = Loaded /\ tool' = [name |-> "import"]
      BY <1>2 DEF Import
    <2>2. /\ copy'.rows = file.rows /\ copy'.findings = {}
          /\ DOMAIN copy' = {"present", "stamp", "rows", "findings"}
      BY <2>1 DEF Loaded
    <2>3. status[1] # "absent" /\ Reads(copy'.rows, observed[1])
      BY <1>0, <2>1, <2>2 DEF FileOK
    <2>4. FileOK'
      BY <1>0, <1>1, <2>2, <2>3 DEF FileOK
    <2>5. tool'.name = "import" /\ "name" \in DOMAIN tool'
      BY <2>1
    <2>6. ToolOK'
      BY <2>5 DEF ToolOK
    <2>7. QED
      BY <1>1, <2>4, <2>6, RunsStand DEF ArchiveInv
  <1>3. CASE CountImported
    <2>1. copy' = [copy EXCEPT !.findings = {Figure(copy.rows)}] /\ tool' = Idle
      BY <1>3 DEF CountImported
    <2>2. /\ copy'.rows = copy.rows /\ copy'.findings = {Figure(copy.rows)}
          /\ copy'.present = copy.present
          /\ DOMAIN copy' = {"present", "stamp", "rows", "findings"}
      BY <1>0, <2>1 DEF FileOK
    <2>3. FileOK'
      BY <1>0, <1>1, <2>2 DEF FileOK
    <2>4. ToolOK'
      BY <2>1 DEF ToolOK, Idle
    <2>5. QED
      BY <1>1, <2>3, <2>4, RunsStand DEF ArchiveInv
  <1>4. QED
    BY <1>2, <1>3

\* The steps that touch neither rows nor figures, nor what leaves the database.
LEMMA OtherStep ==
    ArchiveInv /\ (\/ Deploy \/ WriteDelta \/ StartRecompute \/ Recompute \/ Recomputed
                  \/ Crash \/ UNCHANGED vars) => ArchiveInv'
  <1> SUFFICES ASSUME ArchiveInv,
                      \/ Deploy \/ WriteDelta \/ StartRecompute \/ Recompute \/ Recomputed
                      \/ Crash \/ UNCHANGED vars
               PROVE  ArchiveInv'
    OBVIOUS
  <1>1. UNCHANGED <<observed, rows, status, findings, file, copy, rejudged>>
    BY DEF Deploy, WriteDelta, StartRecompute, Recompute, Recomputed, Crash, database, vars
  <1>2. ToolOK
    BY DEF ArchiveInv
  <1>3. CASE Deploy \/ WriteDelta \/ UNCHANGED vars
    <2>1. tool' = tool
      BY <1>3 DEF Deploy, WriteDelta, vars
    <2>2. ToolOK'
      BY <1>1, <1>2, <2>1 DEF ToolOK, Candidates
    <2>3. QED
      BY <1>1, <2>2, RunsStand DEF ArchiveInv
  <1>4. CASE StartRecompute
    <2>1. tool' = [name |-> "recompute", left |-> {r \in Runs : deltas[r] # {}}]
      BY <1>4 DEF StartRecompute
    <2>2. tool'.name = "recompute" /\ "name" \in DOMAIN tool'
      BY <2>1
    <2>3. QED
      BY <1>1, <2>2, RunsStand DEF ArchiveInv, ToolOK
  <1>5. CASE Recompute
    <2>1. tool.name = "recompute" /\ \E r \in tool.left : tool' = [tool EXCEPT !.left = @ \ {r}]
      BY <1>5 DEF Recompute
    <2>2. tool'.name = "recompute" /\ "name" \in DOMAIN tool'
      BY <1>2, <2>1 DEF ToolOK
    <2>3. QED
      BY <1>1, <2>2, RunsStand DEF ArchiveInv, ToolOK
  <1>6. CASE Recomputed \/ Crash
    <2>1. tool' = Idle
      BY <1>6 DEF Recomputed, Crash
    <2>2. tool'.name = "none" /\ "name" \in DOMAIN tool'
      BY <2>1 DEF Idle
    <2>3. QED
      BY <1>1, <2>2, RunsStand DEF ArchiveInv, ToolOK
  <1>7. QED
    BY <1>3, <1>4, <1>5, <1>6

LEMMA ArchiveStep == ArchiveInv /\ [Next]_vars => ArchiveInv'
  BY SweepStep, FindingsStep, MarkStep, RunDoneStep, StartBackfillStep, ExportStep, ImportStep,
     OtherStep DEF Next, Work

\* However the backfill is interrupted and run again, a row is what one build or
\* the other says of its observation, and past a backfill what a fresh sweep says.
THEOREM RejudgingIsFresh == Spec => []RejudgedIsFresh
  <1>1. ArchiveInv => RejudgedIsFresh
    <2> SUFFICES ASSUME ArchiveInv, NEW r \in Runs, NEW a \in Agents
                 PROVE  /\ a \in DOMAIN rows[r] <=> a \in DOMAIN observed[r]
                        /\ a \in DOMAIN rows[r] =>
                              /\ rows[r][a] \in {Former(observed[r][a]), Fresh(observed[r][a])}
                              /\ r \in rejudged => rows[r][a] = Fresh(observed[r][a])
      BY DEF RejudgedIsFresh
    <2>1. RunOK(r)
      BY DEF ArchiveInv
    <2>2. QED
      BY <2>1 DEF RunOK, Reads
  <1>2. QED
    BY <1>1, ArchiveInit, ArchiveStep, PTL DEF Spec

\* The figures that were counted stay the figures of their rows, for any number
\* of runs and agents and any chunks.
THEOREM FiguresStand == Spec => []FindingsStand
  <1>1. ArchiveInv => FindingsStand
    BY DEF ArchiveInv, RunOK, FileOK, FindingsStand
  <1>2. QED
    BY <1>1, ArchiveInit, ArchiveStep, PTL DEF Spec

\* What a reader imports is all of run 1, each row as one of the builds judged it.
THEOREM CopiesAreRuns == Spec => []CopyIsARun
  <1>1. ArchiveInv => CopyIsARun
    BY DEF ArchiveInv, FileOK, Reads, CopyIsARun
  <1>2. QED
    BY <1>1, ArchiveInit, ArchiveStep, PTL DEF Spec
=============================================================================
