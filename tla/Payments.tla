------------------------------ MODULE Payments ------------------------------
(***************************************************************************)
(* The payments pass over a finished run (sweeper/src/bin/payments.rs, the *)
(* payments crate, chain/src/token.rs), on the snapshots ChainReads gave.  *)
(* It reads the agents' wallets, clears what an earlier pass wrote, and    *)
(* for each basis writes the targets, then for each token scans Transfer   *)
(* logs on both sides, writes a row for each agent behind the credited     *)
(* address, and last the row that says the range was covered.  A pass may  *)
(* fail or be killed anywhere and be run again.                            *)
(***************************************************************************)
EXTENDS ChainReads, SequencesExt

CONSTANTS
    Owner,          \* [Ids -> addresses], ownerOf at the pinned block
    Wallet,         \* [Ids -> addresses], getAgentWallet; "none": the call reverts
    Services,       \* [Ids -> Seq([name, address])]: services[] of the archived document
    Addresses,      \* what normalise_address lets through
    Burn,           \* the burn addresses
    HasCode,        \* the addresses with code at the pinned block
    Transfers,      \* the chain's logs: a set of [tx, index, token, sender, to, block]
    Authorizer,     \* [transactions -> [tokens -> address or "none"]]: AuthorizationUsed
    Tokens,         \* TOKENS of the chain, a sequence
    Bases,          \* PAYMENTS_BASES, a sequence
    TargetsPerQuery,
    MaxPasses, PassTrouble, MaxLost \* bounds on passes, and for each of them on what
                    \* fails for a moment and on the rows it cannot write

ASSUME PaymentsAssumption ==
    /\ DOMAIN Owner = Ids /\ DOMAIN Wallet = Ids /\ Burn \subseteq Addresses
    /\ Services \in [Ids -> Seq([name : STRING, address : STRING])]
    /\ Tokens \in Seq(STRING) /\ Bases \in Seq({"verified_wallet", "declared_wallet"})
    /\ IsFiniteSet(Transfers) /\ \A x \in Transfers : x.block \in Nat /\ x.index \in Nat
    /\ \A x, y \in Transfers : x.block = y.block /\ x.index = y.index => x = y
    /\ TargetsPerQuery \in Nat \ {0}
    /\ MaxPasses \in Nat /\ PassTrouble \in Nat /\ MaxLost \in Nat

Sides == <<"in", "out">>

VARIABLES
    \* of the run in the database
    targets,        \* payment_targets: a set of [agent, basis, address, ineligible, pass]
    payments,       \* payments: a set of rows, see Row
    scans,          \* payment_scans: a set of [basis, token, found, pass]
    \* of the process
    step,           \* where it is
    pass,           \* which pass it is: stands for its rule version
    wallets,        \* [Ids -> address, or "unread"]
    b, k, s, c,     \* the basis, token, side and chunk of addresses at work
    spans,          \* the stack of block ranges still to be asked
    logs,           \* the logs of this side
    found,          \* of this token, on both sides
    is_contract,    \* caches of run_basis
    authorizations,
    lost            \* history: the rows this pass could not write

tables == <<targets, payments, scans>>
locals == <<wallets, b, k, s, c, spans, logs, found, is_contract, authorizations>>
passVars == <<tables, step, pass, locals, lost>>
paymentsVars == <<reads, passVars>>

NoLocals ==
    /\ wallets = <<>> /\ b = 1 /\ k = 1 /\ s = 1 /\ c = 1
    /\ spans = <<>> /\ logs = <<>> /\ found = 0
    /\ is_contract = <<>> /\ authorizations = <<>>

PaymentsInit ==
    /\ ReadInit
    /\ targets = {} /\ payments = {} /\ scans = {}
    /\ step = "idle" /\ pass = 0 /\ NoLocals /\ lost = {}

-----------------------------------------------------------------------------
(* The attribution map.                                                    *)

is_burn_address(a) == a \in Burn

\* No row at all for a wallet that was not read.
verified_targets(i) ==
    IF wallets[i] = "unread" THEN {}
    ELSE {[address |-> wallets[i],
           ineligible |-> IF is_burn_address(wallets[i]) THEN "wallet_unset"
                          ELSE IF wallets[i] = Owner[i] THEN "wallet_equals_owner"
                          ELSE "none"]}

\* Every address of an entry of that very name, not the first.
declared_wallets(i) ==
    {Services[i][n].address : n \in {n \in DOMAIN Services[i] :
        Services[i][n].name = "agentWallet" /\ Services[i][n].address \in Addresses}}

declared_targets(i) ==
    IF declared_wallets(i) = {} THEN {[address |-> "", ineligible |-> "no_declared_address"]}
    ELSE {[address |-> a, ineligible |-> IF is_burn_address(a) THEN "burn_address" ELSE "none"] :
              a \in declared_wallets(i)}

targets_for(i, basis) ==
    IF basis = "verified_wallet" THEN verified_targets(i) ELSE declared_targets(i)

\* Every agent with a snapshot, with an archived document or without.
payment_candidates == ids

reachers(address, basis) ==
    {i \in payment_candidates : \E d \in targets_for(i, basis) : d.address = address /\ d.ineligible = "none"}

addresses(basis) ==
    {d.address : d \in {d \in UNION {targets_for(i, basis) : i \in payment_candidates} : d.ineligible = "none"}}

-----------------------------------------------------------------------------
(* One transfer.                                                           *)

Counterparty(x, side) == IF side = "in" THEN x.sender ELSE x.to
Credited(x, side) == IF side = "in" THEN x.to ELSE x.sender

\* Mutant: an agent without a mint block is given the benefit of the doubt.
classify_unplaced(x, side, i) ==
    IF side = "out" THEN "outgoing"
    ELSE IF is_burn_address(Credited(x, side)) \/ is_burn_address(Counterparty(x, side)) THEN "burn_address"
    ELSE IF Counterparty(x, side) = Credited(x, side) THEN "self_transfer"
    ELSE IF Counterparty(x, side) = Owner[i] THEN "owner_funding"
    ELSE IF x.block < minted(i) THEN "pre_mint"
    ELSE "counted"

\* The first rule that bites; minted(i) = 0 stands for a NULL column.
classify(x, side, i) ==
    IF side = "out" THEN "outgoing"
    ELSE IF is_burn_address(Credited(x, side)) \/ is_burn_address(Counterparty(x, side)) THEN "burn_address"
    ELSE IF Counterparty(x, side) = Credited(x, side) THEN "self_transfer"
    ELSE IF Counterparty(x, side) = Owner[i] THEN "owner_funding"
    ELSE IF minted(i) = 0 THEN "mint_block_unknown"
    ELSE IF x.block < minted(i) THEN "pre_mint"
    ELSE "counted"

\* payments_unique, with what the log says, and what the pass makes of it.
Row(x, side, i, code, authorizer) ==
    [key |-> [agent |-> i, basis |-> Bases[b], side |-> side, log |-> x],
     code |-> code, authorizer |-> authorizer,
     verdict |-> classify(x, side, i), pass |-> pass]

-----------------------------------------------------------------------------
(* The pass.                                                               *)

GoOn(where) == step' = where

\* main, up to the first read.
Start ==
    /\ stage = "read" /\ step = "idle" /\ pass < MaxPasses
    /\ pass' = pass + 1 /\ trouble' = PassTrouble
    /\ GoOn("wallets") /\ UNCHANGED <<tables, locals, lost>>

\* A revert is "could not ask"; zero is an answer.
agent_wallet(i) == IF Wallet[i] = "none" THEN "unread" ELSE Wallet[i]

\* read_agent_wallets: a revert and a failed read both leave no wallet.
ReadWallet(i) ==
    /\ step = "wallets" /\ i \in payment_candidates \ DOMAIN wallets
    /\ \A j \in payment_candidates \ DOMAIN wallets : i <= j
    /\ \/ /\ wallets' = OrInsert(wallets, i, agent_wallet(i))
          /\ UNCHANGED trouble
       \/ trouble > 0 /\ trouble' = trouble - 1 /\ wallets' = OrInsert(wallets, i, "unread")
    /\ UNCHANGED <<tables, step, pass, b, k, s, c, spans, logs, found, is_contract, authorizations, lost>>

\* Mutant: the rows that say what was covered survive.
ClearPayments_keeps_scans ==
    /\ step = "wallets" /\ DOMAIN wallets = payment_candidates
    /\ targets' = {} /\ payments' = {} /\ lost' = {}
    /\ GoOn("targets") /\ UNCHANGED <<scans, pass, locals, trouble>>

\* clear_payments: one transaction.
ClearPayments ==
    /\ step = "wallets" /\ DOMAIN wallets = payment_candidates
    /\ targets' = {} /\ payments' = {} /\ scans' = {} /\ lost' = {}
    /\ GoOn("targets") /\ UNCHANGED <<pass, locals, trouble>>

\* What run_basis creates anew, with the target rows of every agent.
WriteTargets ==
    /\ step = "targets" /\ b <= Len(Bases)
    /\ targets' = targets \cup UNION {{[agent |-> i, basis |-> Bases[b], address |-> d.address,
                                        ineligible |-> d.ineligible, pass |-> pass] :
                                            d \in targets_for(i, Bases[b])} : i \in payment_candidates}
    /\ is_contract' = <<>> /\ authorizations' = <<>> /\ k' = 1 /\ s' = 1 /\ c' = 1
    /\ IF addresses(Bases[b]) = {}
       THEN b' = b + 1 /\ UNCHANGED step     \* run_basis returns false
       ELSE GoOn("token") /\ UNCHANGED b
    /\ UNCHANGED <<payments, scans, pass, wallets, spans, logs, found, lost, trouble>>

\* connect and metadata; then the first chunk of the first side.
OpenToken ==
    /\ step = "token" /\ k <= Len(Tokens)
    /\ spans' = <<<<Deploy, Pinned>>>> /\ logs' = <<>> /\ found' = 0 /\ s' = 1 /\ c' = 1
    /\ GoOn("scan")
    /\ UNCHANGED <<tables, pass, wallets, b, k, is_contract, authorizations, lost, trouble>>

\* The next basis.
CloseBasis ==
    /\ step = "token" /\ k > Len(Tokens)
    /\ b' = b + 1 /\ GoOn("targets")
    /\ UNCHANGED <<tables, pass, wallets, k, s, c, spans, logs, found, is_contract, authorizations, lost, trouble>>

\* The addresses in one order; c is the first of a chunk.
AddressList == SetToSeq(addresses(Bases[b]))

Chunk == {AddressList[j] : j \in {j \in DOMAIN AddressList : c <= j /\ j < c + TargetsPerQuery}}

Matching(span) ==
    {x \in Transfers : /\ x.token = Tokens[k] /\ x.block \in span[1] .. span[2]
                       /\ Credited(x, Sides[s]) \in Chunk}

Before(x, y) == x.block < y.block \/ (x.block = y.block /\ x.index < y.index)

\* The n-th has n - 1 before it.
InOrder(xs) ==
    [n \in 1 .. Cardinality(xs) |-> CHOOSE x \in xs : Cardinality({y \in xs : Before(y, x)}) = n - 1]

scanOnly == <<tables, pass, wallets, b, k, found, is_contract, authorizations, lost>>

\* Mutant: the same range is asked again.
Halves_again(span) == <<span>>

Halves(span) ==
    LET mid == span[1] + (span[2] - span[1]) \div 2 IN <<<<span[1], mid>>, <<mid + 1, span[2]>>>>

\* transfers_batched: the span on top of the stack is answered,
TransfersAnswer ==
    /\ step = "scan" /\ spans # <<>> /\ Cardinality(Matching(spans[1])) <= MaxLogs
    /\ logs' = logs \o InOrder(Matching(spans[1])) /\ spans' = Tail(spans)
    /\ UNCHANGED <<scanOnly, step, s, c, trouble>>

\* or refused, and split for as long as it can be.
TransfersRefused ==
    /\ step = "scan" /\ spans # <<>>
    /\ \/ Cardinality(Matching(spans[1])) > MaxLogs /\ UNCHANGED trouble
       \/ trouble > 0 /\ trouble' = trouble - 1
    /\ spans[1][1] < spans[1][2]
    /\ spans' = Halves(spans[1]) \o Tail(spans)
    /\ UNCHANGED <<scanOnly, step, s, c, logs>>

NextChunk ==
    /\ step = "scan" /\ spans = <<>> /\ c + TargetsPerQuery <= Len(AddressList)
    /\ c' = c + TargetsPerQuery /\ spans' = <<<<Deploy, Pinned>>>>
    /\ UNCHANGED <<scanOnly, step, s, logs, trouble>>

SideScanned ==
    /\ step = "scan" /\ spans = <<>> /\ c + TargetsPerQuery > Len(AddressList)
    /\ found' = found + Len(logs) /\ GoOn("logs")
    /\ UNCHANGED <<tables, pass, wallets, b, k, s, c, spans, logs, is_contract, authorizations, lost, trouble>>

\* eth_getCode at the pinned block.
has_code(a) == IF a \in HasCode THEN "yes" ELSE "no"

\* The authorizer in the receipt, of the first AuthorizationUsed of this token.
authorization_in_tx(x) == Authorizer[x.tx][x.token]

\* One log: the two caches, then a row for each agent behind the address.
HandleLog ==
    /\ step = "logs" /\ logs # <<>> /\ logs' = Tail(logs)
    /\ LET x == Head(logs)
           side == Sides[s]
           who == Counterparty(x, side)
           read == [code |-> has_code(who), authorizer |-> authorization_in_tx(x)]
       IN  \E answer \in {read} \cup IF trouble > 0
                                     THEN {[read EXCEPT !.code = "unread"], [read EXCEPT !.authorizer = "none"]}
                                     ELSE {},
              failed \in SUBSET reachers(Credited(x, side), Bases[b]) :
             /\ Cardinality(lost) + Cardinality(failed) <= MaxLost
             /\ trouble' = IF answer = read THEN trouble ELSE trouble - 1
             /\ is_contract' = OrInsert(is_contract, who, answer.code)
             /\ authorizations' = OrInsert(authorizations, x.tx, answer.authorizer)
             /\ LET row(i) == Row(x, side, i, is_contract'[who], authorizations'[x.tx])
                    agents == reachers(Credited(x, side), Bases[b])
                IN  /\ payments' = payments \cup {row(i) : i \in agents \ failed}
                    /\ lost' = lost \cup {row(i).key : i \in failed}
    /\ UNCHANGED <<targets, scans, step, pass, wallets, b, k, s, c, spans, found>>

NextSide ==
    /\ step = "logs" /\ logs = <<>> /\ s < Len(Sides)
    /\ s' = s + 1 /\ c' = 1 /\ spans' = <<<<Deploy, Pinned>>>> /\ GoOn("scan")
    /\ UNCHANGED <<scanOnly, logs, trouble>>

\* Written last.
WriteScan ==
    /\ step = "logs" /\ logs = <<>> /\ s = Len(Sides)
    /\ scans' = {r \in scans : ~(r.basis = Bases[b] /\ r.token = Tokens[k])} \cup
                {[basis |-> Bases[b], token |-> Tokens[k], found |-> found, pass |-> pass]}
    /\ k' = k + 1 /\ GoOn("token")
    /\ UNCHANGED <<targets, payments, pass, wallets, b, s, c, spans, logs, found, is_contract, authorizations, lost, trouble>>

\* The process ends: done, an error that leaves main, or killed.
Exit ==
    /\ step' = "idle"
    /\ wallets' = <<>> /\ b' = 1 /\ k' = 1 /\ s' = 1 /\ c' = 1
    /\ spans' = <<>> /\ logs' = <<>> /\ found' = 0
    /\ is_contract' = <<>> /\ authorizations' = <<>>
    /\ UNCHANGED <<tables, pass, lost, trouble>>

Done == step = "targets" /\ b > Len(Bases) /\ Exit

\* A single block is refused.
CannotSplit ==
    /\ step = "scan" /\ spans # <<>> /\ spans[1][1] >= spans[1][2]
    /\ (Cardinality(Matching(spans[1])) > MaxLogs \/ trouble > 0)
    /\ Exit

\* decimals(), or a row of targets or scans, cannot be read or written.
PassAborts == step \in {"targets", "token", "logs"} /\ trouble > 0 /\ Exit

Killed == step # "idle" /\ pass < MaxPasses /\ Exit

PassStep ==
    \/ Start \/ \E i \in Ids : ReadWallet(i)
    \/ ClearPayments \/ WriteTargets \/ OpenToken \/ CloseBasis
    \/ TransfersAnswer \/ TransfersRefused \/ NextChunk \/ SideScanned
    \/ HandleLog \/ NextSide \/ WriteScan \/ Done \/ CannotSplit

readsKept == <<stage, lo, hi, retry, ids, scanning>>

PaymentsNext ==
    \/ ReadNext /\ UNCHANGED passVars
    \/ (PassStep \/ PassAborts \/ Killed) /\ UNCHANGED readsKept

PaymentsSpec ==
    /\ PaymentsInit /\ [][PaymentsNext]_paymentsVars
    /\ WF_paymentsVars(ReadNext /\ UNCHANGED passVars)
    /\ WF_paymentsVars(PassStep /\ UNCHANGED readsKept)

-----------------------------------------------------------------------------
\* What the chain has for a target.
Matches(x, side, tg) == x.block \in Deploy .. Pinned /\ Credited(x, side) = tg.address

\* payments.rs: "Written LAST, so a crash mid-scan leaves no row claiming this
\* range was covered", and store.rs, of a second pass: no rows "judged under
\* two different rule_versions in one run".  Where there is a scan row, every
\* transfer on either side of an eligible address of that basis has a row of
\* the same pass for each agent behind it, or is one the pass failed to
\* write; and transfers_found is the number of logs.
ScanRowMeansCovered ==
    \A sc \in scans :
        LET eligible == {tg \in targets : tg.basis = sc.basis /\ tg.ineligible = "none"}
            due(side) == {x \in Transfers : x.token = sc.token /\ \E tg \in eligible : Matches(x, side, tg)}
        IN  /\ eligible # {} /\ \A tg \in eligible : tg.pass = sc.pass
            /\ sc.found = Cardinality(due("in")) + Cardinality(due("out"))
            /\ \A tg \in eligible, side \in {"in", "out"} : \A x \in due(side) :
                  Matches(x, side, tg) =>
                    LET key == [agent |-> tg.agent, basis |-> sc.basis, side |-> side, log |-> x]
                    IN  key \in lost \/ \E r \in payments : r.key = key /\ r.pass = sc.pass

\* The address is the agent's, on that basis, and is not just its owner's.
IsPayee(i, address, basis) ==
    IF basis = "verified_wallet" THEN address = Wallet[i] /\ address # Owner[i]
                                 ELSE address \in declared_wallets(i)

\* What the chain says a payment to an agent is, whatever was read of it.
Earned(i, x, basis) ==
    /\ x.block >= Earliest(i) /\ x.block <= Pinned
    /\ IsPayee(i, x.to, basis)
    /\ x.sender \notin {Owner[i], x.to}
    /\ {x.sender, x.to} \cap Burn = {}

\* A row is counted if and only if the agent earned it and its mint block is
\* known (METHODOLOGY section 8, exclusions.rs): a scan of the registrations
\* that failed, a wallet that could not be read or an address shared by two
\* agents never turns an owner's funding, a transfer from before the agent
\* existed or somebody else's income into a payment.
CountedIsEarned ==
    \A r \in payments :
        r.verdict = "counted" <=>
            r.key.side = "in" /\ registrations # <<>> /\ Earned(r.key.agent, r.key.log, r.key.basis)

\* The reads before the first agent end, and so does every pass.
PassEnds == <>(stage \in {"read", "bailed"}) /\ (step # "idle" ~> step = "idle")

=============================================================================
