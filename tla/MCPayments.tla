----------------------------- MODULE MCPayments -----------------------------
(***************************************************************************)
(* An instance of Payments for TLC: three agents exist at the pinned block *)
(* and a fourth is minted after it; two of them share an address, one has  *)
(* the contract's default wallet; one transaction moves both tokens.       *)
(***************************************************************************)
EXTENDS Payments

Mint(i, at, by) == [id |-> i, block |-> at, tx |-> by]
MCRegistered == {Mint(0, 1, "m0"), Mint(1, 2, "m1"), Mint(2, 2, "m1"), Mint(0, 4, "m2"), Mint(3, 7, "m3")}
MCSender == [tx \in {"m0", "m1", "m2", "m3"} |-> IF tx = "m1" THEN "batcher" ELSE tx]

MCOwner == (0 :> "o0") @@ (1 :> "o1") @@ (2 :> "o2") @@ (3 :> "o3")
MCWallet == (0 :> "w0") @@ (1 :> "o1") @@ (2 :> "shared") @@ (3 :> "none")
Names(a) == [name |-> "agentWallet", address |-> a]
MCServices == (0 :> <<Names("w0"), Names("zero"), Names("AGENT_WALLET")>>) @@ (1 :> <<Names("shared")>>)
    @@ (2 :> <<[name |-> "web", address |-> "w0"], Names("shared")>>) @@ (3 :> <<>>)
MCAddresses == {"w0", "shared", "zero", "dead", "o0", "o1", "o2", "o3"}

Log(tx, index, token, sender, to, block) ==
    [tx |-> tx, index |-> index, token |-> token, sender |-> sender, to |-> to, block |-> block]
MCTransfers ==
    {Log("t0", 0, "usdc", "payer", "shared", 1), Log("t1", 0, "usdc", "vault", "shared", 3),
     Log("t1", 1, "dai", "vault", "shared", 3), Log("t2", 0, "usdc", "o1", "shared", 4),
     Log("t3", 0, "usdc", "shared", "w0", 6), Log("t4", 0, "usdc", "payer", "o1", 5),
     Log("t5", 0, "usdc", "payer", "w0", 7)}
MCAuthorizer == [tx \in {"t0", "t1", "t2", "t3", "t4", "t5"} |->
    [token \in {"usdc", "dai"} |-> IF tx = "t1" /\ token = "usdc" THEN "vault" ELSE "none"]]
MCTokens == <<"usdc", "dai">>
MCBases == <<"verified_wallet", "declared_wallet">>
=============================================================================
