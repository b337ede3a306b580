---------------------------- MODULE MCSellerWeek ----------------------------
(***************************************************************************)
(* Two weeks.  Alma's listings spell her EVM address two ways, on one host *)
(* with Bob; Sol is paid on Solana, on another host; Odd's listing has no  *)
(* readable address.                                                      *)
(***************************************************************************)
EXTENDS SellerWeek

Address(who, shape, mixed) == [who |-> who, shape |-> shape, mixed |-> mixed]
Alma == Address("alma", "hex", TRUE)
Bob == Address("bob", "hex", FALSE)
Sol == Address("sol", "base58", TRUE)
Usdc == Address("usdc", "hex", FALSE)

Listing(payee, network, host, path) ==
    [pay_to |-> payee, network |-> network, resource |-> [host |-> host, path |-> path],
     amount |-> path % 3, asset |-> Usdc]

ThisWeek == <<Listing(Alma, "base", "shop", 1),
              Listing([Alma EXCEPT !.mixed = FALSE], Base, "shop", 2)>>
ThatWeek == <<Listing(Alma, "base", "shop", 1), Listing(Bob, Base, "shop", 4),
              Listing(Sol, "solana", "mall", 5), Listing(Address("odd", "odd", FALSE), Base, "mall", 6)>>
MCCatalogs == {ThisWeek, ThatWeek}

Quote(payee, network) ==
    [pay_to |-> payee, network |-> network, asset |-> Usdc, amount |-> 1, whole |-> TRUE]
Wire(code, accepts) ==
    [code |-> code, allows_post |-> TRUE, body |-> "accepts", accepts |-> accepts]
Server(robots, get, post) == [robots |-> robots, get |-> get, post |-> post]

\* Quotes, by GET or by POST; too busy; off limits; gone; sells nothing.
Paid == <<[Quote(Bob, "base") EXCEPT !.whole = FALSE], Quote(Alma, Base), Quote(Sol, "solana")>>
MCServers(r) ==
    IF r.host = "shop"
    THEN {Server("allowed", Wire(402, Paid), Wire(0, <<>>)),
          Server("allowed", Wire(429, <<>>), Wire(0, <<>>)),
          Server("disallowed", Wire(402, Paid), Wire(0, <<>>)),
          Server("allowed", Wire(405, <<>>), Wire(402, Paid))}
    ELSE {Server("allowed", Wire(0, <<>>), Wire(0, <<>>)),
          Server("allowed", Wire(405, <<>>), Wire(404, <<>>))}

Transfer(id, from, to, block) == [id |-> id, from |-> from, to |-> to, block |-> block]
MCTransfers == {Transfer(1, "payer", "alma", 1), Transfer(2, "payer", "alma", 2),
                Transfer(3, "shopper", "alma", 3), Transfer(4, "alma", "alma", 4),
                Transfer(5, "payer", "bob", 4), Transfer(6, "shopper", "bob", 5)}
MCHeads == {4}

MCBefore(a, b) == \/ a.who = "alma" /\ b.who # "alma"
                  \/ a.who = "bob" /\ b.who = "sol"
=============================================================================
