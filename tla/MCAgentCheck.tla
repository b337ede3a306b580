---------------------------- MODULE MCAgentCheck ----------------------------
(***************************************************************************)
(* An instance of AgentCheck for TLC: the documents rung 4 and 5 tell      *)
(* apart, with the agent's entry alone, second, incomplete or of another.  *)
(***************************************************************************)
EXTENDS AgentCheck

MCActual == [agent |-> 1, chain |-> 8453, registry |-> "registry"]

Mine == Entry(1, "triple", "eip155", 8453, "registry")
OtherChain == Entry(1, "triple", "eip155", 1, "registry")
OtherAgent == Entry(2, "triple", "eip155", 8453, "registry")
NoId == Entry(Absent, "triple", "eip155", 8453, "registry")
Malformed == Entry(1, "malformed", "none", Absent, "none")

MCDocuments ==
    {<<>>, <<Mine>>, <<OtherChain, Mine>>, <<OtherAgent>>, <<NoId>>, <<Malformed, OtherChain>>}
=============================================================================
