------------------------------ MODULE MCZeroTrust ------------------------------
(* An administrator abroad, who can get to MEDIUM, the same from the office, *)
(* and a request that cannot be read.                                        *)
EXTENDS ZeroTrust, TLC

Request(role, location, network) ==
  [user |-> "u", device |-> "d", role |-> role, location |-> location, network |-> network]

SomeRequests ==
  {Request("admin", "abroad", "public"), Request("admin", "office", "corporate"),
   Request("malformed", "", "")}
==============================================================================
