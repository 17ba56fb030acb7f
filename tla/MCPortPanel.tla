---------------------------- MODULE MCPortPanel ----------------------------
(***************************************************************************)
(* A small instance of PortPanel for TLC: DNS, which stands in the catalog *)
(* with both protocols, and a port that is listed only while it listens.   *)
(***************************************************************************)
EXTENDS PortPanel, TLC

CONSTANTS dns, other

MCProtocol == [p \in Ports |-> IF p = dns THEN "UDP/TCP" ELSE "TCP"]

Symmetry == Permutations(Requests)
=============================================================================
