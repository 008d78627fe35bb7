--------------------------- MODULE MCRelayBilling ---------------------------
(* Small instances of RelayBilling: one user, two requests, two nodes.      *)
EXTENDS RelayBilling, TLC

CONSTANTS r1, r2, n1, n2, u1

\* The requests are interchangeable, and so are the nodes.
Symmetry == Permutations(Requests) \cup Permutations(Nodes)
=============================================================================
