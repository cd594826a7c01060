--------------------------- MODULE MCSessionServer ---------------------------
(* TLC instance of SessionServer: the sessions, the clients and the connections
   are interchangeable. *)
EXTENDS SessionServer, TLC

Symmetry == Permutations(Sessions) \cup Permutations(Clients) \cup Permutations(Conns)
=============================================================================
