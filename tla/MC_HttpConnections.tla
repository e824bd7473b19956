------------------------- MODULE MC_HttpConnections -------------------------
(***************************************************************************)
(* Two connections over two slab slots (MC_HttpConnections.cfg): a slot   *)
(* vacated by a closed or cleaned connection is handed to the connection  *)
(* accepted after it.                                                      *)
(***************************************************************************)
EXTENDS HttpConnections, TLC

MC_Symmetry == Permutations(Conns)

\* Body lengths of the responses, with content lengths of 3 digits (an
\* announce) and of 2 digits (the rest), so that a shorter response follows
\* a longer one on a keep-alive connection.
MC_BodyLen == [announce |-> 98, denied |-> 40, scrape1 |-> 50, scrape2 |-> 90, invalid |-> 30]
=============================================================================
