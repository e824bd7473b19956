----------------------- MODULE MC_ConnectionValidator -----------------------
(* Model-checking instance of ConnectionValidator: two client addresses,  *)
(* a 1-bit elapsed field, so that the clock wraps it once by MaxTime.    *)
EXTENDS ConnectionValidator

\* Client addresses are interchangeable names.
MC_Symmetry == Permutations(Ips)
=============================================================================
