---------------------------- MODULE MC_UdpRouter ----------------------------
(* Model-checking instance of UdpRouter: two addresses, either of which    *)
(* may forge the other's, one info hash, two connection ids.               *)
EXTENDS UdpRouter

MC_PeersWanted == {0, 1}
MC_ClientEvents == {"Started", "Completed", "Stopped"}

\* Addresses and connection ids are interchangeable names.
MC_Symmetry == Permutations(PeerIds) \cup Permutations(ConnIds)
=============================================================================
