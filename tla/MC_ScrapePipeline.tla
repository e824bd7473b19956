-------------------------- MODULE MC_ScrapePipeline --------------------------
(***************************************************************************)
(* Two request workers and info hashes whose first bytes 0, 1, 2 route to  *)
(* shards 0, 1, 0, so a scrape of three hashes is split in two with the    *)
(* shard-0 part holding the non-adjacent indices 0 and 2.                  *)
(***************************************************************************)
EXTENDS ScrapePipeline

CONSTANTS c1, c2, t1, t2

\* Distinct transaction ids, each sent once: the case the registry supports.
MC_Requests ==
    { [src |-> c1, tid |-> t1, hashes |-> <<0, 1, 2>>],
      [src |-> c2, tid |-> t2, hashes |-> <<1, 0>>] }

\* One client retransmits its scrape with the same transaction id.
MC_RetransmitRequests ==
    { [src |-> c1, tid |-> t1, hashes |-> <<0, 1, 2>>] }

\* A scrape with no info hashes, which Request::from_bytes accepts.
MC_EmptyRequests ==
    { [src |-> c1, tid |-> t1, hashes |-> <<>>] }
=============================================================================
