----------------------------- MODULE SwarmStore -----------------------------
(***************************************************************************)
(* The swarm store of one request (swarm) worker of the UDP tracker:       *)
(* TorrentMaps / TorrentData of src/aquatic_udp/src/lib/common/mod.rs and  *)
(* the announce handler of src/aquatic_udp/src/lib/handlers.rs.            *)
(*                                                                         *)
(* A swarm is a record [peers, numSeeders, numLeechers]; peers maps a      *)
(* PeerId to [status, validUntil].  Time is the whole number of seconds    *)
(* since the server started.  The IPv4 and IPv6 maps are the same code     *)
(* instantiated twice and never interact, so one family is modelled.  The  *)
(* insertion order of the IndexMap only steers which window of peers the   *)
(* sampler returns; it is abstracted by letting the sampler return any     *)
(* window of the right size (every k-subset is a window of some order).    *)
(***************************************************************************)
EXTENDS Integers, FiniteSets, FiniteSetsExt, Functions, TLC

CONSTANTS
    InfoHashes,        \* info hashes clients announce (model values)
    PeerIds,           \* peer ids (model values)
    PeersWanted,       \* values of the i32 num_want field clients send
    MaxResponsePeers,  \* config.protocol.max_response_peers
    MaxPeerAge,        \* config.cleaning.max_peer_age, seconds
    MaxTime            \* bound on the clock, so the model is finite

ASSUME MaxResponsePeers \in Nat /\ MaxPeerAge \in Nat /\ MaxTime \in Nat
ASSUME PeersWanted \subseteq Int

VARIABLES
    torrents,   \* TorrentMap: info hash -> swarm, for the info hashes present
    allowed,    \* info hashes the current access list allows
    now,        \* seconds since server start
    response    \* the last announce response produced (an observation)

vars == <<torrents, allowed, now, response>>

Seeding  == "Seeding"
Leeching == "Leeching"
Stopped  == "Stopped"

\* AnnounceEvent; the parser only produces these four (request.rs 211-217).
Events == {"None", "Completed", "Started", "Stopped"}
\* bytes_left: zero, or some positive amount (only zero vs non-zero matters).
BytesLeft == {0, 1}

NoResponse == [sender |-> "none"]

EmptyTorrent == [peers |-> <<>>, numSeeders |-> 0, numLeechers |-> 0]

Put(f, k, v) == [x \in DOMAIN f \cup {k} |-> IF x = k THEN v ELSE f[x]]
Remove(f, k) == Restrict(f, DOMAIN f \ {k})

PeersWith(t, s) == {p \in DOMAIN t.peers : t.peers[p].status = s}

(***************************************************************************)
(* Access list (aquatic_common, outside src/): the mode and the file are  *)
(* abstracted to the set of info hashes it allows.                         *)
(***************************************************************************)
Allows(ih) == ih \in allowed

\* PeerStatus::from_event_and_bytes_left
FromEventAndBytesLeft(event, left) ==
    IF event = "Stopped" THEN Stopped
    ELSE IF left = 0 THEN Seeding
    ELSE Leeching

\* calc_max_num_peers_to_take: num_want <= 0 means the configured maximum.
CalcMaxNumPeersToTake(wanted) ==
    IF wanted <= 0 THEN MaxResponsePeers
    ELSE IF MaxResponsePeers < wanted THEN MaxResponsePeers ELSE wanted

(***************************************************************************)
(* extract_response_peers (aquatic_common, modelled from spec 4.5.1): the  *)
(* set of samples it may return.  A map of at most k+1 peers is returned   *)
(* whole minus the sender; otherwise a window of k peers minus the sender. *)
(***************************************************************************)
ExtractResponsePeersNoFilter(m, k, sender) ==
    IF Cardinality(DOMAIN m) <= k + 1 THEN {DOMAIN m}
    ELSE {w \ {sender} : w \in kSubset(k, DOMAIN m)}
ExtractResponsePeers(m, k, sender) ==
    IF Cardinality(DOMAIN m) <= k + 1 THEN {DOMAIN m \ {sender}}
    ELSE {w \ {sender} : w \in kSubset(k, DOMAIN m)}

\* The match on peer_status: count the new status in, insert or remove.
InsertOrRemoveStopDecrements(t, pid, status, validUntil) ==
    LET peer == [status |-> status, validUntil |-> validUntil]
    IN CASE status = Leeching ->
              [t EXCEPT !.numLeechers = @ + 1, !.peers = Put(@, pid, peer)]
         [] status = Seeding ->
              [t EXCEPT !.numSeeders = @ + 1, !.peers = Put(@, pid, peer)]
         [] status = Stopped ->
              [t EXCEPT !.numLeechers = @ - 1, !.peers = Remove(@, pid)]
InsertOrRemove(t, pid, status, validUntil) ==
    LET peer == [status |-> status, validUntil |-> validUntil]
    IN CASE status = Leeching ->
              [t EXCEPT !.numLeechers = @ + 1, !.peers = Put(@, pid, peer)]
         [] status = Seeding ->
              [t EXCEPT !.numSeeders = @ + 1, !.peers = Put(@, pid, peer)]
         [] status = Stopped ->
              [t EXCEPT !.peers = Remove(@, pid)]

\* The match on opt_removed_peer: count the replaced or removed peer out.
AfterRemovalNoSeeding(t, removed) ==
    IF removed = Leeching THEN [t EXCEPT !.numLeechers = @ - 1] ELSE t
AfterRemoval(t, removed) ==
    CASE removed = Leeching -> [t EXCEPT !.numLeechers = @ - 1]
      [] removed = Seeding  -> [t EXCEPT !.numSeeders = @ - 1]
      [] OTHER              -> t

(***************************************************************************)
(* handle_announce_request / handle_announce_request_inner: the peer's     *)
(* entry is valid until now + max_peer_age (run_request_worker), the swarm *)
(* is created if absent (also for a Stopped announce), the counters are    *)
(* adjusted, and a sample of the swarm is answered with its counters.      *)
(***************************************************************************)
Announce(ih, pid, event, left, wanted) ==
    LET status  == FromEventAndBytesLeft(event, left)
        t0      == IF ih \in DOMAIN torrents THEN torrents[ih] ELSE EmptyTorrent
        removed == IF pid \in DOMAIN t0.peers THEN t0.peers[pid].status ELSE "none"
        t1      == AfterRemoval(InsertOrRemove(t0, pid, status, now + MaxPeerAge),
                                removed)
        k       == CalcMaxNumPeersToTake(wanted)
    IN \E sample \in ExtractResponsePeers(t1.peers, k, pid) :
         /\ torrents' = Put(torrents, ih, t1)
         /\ response' = [sender |-> pid, peers |-> sample, take |-> k,
                         swarm |-> t1.peers, senderStatus |-> status,
                         seeders |-> t1.numSeeders, leechers |-> t1.numLeechers]
         /\ UNCHANGED <<allowed, now>>

\* clean_torrent_and_peers: drop peers with valid_until <= now, count them out.
CleanTorrentAndPeers(t) ==
    LET keep == {p \in DOMAIN t.peers : t.peers[p].validUntil > now}
        gone == DOMAIN t.peers \ keep
    IN [peers       |-> Restrict(t.peers, keep),
        numSeeders  |-> t.numSeeders
                          - Quantify(gone, LAMBDA p : t.peers[p].status = Seeding),
        numLeechers |-> t.numLeechers
                          - Quantify(gone, LAMBDA p : t.peers[p].status = Leeching)]

\* TorrentMaps::clean: keep a swarm iff it is allowed and keeps a peer.
Clean ==
    LET kept == {ih \in DOMAIN torrents :
                   Allows(ih) /\ DOMAIN CleanTorrentAndPeers(torrents[ih]).peers # {}}
    IN /\ torrents' = [ih \in kept |-> CleanTorrentAndPeers(torrents[ih])]
       /\ UNCHANGED <<allowed, now, response>>

\* The access list file is reloaded and swapped in (aquatic_common).
UpdateAccessList(s) ==
    /\ allowed' = s
    /\ UNCHANGED <<torrents, now, response>>

Tick ==
    /\ now < MaxTime
    /\ now' = now + 1
    /\ UNCHANGED <<torrents, allowed, response>>

Init ==
    /\ torrents = <<>>
    /\ allowed \in SUBSET InfoHashes
    /\ now = 0
    /\ response = NoResponse

Next ==
    \/ \E ih \in InfoHashes, pid \in PeerIds, ev \in Events, left \in BytesLeft,
          w \in PeersWanted : Announce(ih, pid, ev, left, w)
    \/ Clean
    \/ \E s \in SUBSET InfoHashes : UpdateAccessList(s)
    \/ Tick

Spec == Init /\ [][Next]_vars

\* run_request_worker (handlers.rs) only ever handles requests; it never
\* calls TorrentMaps::clean (its "TODO: clean torrent map") and no other
\* code does, so in the running tracker Clean never happens.  Clean is kept
\* in Next: P1 is about what cleaning would do to the counters.

-----------------------------------------------------------------------------
(***************************************************************************)
(* Properties                                                              *)
(***************************************************************************)

Peer == [status : {Seeding, Leeching}, validUntil : 0..(MaxTime + MaxPeerAge)]

(* Swarms hold only Seeding or Leeching peers with counters in range.     *)
TypeOK ==
    /\ DOMAIN torrents \subseteq InfoHashes
    /\ \A ih \in DOMAIN torrents :
         /\ DOMAIN torrents[ih].peers \subseteq PeerIds
         /\ \A p \in DOMAIN torrents[ih].peers : torrents[ih].peers[p] \in Peer
         /\ torrents[ih].numSeeders \in Nat
         /\ torrents[ih].numLeechers \in Nat
    /\ allowed \subseteq InfoHashes
    /\ now \in 0..MaxTime

(* P1, about the counter updates of handle_announce_request_inner and the  *)
(* retain closure of clean_torrent_and_peers: in every swarm num_seeders   *)
(* and num_leechers equal the number of stored Seeding and Leeching peers, *)
(* after any sequence of announces (status changes, re-announces, stops of *)
(* absent peers) interleaved with cleaning and access-list swaps.          *)
CountersMatchPeers ==
    \A ih \in DOMAIN torrents :
        /\ torrents[ih].numSeeders  = Cardinality(PeersWith(torrents[ih], Seeding))
        /\ torrents[ih].numLeechers = Cardinality(PeersWith(torrents[ih], Leeching))

(* The announce response is built from the swarm after the update: its     *)
(* seeders and leechers are the true counts of that swarm, and its peers   *)
(* are stored peers of the swarm other than the announcing peer.           *)
AnnounceResponseSound ==
    response # NoResponse =>
        /\ response.sender \notin response.peers
        /\ response.peers \subseteq DOMAIN response.swarm
        /\ response.seeders =
             Cardinality({p \in DOMAIN response.swarm : response.swarm[p].status = Seeding})
        /\ response.leechers =
             Cardinality({p \in DOMAIN response.swarm : response.swarm[p].status = Leeching})

=============================================================================
