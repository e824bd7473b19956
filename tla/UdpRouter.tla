------------------------------ MODULE UdpRouter ------------------------------
(***************************************************************************)
(* The announce path of the glommio UDP tracker, composed of two workers:  *)
(*                                                                         *)
(*  - the socket worker's read task (read_requests in                      *)
(*    src/aquatic_udp/src/lib/glommio/network.rs): the Connect, Announce   *)
(*    and sendable-error arms, the ConnectionMap and its two timers, the   *)
(*    access-list check and the awaited send_to to the request worker;    *)
(*  - the request worker (run_request_worker in                            *)
(*    src/aquatic_udp/src/lib/handlers.rs), whose swarm store is the       *)
(*    SwarmStore module, and its try_send_to of the response;              *)
(*  - the socket worker's response task (handle_shared_responses) and the  *)
(*    local channel drained by run_socket_worker onto the socket.          *)
(*                                                                         *)
(* UDP source addresses can be forged: a client may send a datagram with   *)
(* any source address, but only learns the connection ids of the connect   *)
(* responses sent to its own address.  Connection ids are 64 random bits   *)
(* (rng.gen()), so a client never guesses one it was not sent, and two     *)
(* connects never draw the same id.  The peer entry the request worker     *)
(* stores is keyed by the announcing address (the peer id a client sends   *)
(* is taken to be its address).  One request worker (request_workers = 1), *)
(* so calculate_request_consumer_index is always 0.                        *)
(***************************************************************************)
EXTENDS Integers, Sequences, FiniteSets, Functions, TLC

CONSTANTS
    InfoHashes, PeerIds, PeersWanted, MaxResponsePeers, MaxPeerAge, MaxTime,
    ConnIds,         \* connection ids the rng can draw (model values)
    ClientEvents,    \* announce events clients send, a subset of Events
    MaxConnAge,      \* config.cleaning.max_connection_age
    ReqCap,          \* capacity of the socket -> request worker channel
    RespCap,         \* capacity of the request worker -> socket channel
    MaxDatagrams     \* datagrams the clients send in all

VARIABLES
    torrents, allowed, now, response,  \* the request worker's SwarmStore
    conns,      \* ConnectionMap: <<connection id, address>> -> valid_until
    connVU,     \* connection_valid_until, refreshed by a timer
    outbox,     \* the request the read task is awaiting send_to for, or None
    reqChan,    \* socket -> request worker channel
    respChan,   \* request worker -> socket channel
    local,      \* the socket worker's unbounded local channel
    known,      \* address -> connection ids in responses it has received
    issued,     \* connection ids drawn so far (rng.gen(), never twice)
    origin,     \* <<info hash, address>> -> sender of the announce that
                \* last stored that peer (history)
    datagrams   \* datagrams sent so far

storeVars  == <<torrents, allowed, now, response>>
routerVars == <<conns, connVU, outbox, reqChan, respChan, local, known, issued,
                origin, datagrams>>
vars == <<storeVars, routerVars>>

Store == INSTANCE SwarmStore

Addrs == PeerIds
None  == [kind |-> "none"]

(***************************************************************************)
(* ConnectionMap (common/network.rs, outside src/): a map from the pair of *)
(* connection id and source address to its ValidUntil.                    *)
(***************************************************************************)
ContainsIgnoringAddr(cid, src) == \E a \in Addrs : <<cid, a>> \in DOMAIN conns
Contains(cid, src) == <<cid, src>> \in DOMAIN conns
\* ConnectionMap::clean: keep the entries whose valid_until is still valid.
CleanConns(m) == Restrict(m, {k \in DOMAIN m : m[k] > now})

Respond(dst, kind, cid) == Append(local, [dst |-> dst, kind |-> kind, cid |-> cid])

(***************************************************************************)
(* read_requests, one datagram sent by `sender` with source address src:   *)
(*  - Connect: draw an id, insert (id, src) valid until the current        *)
(*    connection_valid_until, and answer on the local channel;             *)
(*  - Announce: if the map contains (id, src) and the access list allows  *)
(*    the info hash, send_to the request worker (awaited: the read task   *)
(*    reads nothing more until it is sent); if not allowed, answer an     *)
(*    error; an unknown connection is dropped silently;                   *)
(*  - a sendable parse error: answer an error iff the map contains (id,   *)
(*    src).                                                                *)
(***************************************************************************)
ReadConnect(sender, src) ==
    \E cid \in ConnIds \ issued :
        /\ issued' = issued \cup {cid}
        /\ conns' = conns @@ (<<cid, src>> :> connVU)
        /\ local' = Respond(src, "connect", cid)
        /\ UNCHANGED outbox
ReadAnnounce(sender, src, cid) ==
    \E ih \in InfoHashes, ev \in ClientEvents, left \in Store!BytesLeft,
       w \in PeersWanted :
        /\ IF ~Contains(cid, src) THEN UNCHANGED <<local, outbox>>
           ELSE IF Store!Allows(ih)
           THEN /\ outbox' = [kind |-> "announce", src |-> src, sender |-> sender,
                              ih |-> ih, event |-> ev, left |-> left, wanted |-> w]
                /\ UNCHANGED local
           ELSE /\ local' = Respond(src, "error", cid)
                /\ UNCHANGED outbox
        /\ UNCHANGED <<conns, issued>>
ReadSendableError(sender, src, cid) ==
    /\ local' = IF Contains(cid, src) THEN Respond(src, "error", cid) ELSE local
    /\ UNCHANGED <<conns, issued, outbox>>
ReadRequest(sender) ==
    /\ outbox = None
    /\ datagrams < MaxDatagrams
    /\ datagrams' = datagrams + 1
    /\ \E src \in Addrs :
         \/ ReadConnect(sender, src)
         \/ \E cid \in known[sender] :
              ReadAnnounce(sender, src, cid) \/ ReadSendableError(sender, src, cid)
    /\ UNCHANGED <<storeVars, connVU, reqChan, respChan, known, origin>>

\* The awaited request_senders.send_to: it completes once the channel has room.
SendTo ==
    /\ outbox # None
    /\ Len(reqChan) < ReqCap
    /\ reqChan' = Append(reqChan, outbox)
    /\ outbox' = None
    /\ UNCHANGED <<storeVars, conns, connVU, respChan, local, known, issued,
                   origin, datagrams>>

\* ConnectedResponseSender::try_send_to: a full channel drops the response.
TrySendTo(ch, m) == IF Len(ch) < RespCap THEN Append(ch, m) ELSE ch

(***************************************************************************)
(* run_request_worker: receive an announce, handle it against the swarm   *)
(* store (peer valid until now + max_peer_age), and try_send_to the        *)
(* response back, dropping it if the channel is full.                      *)
(***************************************************************************)
RequestWorker ==
    LET r == Head(reqChan)
        status == Store!FromEventAndBytesLeft(r.event, r.left)
    IN /\ reqChan # <<>>
       /\ Store!Announce(r.ih, r.src, r.event, r.left, r.wanted)
       /\ reqChan' = Tail(reqChan)
       /\ respChan' = TrySendTo(respChan, [dst |-> r.src, kind |-> "announce"])
       /\ origin' = IF status = Store!Stopped THEN origin
                    ELSE [origin EXCEPT ![<<r.ih, r.src>>] = r.sender]
       /\ UNCHANGED <<conns, connVU, outbox, local, known, issued, datagrams>>

\* handle_shared_responses: an announce response goes on the local channel.
HandleSharedResponses ==
    /\ respChan # <<>>
    /\ local' = Append(local, [dst |-> Head(respChan).dst, kind |-> "announce",
                               cid |-> "none"])
    /\ respChan' = Tail(respChan)
    /\ UNCHANGED <<storeVars, conns, connVU, outbox, reqChan, known, issued,
                   origin, datagrams>>

\* run_socket_worker's loop: the response is sent to its address.
SendResponse ==
    LET m == Head(local)
    IN /\ local # <<>>
       /\ local' = Tail(local)
       /\ known' = IF m.kind = "connect"
                   THEN [known EXCEPT ![m.dst] = @ \cup {m.cid}] ELSE known
       /\ UNCHANGED <<storeVars, conns, connVU, outbox, reqChan, respChan, issued,
                      origin, datagrams>>

\* The two timers of read_requests on the connection map.
RefreshConnectionValidUntil ==
    /\ connVU' = now + MaxConnAge
    /\ connVU' # connVU
    /\ UNCHANGED <<storeVars, conns, outbox, reqChan, respChan, local, known,
                   issued, origin, datagrams>>
CleanConnections ==
    /\ conns' = CleanConns(conns)
    /\ conns' # conns
    /\ UNCHANGED <<storeVars, connVU, outbox, reqChan, respChan, local, known,
                   issued, origin, datagrams>>

Init ==
    /\ Store!Init
    /\ conns = <<>>
    /\ connVU = MaxConnAge
    /\ outbox = None
    /\ reqChan = <<>> /\ respChan = <<>> /\ local = <<>>
    /\ known = [a \in Addrs |-> {}]
    /\ issued = {}
    /\ origin = [p \in InfoHashes \X Addrs |-> "none"]
    /\ datagrams = 0

Next ==
    \/ \E c \in Addrs : ReadRequest(c)
    \/ SendTo \/ RequestWorker \/ HandleSharedResponses \/ SendResponse
    \/ RefreshConnectionValidUntil \/ CleanConnections
    \/ /\ Store!Tick \/ Store!Clean \/ \E s \in SUBSET InfoHashes : Store!UpdateAccessList(s)
       /\ UNCHANGED routerVars

Spec == Init /\ [][Next]_vars

\* TorrentMaps::clean has no caller (handlers.rs, "TODO: clean torrent map");
\* Store!Clean stays in Next so that the swarm store's P1 covers it.

-----------------------------------------------------------------------------
Message == [dst : Addrs, kind : {"connect", "error", "announce"},
            cid : ConnIds \cup {"none"}]

(* The channels stay within their capacities, the local channel holds     *)
(* responses, and a client only knows connection ids that were drawn.     *)
RouterTypeOK ==
    /\ Store!TypeOK
    /\ Len(reqChan) <= ReqCap /\ Len(respChan) <= RespCap
    /\ \A i \in 1..Len(local) : local[i] \in Message
    /\ \A a \in Addrs : known[a] \subseteq issued
    /\ DOMAIN conns \subseteq issued \X Addrs

(* The swarm store's counters and announce responses, under the requests  *)
(* the socket worker actually forwards (SwarmStore P1 and its response).  *)
CountersMatchPeers == Store!CountersMatchPeers
AnnounceResponseSound == Store!AnnounceResponseSound

(* The spoofing protection of connection ids (spec section 3): a client    *)
(* that forges another address can only reach the swarm store with a     *)
(* connection id sent to that address, which it never sees; so every     *)
(* peer stored under an address was last announced by that address        *)
(* itself.  It rests on ConnectionMap::contains checking the id against   *)
(* the datagram's source address, and on connect responses going to the  *)
(* source the connect came from.                                           *)
PeersStoredOnlyByTheirOwner ==
    \A ih \in DOMAIN torrents :
        \A a \in DOMAIN torrents[ih].peers : origin[<<ih, a>>] = a

=============================================================================
