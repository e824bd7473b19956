# TLA+ models of the aquatic tracker

This directory holds TLA+ models of aquatic, a UDP/HTTP/WebSocket BitTorrent
tracker. Each module is translated from the Rust sources under `src/`.
`PROJECT.json` records three things: which definition models which source
lines, which run checks which property, and the hazards the models cover.

## The system

The UDP tracker's fast path has these parts:

- **Codec** (`crates/udp_protocol/src/request.rs`, `aquatic_udp_protocol/src/response.rs`)
  - Parses datagrams into Connect, Announce and Scrape requests.
  - Scrape lists are cut to `max_scrape_torrents`.
- **Connection validator** (`crates/udp/src/workers/socket/validator.rs`)
  - Mints connection ids: 4 bytes of seconds since start (u32), then 4 bytes of keyed BLAKE3 over those seconds and the client IP.
  - Accepts an id only from the IP it was minted for, for less than `max_connection_age`, and never with a timestamp from the future.
- **Socket workers**
  - Two generations are in the tree: glommio (`aquatic_udp/src/lib/glommio/network.rs`) and mio (`crates/udp/src/workers/socket/mio.rs`).
  - A socket worker reads datagrams, checks connection ids, and routes each request to a request worker by `info_hash[0] % request_workers`.
  - It splits multi-hash scrapes by shard and reassembles them in a pending-scrape registry.
- **Request (swarm) workers** (`aquatic_udp/src/lib/handlers.rs`)
  - Each owns a `TorrentMaps` (`aquatic_udp/src/lib/common/mod.rs`): info hash → swarm (peers and seeder/leecher counters).
  - Answers announces and scrapes through a bounded channel with `try_send_to`, which drops the response when the channel is full.
- **HTTP socket worker** (`aquatic_http/src/workers/socket.rs`)
  - A glommio task per connection, with keep-alive, idle cleaning and split scrapes.
- **WebSocket**
  - A mio connection state machine (`aquatic_ws/src/mio/socket/connection.rs`): TLS handshake → WS handshake → established, with a 16-message send queue.
  - An older mio network loop and handler (`aquatic_ws/src/lib/network.rs`, `handler.rs`).

The parts interact only by messages:

- socket worker → request worker: bounded channels, one per pair.
- request worker → socket worker: bounded channels, indexed by the originating socket worker.

The access list is an atomically swapped set of allowed info hashes. It lives in
`aquatic_common`, which is not under `src/`, so it is modelled from the spec.

## Modules

| Module | Models | State | Actions |
|---|---|---|---|
| `SwarmStore` | `TorrentMaps`, `handle_announce_request(_inner)`, `TorrentMaps::clean`, `clean_torrent_and_peers` (kept as an action although `run_request_worker` never calls it, so that P1 covers what cleaning does to the counters) (no run of its own: it is checked inside `UdpRouter`, which drives `Announce` with the requests the socket worker forwards) | `torrents` (info hash → `[peers, numSeeders, numLeechers]`), `allowed`, `now`, the last announce `response` | `Announce(ih, pid, event, left, numWant)`, `Clean`, `UpdateAccessList`, `Tick` |
| `UdpRouter` | the glommio announce path, composing two workers: `read_requests` (the Connect, Announce and sendable-error arms, the `ConnectionMap` and its refresh and cleaning timers, the awaited `send_to`), `run_request_worker` with its swarm store (`Store == INSTANCE SwarmStore`) and `try_send_to`, `handle_shared_responses` and the local channel drained onto the socket | `SwarmStore`'s variables, `conns` (⟨connection id, address⟩ → valid_until), `connVU` (connection_valid_until), the read task's `outbox`, `reqChan`, `respChan`, `local`, what each address `known`s of connection ids, ids `issued`, `origin` (history: who last stored each peer and whether its info hash was allowed at the check), `datagrams` sent | `ReadRequest(sender)` (one datagram with any source address: `ReadConnect`, `ReadAnnounce`, `ReadSendableError`), `SendTo`, `RequestWorker` (`Store!Announce`), `HandleSharedResponses`, `SendResponse`, `RefreshConnectionValidUntil`, `CleanConnections`, and `SwarmStore`'s `Tick`, `Clean`, `UpdateAccessList` |
| `ConnectionValidator` | `create_connection_id`, `connection_id_valid`, `hash`, driven by the Connect/Announce/Scrape arms of the mio `handle_request` | `now`, `issued` ids, first and last acceptance of each id | `Connect(ip)`; `Replay(src, owner, id, e)` (an observed id, possibly spoofed or re-timestamped); `BruteForce(src, e)` (a lucky 32-bit guess); `Tick` |
| `HttpConnections` | `aquatic_http/src/workers/socket.rs`: the accept loop and its `Slab<ConnectionReference>`, `clean_connections` (cancelling idle tasks), and each connection task (`Connection::run`, `run_request_response_loop`, `read_request`, `handle_request`, `wait_for_scrape_responses`) | `slab` (key → connection, valid_until), its free list `vacant`, `task` per connection (phase, key, request buffer, partial answers awaited, failed, the Content-Length field of its reused response buffer as bytes), the client's unread `wire`, the `sent` and `replies` histories | `Accept`, `TlsAccept`, `ClientSend`, `ReadRequest(c, n)` (one read returns n coalesced requests), `PeerClose`, `WorkerRespond`, `WriteResponse`, `CleanConnections`, `Tick` |
| `MioSocketWorker` | `crates/udp/src/workers/socket/mio.rs`: `run_inner` (poll, `read_and_handle_requests`, the resend drain, local responses, swarm responses through the pending-scrape slab, the periodic refresh and cleaning), `handle_request` (Connect, Announce, Scrape split and forward, sendable errors), `send_response` and its resend buffer; the slab (`storage.rs`) and the swarm workers (not in `src/`) from spec §4.4 and §5 | `pc` of the loop, the socket's receive buffer `rx`, `local` responses, `resend` buffer, one request channel per shard, the response channel, `slab` (key → request id, partials left, expired; freed keys are handed to later scrapes, the key taken from `FreeKeys` being any vacant one up to `slabLen`+1), `slabLen`, `vuStale` (the worker's `pending_scrape_valid_until` has passed), `cleanDue`, `iter` (iteration counter modulo the period), the `sent` (response records, scrape ones with their slab key) and `dropped` histories | `Poll`, `ReadRequest` (one recv plus `handle_request`, scrapes through `PrepareAndForwardScrape`), `ReadWouldBlock`, `ResendOne`, `SendLocal`, `SendSwarmResponse` (scrape partials through `AddAndGetFinished`), `SwarmDone` (the periodic block, `Clean`), the other `…Done` steps, `SwarmWorker(s)`, `ClientSend`, the clock `ValidUntilPasses`, `EntryExpires(k)`, `CleaningIntervalPasses` |
| `ScrapeService` | the promise of spec §4.4, §5 and P7 to a scrape client, with no shards, channels or registry | `asked` (accepted requests), `open` (accepted, not yet answered or forgotten), the last `delivered` response | `Accept(r)`, `Answer(r)` (the response `ResponseTo(r)`), `Forget(S)` (entries pruned) |
| `UdpCodec` | `crates/udp_protocol/src/request.rs` (`Request::write`, `Request::from_bytes` with its error split into sendable and unsendable, the `AnnounceEvent` conversions), `aquatic_udp_protocol/src/response.rs` (`Response::write`, `Response::from_bytes`), and the mio `read_and_handle_requests`/`handle_request` arms that turn a parsed datagram into a reply | `stage` of one exchange, the client's request, its source, the bytes on the `wire` (possibly `mangled` once), the server's `parsed` result, its `answer` and `reply` bytes, the client's decoded `got` | `ClientSend(r, s)`, `Mangle` (truncate, cut or extend the datagram, or overwrite its action, its first 8 bytes (protocol or connection id) or the announce event), `ServerReceive`, `ClientReceive` |
| `WsConnection` | `aquatic_ws/src/mio/socket/connection.rs`: `Connection::read` over the TlsHandshaking → WsHandshaking → WsConnection states, `write_or_queue_message`, `Connection::write`, `write_message`, and the interest; the calling socket worker (not in `src/`) as its event dispatch | `phase`, the client's handshake progress, unread requests and answers owed, `queue` (message_queue), `interest`, tungstenite's send queue `tq`, the socket buffer `sock`, `submitted` answers, the answers the client `got`, and whether it got one `twice` | `Read` (handshake steps, one message, or an error that drops the connection), `WriteOrQueueMessage`, `Write` (writable event), `Close` (the worker's idle close: `Connection::close`), client `ClientHandshake`/`ClientRequest`/`ClientReceive` |
| `WsLegacyNetwork` | `aquatic_ws/src/lib/network.rs`: the `run_socket_worker` loop (poll, event dispatch, `connections.retain` with its `write_pending` loop, `send_out_messages`), `accept_new_connections`, `read_and_forward_in_messages`; `handler.rs` reduced to one answer per message | `pc` of the worker thread, the poll's `events`, the slab `conns` (key → client, ws state, queued frames, valid_until) with key 0 reserved and its free list, `backlog`, per-client unread messages and how it left, the two channels | `Poll`, `Dispatch(t)`, `AcceptOne`, `AcceptMidHandshake` (the unwrapped handshake panics), `AcceptWouldBlock`, `ReadMessage` (one turn of the read loop), `RetainVisit`, `WritePending` (one turn of the write loop), `SendOut`, `RequestWorker`, client `Connect`/`ClientUpgrade`/`ClientSend`/`ClientLeave`, `Tick` |
| `ScrapePipeline` | the glommio scrape path: `read_requests` (Scrape arm), `PendingScrapeResponses::{prepare, add_and_get_finished, clean}`, `handle_shared_responses`, the two registry timers, and the request worker's `handle_scrape_request` + `try_send_to` | `reads`, the read task's `outbox` of partial requests still to `send_to`, `reqChan`/`respChan` per request worker, `pending` registry, `validUntil`, the last `delivered` response, `lostParts` (history) | `ReadScrape(r)`, `SendPart`, `HandleScrapeRequest(w)`, `HandleSharedResponse(w)`, `RefreshValidUntil`, `CleanPending`, `Tick` |

Abstractions:

- **SwarmStore**
  - Models one address family; the IPv4 and IPv6 maps are the same code and never interact.
  - The sampler (`extract_response_peers`, in `aquatic_common`) is modelled from spec §4.5.1. It may return any window of the right size, which abstracts the IndexMap order and the random offset.
- **UdpRouter**
  - A client may put any source address on a datagram, but only learns the connection ids of connect responses sent to its own address. Ids are 64 random bits, so a client never guesses an id it was not sent, and two connects never draw the same id.
  - The peer id a client sends is taken to be its address, so a forged announce would store a peer under the forged address.
  - `ConnectionMap` (`common/network.rs`, outside `src/`) is modelled from its use: a map from ⟨id, address⟩ to valid_until, with `contains` and `clean`.
  - One request worker, so shard routing is trivial here; `ScrapePipeline` covers routing to several workers.
  - `ResponseSender` batching (outside `src/`) is abstracted to sending each response as it is taken off the local channel.
- **ConnectionValidator**
  - The hash is a PRF: the tag of (elapsed, ip) equals another tag only for equal inputs.
  - The attacker can copy a tag or guess one, but cannot compute one.
- **ScrapePipeline**
  - An info hash is its first byte, the only byte routing reads.
  - A worker's statistics for a hash are `Stat(ih)`. This label names the swarm, so the properties can tell which swarm's statistics land in which slot of which response.
  - The counts themselves are checked in `SwarmStore`.
  - The connection-id check is taken to pass; `ConnectionValidator` checks it.
- **WsLegacyNetwork**
  - tungstenite is not under `src/`. Its calls are modelled by their results: `read_message` yields the client's next message, then `Ok(Close)` for a close frame (queuing the reply), then `ConnectionClosed`; a reset is an error other than WouldBlock on every read. `write_pending` flushes: WouldBlock while frames are queued and the socket is full, `ConnectionClosed` once the peer's close has been read, `Ok(())` otherwise.
  - A spin (a loop turn that changes nothing) is a stuttering step, so TLC reports it as the worker stuttering forever.
  - A client connects (it waits in `backlog`) and then sends its upgrade request (`ClientUpgrade`). The worker may accept it in between. There the handshake stops half-way, and the unwrap panics: `pc` becomes "panicked" and no worker step is enabled again.
- **WsConnection**
  - `Flushed` is the environment, not code of this repository: tungstenite's flush onto the kernel's TCP send buffer, which takes frames while it has room.
  - Messages are numbered answers. TLS and WebSocket handshakes are the client's progress (nothing, TLS done, upgrade sent).
  - A frame is the unit the socket buffer takes. tungstenite's `write_message` pushes the frame on its send queue and then flushes it. A flush that would block leaves the rest queued, and the caller gets WouldBlock. This holds for every tungstenite version with the API the code uses: `write_message`, `write_pending` and `Error::SendQueueFull`. The version is not pinned in the tree. The comment at `connection.rs:203` assumes the opposite, that a blocked message was not sent.
- **The two generations**
  - The repository pairs the glommio socket worker with the crossbeam-generation request worker (`handlers.rs`).
  - The model composes them as they are written: `send_to` blocks the read task, and `try_send_to` drops responses.

## Runs

| Run | Expect | What it shows |
|---|---|---|
| `udp_announce_path` | pass | Two clients connect and announce through the glommio socket worker to the request worker's swarm store. Either client may forge the other's source address, and the access list is swapped at any point. Announces cover every event sent, bytes left zero or not, re-announces, status changes and stops of absent peers, interleaved with cleaning, connection expiry and time. Checks: `num_seeders`/`num_leechers` always equal the stored peers (P1); every announce response excludes the sender, holds only stored peers, and reports the true counts; every stored peer was last announced by its own address, not by a client forging it (`PeersStoredOnlyByTheirOwner`); |
| `validator` | pass | Ids copied off the wire are accepted only from the owner's IP and with the minted timestamp. Every id, including brute-forced ones, is accepted only during less than `max_connection_age` seconds. Both hold across a wrap of the elapsed field. |
| `scrape_pipeline` | pass | With distinct transaction ids, every scrape response goes to the requester and lists the statistics of its (truncated) hashes in request order, whatever order the workers answer in (P7). Every registry entry's count equals its partials still in flight plus those dropped by `try_send_to`. This holds with the read task parked on a full channel, with dropped responses, and with cleaning racing late partials. The path also implements `ScrapeService` (`ImplementsScrapeService`): a scrape is answered at most once, only while its entry is pending, with the response the whole request calls for. |
| `scrape_retransmit` | violation | A client resends a 3-hash scrape under the same transaction id. `prepare` overwrites the entry. The two shard-0 partials (one per copy) bring its count to 0, and the client gets 2 statistics for 3 hashes. This breaks P7 and the "last writer wins" rule of §4.4. |
| `http_connections` | pass | Across accepts, errors, keep-alive and idle cleaning, with slab slots reused by later connections, every slab entry belongs to a running task under that task's key, and every running task owns its entry. Each connection's responses answer its requests one by one, in order. The Content-Length digits in a connection's reused response buffer always match the body of the last response written. `write_response` clears the field before it writes the digits (`itoa`), so a shorter length never keeps a digit of a longer one. |
| `http_pipelined` | violation | A client pipelines two requests and both arrive in one read. `read_request` answers the first and drops the second, which is never answered. |
| `ws_legacy_spin` | violation | The legacy WebSocket worker stops polling for good, in two ways. The trace TLC shows is the first: a client connects, the worker accepts it before its upgrade request arrives, and `tungstenite::server::accept(stream).unwrap()` (`network.rs:136`) panics on the half-done handshake, ending the thread. In the second, a connection idles past its valid_until; `retain` closes it and calls `write_pending`, which flushes the close frame and then returns `Ok(())` on every call: the loop at `network.rs:85-101` exits only on WouldBlock or ConnectionClosed. The read loop at `network.rs:166` has the same shape after a removal or a reset. |
| `mio_socket_worker` | pass | Sends may succeed, would block or fail in any mix, and the channels fill up. A connect, error or announce response reaches the kernel at most once and is never both sent and dropped (`ResponseSentAtMostOnce`; scrape responses are left out, see H34 below). Every response the loop or the swarm worker produces is eventually sent or dropped, after one retry at most; a partial that finds no slab entry counts its request as dropped. Every slab entry, also one whose partial `try_send_to` dropped, is eventually released. |
| `udp_codec` | pass | Every request a client can build, encoded by `Request::write`, is parsed back to itself, connection id and 64-bit fields included; every reply the server writes decodes to the response it built; the announce event that `parse_bytes` accepts reads back through `AnnounceEvent::from` as the event whose wire value it is (`AnnounceEventBytesAgree`); a reply always echoes the transaction id on the wire; and a reply to anything but a connect goes out only for a valid connection id. This holds for truncated, cut, extended and overwritten datagrams too, and for port-zero sources, which get nothing. |
| `ws_connection` | pass | Through the handshakes, read errors and a full socket buffer, while answers are queued the connection is registered for WRITABLE; whenever tungstenite holds a frame, `message_queue` is not empty, so a writable event will flush it (`HeldFramesHaveWriter`); and every answer eventually reaches a client that keeps reading (`AnswersEventuallyReceived`). |
| `ws_duplicate` | violation | Answer 2 meets a full socket. tungstenite keeps its frame, and `write_or_queue_message` also keeps a clone in `message_queue`. The next writable event makes `Connection::write` write the clone again, so the client receives 1, 2, 2 (`AnswersReceivedOnce`). `Connection::write` then puts the clone back in front (`connection.rs:204`), and each later writable event sends another copy. |
| `scrape_empty` | violation | A scrape with no hashes is accepted by `parse_bytes` (spec §4.1 says it is a sendable error). It registers an entry waiting for 0 responses that is never answered, only swept. |

Each property of a passing run has a mutant in `PROJECT.json`. A mutant is a
plausible bug in the mapped code that TLC must catch:

- `ConnectionMap::contains` ignoring the source address;
- the Announce arm forwarding without the access-list check;
- the Stopped branch decrementing a counter;
- the Seeding removal case dropped;
- the sender not filtered from the sample;
- the `as u32` truncation dropped;
- the hash not covering the timestamp;
- the future-timestamp check dropped;
- an off-by-one in `prepare`;
- a send that ignores the channel bound;
- a worker keying statistics by position instead of original index;
- a connection task ending without vacating its slab slot;
- a request buffer not reset between requests;
- `write_response` writing the Content-Length digits without first clearing the field;
- a scrape wait that misses its completion;
- a `try_send_to` that ignores the channel's capacity;
- `send_response` without the resend buffer cap;
- a swarm response sent without being taken off the channel;
- the loop going back to `poll` before sending swarm responses;
- a socket flush that ignores the buffer's capacity;
- `write_or_queue_message` without the `MAX_PENDING_MESSAGES` check;
- `Connection::write` going back to READABLE with messages still queued;
- `Connection::write` not putting a popped message back on WouldBlock;
- `write_or_queue_message` queuing without asking for WRITABLE;
- `add_and_get_finished` emitting one partial early;
- `add_and_get_finished` answering without removing the entry;
- `clean` with its retain predicate inverted;
- a big-endian writer that does not truncate to the field width;
- the announce port read as a signed field;
- the transaction id read at the action's offset;
- statistics read in the wrong field order;
- a sendable parse error answered without the connection-id check.

## Refinement

`ScrapePipeline` instantiates `ScrapeService` as `Service` with this mapping:

- `asked` is the set of requests the socket worker has read (`reads[r] > 0`).
- `open` is the set of those whose transaction id still has a registry entry.
- `delivered` is the same variable, and `ResponseTo(r)` is `r`'s source, transaction id and one statistic per truncated hash in order.

`ReadScrape` is `Accept`; the `HandleSharedResponse` step that completes an entry is `Answer`; `CleanPending` is `Forget`; every other step leaves the image unchanged. The run `scrape_pipeline` checks `Service!Spec` as a PROPERTY. The mapping needs distinct transaction ids. With the retransmit of `scrape_retransmit`, `prepare` replaces an open entry, which no step of the service allows.

## Bounds and why they are enough

- **`UdpRouter`** (with `SwarmStore` inside)
  - Bounds: 2 addresses, 1 info hash (allowed or not), 2 connection ids, 4 datagrams in all, `max_response_peers = 1`, `num_want ∈ {0, 1}`, events Started, Completed and Stopped, `max_peer_age = 2`, `max_connection_age = 1`, time ≤ 2, both channels of capacity 1. This gives 703,522 distinct states in under a minute; 3 addresses add nothing at 4 datagrams, because a third client cannot both connect and announce.
  - Four datagrams are enough for each scenario: a forger connects, receives its id and forges the other address (3 steps); a peer connects and announces twice (status change, re-announce); the list is swapped between a check and the insertion.
  - Connections expire and are cleaned within the horizon.
  - Addresses and connection ids are symmetric.
  - Not reached: the sampler's window branch (a swarm of more than k+1 peers). With two addresses a swarm holds at most 2 = k+1 peers. The branch is modelled from spec §4.5.1 (the sampler is outside `src/`), and the earlier standalone `SwarmStore` run with 3 peers reached it. That run was replaced by this composition.
- **`ConnectionValidator`**
  - Bounds: 2 IPs, `max_connection_age = 2`, a 1-bit elapsed field, time ≤ 2.
  - The clock wraps the elapsed field once, so both the wrap and the future-timestamp check are exercised.
- **`ScrapePipeline`**
  - Bounds: 2 request workers; first bytes 0, 1, 2 route to shards 0, 1, 0.
  - The 3-hash scrape therefore splits into a shard-0 part with non-adjacent indices 0 and 2, and a shard-1 part.
  - A second client scrapes `<<1, 0>>`, whose shards occur in the opposite order.
  - Both channel capacities are 1, so a send blocks and a response is dropped.
  - Time ≤ 2 with a wait of 1, so cleaning can race late partials.
- **`HttpConnections`**
  - Bounds: 2 connections over 2 slab slots, `max_connection_idle = 1`, time ≤ 2, 3 requests per client (about 500,000 states), so a keep-alive connection carries a request after two completed ones.
  - Request kinds: allowed announce, denied announce, a scrape spanning two workers, an invalid request.
  - A slot vacated by one connection can be reused by the other.
  - Cleaning can expire a connection in any phase.
  - Body lengths (`BodyLen`, one per request kind) give a 3-digit content length for an announce and 2 digits for the rest. So on a keep-alive connection a shorter length follows a longer one. Real bodies vary in length within a kind; the property only depends on how many digits consecutive lengths have.
- **`WsLegacyNetwork`**: 2 clients, 1 message each, valid for 1 second, time ≤ 2: enough for an idle connection to expire and for a client to close or reset.
- **`MioSocketWorker`**: one client address, 2 datagrams of 6 kinds, 2 shards, a resend buffer of 1, channels of 1, a period of 2 iterations. Two responses meet a full resend buffer, a full request channel and a full response channel; an announce to shard 1 followed by a scrape of both shards drops a partial; the period lets entries be born from a stale `pending_scrape_valid_until` and cleaning race a late partial. The client's address plays no part in any property, so one is enough. With 3 datagrams the state space grows to 2.7 million states and the run takes 30 minutes; the 2-datagram run takes 30 seconds.
- **`UdpCodec`**: transaction ids 7 and −2 (one of each sign), a valid connection id and another one, both 8 bytes, hash bytes 1 and 200 (one above 127), one allowed hash, `max_scrape_torrents = 2` with up to 3 hashes so the cut happens, all four announce events (built with `AnnounceEventBytes::from`), port 65535, key and wanted −1, bytes left −1 as 8 bytes. Sources are IPv4, IPv6 and IPv4 with port zero. The mangler produces every parse error kind: short datagrams, a length not a multiple of 20, an unknown action, an event out of range, a wrong protocol id.
- **`WsConnection`**: `MAX_PENDING_MESSAGES = 2` (16 in the code), a socket buffer of two frames, 6 requests. With 5 answers, two on the socket and two queued, the fifth meets a full queue and its clone is dropped (tungstenite still holds its frame), so the cap is reached; the sixth can follow once the client has read. The duplicate run keeps a one-frame buffer and a queue of one, the smallest case in which a message both blocks and is queued.
- **Deadlock checking**
  - `ScrapePipeline` runs with `CHECK_DEADLOCK FALSE`. A socket worker with no datagrams to read is idle, not stuck.
  - A partial request cannot wait forever: request workers never block, because `try_send_to` drops.
  - `MioSocketWorker` runs with `CHECK_DEADLOCK FALSE`. Once the clients have sent everything, the loop goes round with nothing to do, and TLC sees a repeated state, not a deadlock. The flag covers the end of the bounded client supply.
  - `WsConnection` runs with `CHECK_DEADLOCK FALSE`: a closed connection, or one whose client has sent all its requests and read every answer, has nothing left to do.
  - `WsLegacyNetwork` runs with `CHECK_DEADLOCK FALSE`: a state whose only step is a spin of one of its loops has no successor other than itself, a panicked worker has none, and the liveness property, not deadlock, is what judges it.
  - `HttpConnections` also runs with `CHECK_DEADLOCK FALSE`: its final states are those where every connection has been used, and the listener then waits for the next one.

## Fairness

- `mio_socket_worker` assumes weak fairness of the socket worker's loop and of each swarm worker. Each is an OS thread that runs whenever it has work. It also assumes that time passes: weak fairness of each entry's expiry and of the cleaning interval elapsing. Without them an entry whose partial was dropped would stay forever, which is what happens in the code only if the clock stops. The socket send outcome is left free: a send may fail forever, and the property still holds because a response is tried at most twice.
- `ws_connection` assumes weak fairness of `WriteOrQueueMessage` and `Write` (the socket worker handles every answer and every writable event mio reports) and of `ClientReceive` (the client reads its socket). `AnswersEventuallyReceived` is conditional on the client reading. A client that never reads holds its answers.
- `ws_legacy_spin` assumes weak fairness of the socket worker thread and of the request worker thread: both are plain OS threads that are never descheduled for good. Clients and time get no fairness.
- No other fairness is assumed.

## Not modelled yet, and the plan

Order of work for the following sittings:

1. **`UdpRouter`** (done for glommio, one request worker): the empty swarm a Stopped announce creates is reachable, but no bound can be stated because nothing cleans it (see below).
2. **Abstract scrape service** (done for glommio): `MioSocketWorker` could refine it too, once its slab carries the statistics.
3. **`MioSocketWorker`** (done): the slab reuses freed keys as the real slab does; transaction-id collisions are `ScrapePipeline`'s subject.
4. **`WsConnection`** (done): still to add idle expiry and close by the socket worker, once that worker is in the tree.
5. **`WsLegacyNetwork`** (done for `network.rs`): still to add the offer/answer forwarding of `handler.rs`.
6. **`UdpCodec`** (done).
7. **`PeerSampling`**: §4.5.1 as a pure operator against a reference definition.

Observed while modelling, and not checked by a run:

- Spec §4.5.1 returns every peer but the sender when |M| ≤ k+1. A Stopped announce from a peer outside a swarm of k+1 peers therefore gets k+1 peers, more than the k that P3 allows.
- The sampler lives in `aquatic_common`, outside `src/`, so this is a tension inside the spec. It is not a property of the code modelled here.
- `run_request_worker` (`handlers.rs:48`, a `TODO`) never calls `TorrentMaps::clean`, and nothing else does, so a request worker's expired peers are never removed, against spec §4.5. `SwarmStore` keeps `Clean` as an action of its own so that P1 covers it. A liveness property would fail because of the model's shape alone, so no run checks this.
- In `WsConnection`, `message_queue` need not drain while the client reads. TLC finds a lasso for `(queue # <<>>) ~> (queue = <<>> \/ phase = "closed")` on the `ws_connection` cfg. The client reads one frame per writable event. Each `Connection::write` appends another copy of the front answer behind the copy tungstenite still holds, and blocks again, forever. Every run slot is in use, so no run checks this; `ws_duplicate` shows the copies it sends.
- tungstenite's send queue has no `max_send_queue`, so the cap of 16 on `message_queue` does not bound what a connection holds. Every answer written to a full socket stays with tungstenite whether `message_queue` keeps or drops its clone.
- In `MioSocketWorker` (hazard H34, `mio.rs:134`), a scrape partial can arrive after `clean` removed its expired slab entry. The slab hands the freed key to a newer scrape, and `add_and_get_finished` counts the late partial towards it. With `ResponseSentAtMostOnce` extended to scrape responses, TLC finds the trace: request 1 takes key 1, expires and is cleaned while its partial waits in the request channel. Request 2 reuses key 1, and its own partial is dropped at the full channel. Request 1's late partial then completes key 1, and id 1 is sent after it was dropped (`sent = <<1>>`, `dropped = {1, 2}`). With a third datagram the same id can be sent twice. Every run slot is in use, so the pass run checks the property for non-scrape responses only.
- `UdpRouter`'s access list can be swapped between the socket worker's check (`glommio/network.rs:256`) and the request worker's insert. A peer whose hash was just removed is then stored. Spec §4.3 leaves such peers to cleaning, which never runs (see above).
- `message_queue`'s cap (`connection.rs:177`) and the resend buffer's cap (`mio.rs:428`) are single comparisons. Both are kept in the model, and no property restates them.
- In `MioSocketWorker`, `pending_scrape_valid_until` is recomputed only every 256 iterations, so an entry can be born already expired and be swept before its answers arrive. Spec §4.7 step 8 prescribes this periodic refresh, so no property forbids it. The properties that do hold are checked with such entries reachable.

- In the WebSocket request handler (`aquatic_ws/src/lib/handler.rs:103-143`), the announcing peer is inserted into `torrent_data.peers` before the offer targets are drawn. `extract_response_peers` is called without the sender's id, so one of the sender's own offers can be forwarded back to it. That contradicts P3's `K ∉ S`. The sampler is outside `src/`, and no run checks this, because the WS handler is not modelled (see plan item 5).

Out of scope:

- `shrink_to_fit` calls in the HTTP connection (memory, no observable state).
- In `WsLegacyNetwork`, `RetainVisit` leaves out `close(None).unwrap()` at `network.rs:82`: the close frame it queues and flushes, and the panic when `close` returns an error (for instance on a connection already closed).

- Statistics printing (stdout reporting of atomic counters).
- Configuration (plain data; its values are the CONSTANTS).
- The load testers and benchmarks (tools, not the system).
