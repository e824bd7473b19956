---------------------------- MODULE ScrapePipeline ----------------------------
(***************************************************************************)
(* The split-scrape path of the UDP tracker: one glommio socket worker     *)
(* (src/aquatic_udp/src/lib/glommio/network.rs) splits a scrape by shard,  *)
(* registers it in its PendingScrapeResponses, sends one partial request   *)
(* per shard to the request workers (src/aquatic_udp/src/lib/handlers.rs), *)
(* and reassembles their partial responses.                                *)
(*                                                                         *)
(*  - The read task awaits send_to on a bounded channel per request        *)
(*    worker: while a channel is full the task is parked with the rest of  *)
(*    its partial requests (outbox), and the response tasks run meanwhile. *)
(*  - A request worker answers with try_send_to, which drops the response  *)
(*    when the return channel is full.                                     *)
(*  - One response task per request worker drains its return channel in    *)
(*    order; tasks of different workers interleave arbitrarily.            *)
(*  - Two timers refresh pending_scrape_valid_until and clean the registry.*)
(*                                                                         *)
(* An info hash is represented by its first byte, the only byte routing    *)
(* reads.  The scrape statistics a worker reports for an info hash are     *)
(* abstracted to Stat(ih), a value naming the swarm they describe: the     *)
(* properties are about which swarm's statistics land in which slot of     *)
(* which response, not about the counts (SwarmStore checks those).  The    *)
(* connection-id check is taken to pass (ConnectionValidator checks it).   *)
(***************************************************************************)
EXTENDS Naturals, Sequences, SequencesExt, FiniteSetsExt, Functions, TLC

CONSTANTS
    Requests,          \* scrape requests clients may send: [src, tid, hashes]
    NumWorkers,        \* config.request_workers
    MaxScrapeTorrents, \* config.protocol.max_scrape_torrents
    ReqCap,            \* capacity of a socket -> request worker channel
    RespCap,           \* capacity of a request worker -> socket channel
    MaxReads,          \* times one datagram may be read (1: no retransmits)
    MaxWait,           \* PENDING_SCRAPE_MAX_WAIT, in model time units
    MaxTime            \* bound on the clock

ASSUME NumWorkers \in Nat \ {0} /\ ReqCap \in Nat \ {0} /\ RespCap \in Nat \ {0}

Workers == 0..(NumWorkers - 1)

VARIABLES
    now,         \* model clock
    validUntil,  \* pending_scrape_valid_until, refreshed by a timer
    reads,       \* request -> times the socket worker has read it
    outbox,      \* partial requests the read task still has to send_to
    reqChan,     \* request worker -> queue of partial requests
    respChan,    \* request worker -> queue of partial responses
    pending,     \* PendingScrapeResponses: transaction id -> entry
    delivered,   \* the last scrape response sent to a client (observation)
    lostParts    \* tid -> partial responses try_send_to dropped (history)

vars == <<now, validUntil, reads, outbox, reqChan, respChan, pending, delivered,
          lostParts>>

Tids == {r.tid : r \in Requests}

NoResponse == [dst |-> "none"]

\* usize::MAX, what `pending_worker_responses -= 1` wraps to from 0 in a
\* release build; larger than any count the model can decrement it by.
UsizeMaxStandIn == 1000

Stat(ih) == ih

\* calculate_request_consumer_index: first byte of the info hash modulo.
Shard(ih) == ih % NumWorkers

\* Request::from_bytes for a scrape: the list is cut to max_scrape_torrents.
ParseHashes(hashes) ==
    SubSeq(hashes, 1, IF Len(hashes) < MaxScrapeTorrents THEN Len(hashes)
                      ELSE MaxScrapeTorrents)

(***************************************************************************)
(* The consumer_requests IndexMap of read_requests: for each shard, the    *)
(* map from original (0-based) index to info hash of its sub-request (the  *)
(* PendingScrapeRequest of common/mod.rs), in the order in which shards    *)
(* first occur in the list.                                                *)
(***************************************************************************)
IndicesFor(hs, w) == {i \in 0..(Len(hs) - 1) : Shard(hs[i + 1]) = w}
ShardsOf(hs) == {Shard(hs[i]) : i \in 1..Len(hs)}
ConsumerRequests(src, tid, hs) ==
    LET order == SetToSortSeq(ShardsOf(hs),
                    LAMBDA a, b : Min(IndicesFor(hs, a)) < Min(IndicesFor(hs, b)))
    IN [j \in 1..Len(order) |->
          [to |-> order[j], src |-> src, tid |-> tid,
           hashes |-> [i \in IndicesFor(hs, order[j]) |-> hs[i + 1]]]]

\* PendingScrapeResponses::prepare: insert, overwriting an entry of the tid.
PrepareOffByOne(tid, n, vu) ==
    (tid :> [count |-> n - 1, stats |-> <<>>, validUntil |-> vu]) @@ pending
Prepare(tid, n, vu) ==
    (tid :> [count |-> n, stats |-> <<>>, validUntil |-> vu]) @@ pending

(***************************************************************************)
(* read_requests, the Scrape arm: parse, split by shard, prepare the       *)
(* registry entry, then start the send_to loop.  The read task only reads  *)
(* the next datagram once every partial request of this one is sent.       *)
(***************************************************************************)
ReadScrape(r) ==
    LET hs    == ParseHashes(r.hashes)
        parts == ConsumerRequests(r.src, r.tid, hs)
    IN /\ outbox = <<>>
       /\ reads[r] < MaxReads
       /\ reads' = [reads EXCEPT ![r] = @ + 1]
       /\ pending' = Prepare(r.tid, Len(parts), validUntil)
       /\ outbox' = parts
       /\ UNCHANGED <<now, validUntil, reqChan, respChan, delivered, lostParts>>

SendPartUnbounded ==
    LET p == Head(outbox)
    IN /\ outbox # <<>>
       /\ reqChan' = [reqChan EXCEPT ![p.to] = Append(@, p)]
       /\ outbox' = Tail(outbox)
       /\ UNCHANGED <<now, validUntil, reads, respChan, pending, delivered, lostParts>>
\* One iteration of the send_to loop; it blocks while the channel is full.
SendPart ==
    LET p == Head(outbox)
    IN /\ outbox # <<>>
       /\ Len(reqChan[p.to]) < ReqCap
       /\ reqChan' = [reqChan EXCEPT ![p.to] = Append(@, p)]
       /\ outbox' = Tail(outbox)
       /\ UNCHANGED <<now, validUntil, reads, respChan, pending, delivered, lostParts>>

(***************************************************************************)
(* run_request_worker receiving a partial scrape: handle_scrape_request    *)
(* maps each original index to the statistics of its info hash, and        *)
(* try_send_to drops the response if the return channel is full.           *)
(***************************************************************************)
HandleScrapeRequestLocalIndices(w) ==
    LET p    == Head(reqChan[w])
        keys == SetToSortSeq(DOMAIN p.hashes, <)
        resp == [dst |-> p.src, tid |-> p.tid,
                 stats |-> [k \in 0..(Len(keys) - 1) |-> Stat(p.hashes[keys[k + 1]])]]
    IN /\ reqChan[w] # <<>>
       /\ reqChan' = [reqChan EXCEPT ![w] = Tail(@)]
       /\ \/ /\ Len(respChan[w]) < RespCap
             /\ respChan' = [respChan EXCEPT ![w] = Append(@, resp)]
             /\ UNCHANGED lostParts
          \/ /\ Len(respChan[w]) >= RespCap
             /\ lostParts' = [lostParts EXCEPT ![p.tid] = @ + 1]
             /\ UNCHANGED respChan
       /\ UNCHANGED <<now, validUntil, reads, outbox, pending, delivered>>
HandleScrapeRequest(w) ==
    LET p    == Head(reqChan[w])
        resp == [dst |-> p.src, tid |-> p.tid,
                 stats |-> [i \in DOMAIN p.hashes |-> Stat(p.hashes[i])]]
    IN /\ reqChan[w] # <<>>
       /\ reqChan' = [reqChan EXCEPT ![w] = Tail(@)]
       /\ \/ /\ Len(respChan[w]) < RespCap
             /\ respChan' = [respChan EXCEPT ![w] = Append(@, resp)]
             /\ UNCHANGED lostParts
          \/ /\ Len(respChan[w]) >= RespCap
             /\ lostParts' = [lostParts EXCEPT ![p.tid] = @ + 1]
             /\ UNCHANGED respChan
       /\ UNCHANGED <<now, validUntil, reads, outbox, pending, delivered>>

\* BTreeMap::into_values: the statistics ordered by original index.
IntoValues(stats) ==
    LET keys == SetToSortSeq(DOMAIN stats, <)
    IN [j \in 1..Len(keys) |-> stats[keys[j]]]

\* `pending_worker_responses -= 1` on a usize.
DecrementCount(n) == IF n = 0 THEN UsizeMaxStandIn ELSE n - 1

(***************************************************************************)
(* handle_shared_responses of worker w's stream, through                   *)
(* add_and_get_finished: an unknown tid is dropped with a warning;         *)
(* otherwise the count goes down and the statistics are merged (extend:    *)
(* later values win); at zero the entry is removed and the response goes  *)
(* to the source address of this partial.                                  *)
(***************************************************************************)
HandleSharedResponseKeepingEntry(w) ==
    LET resp == Head(respChan[w])
        e    == pending[resp.tid]
        e1   == [e EXCEPT !.count = DecrementCount(@), !.stats = resp.stats @@ @]
    IN /\ respChan[w] # <<>>
       /\ respChan' = [respChan EXCEPT ![w] = Tail(@)]
       /\ \/ /\ resp.tid \notin DOMAIN pending
             /\ UNCHANGED <<pending, delivered>>
          \/ /\ resp.tid \in DOMAIN pending
             /\ pending' = [pending EXCEPT ![resp.tid] = e1]
             /\ delivered' = IF e1.count = 0
                             THEN [dst |-> resp.dst, tid |-> resp.tid,
                                   stats |-> IntoValues(e1.stats)]
                             ELSE delivered
       /\ UNCHANGED <<now, validUntil, reads, outbox, reqChan, lostParts>>
HandleSharedResponse(w) ==
    LET resp == Head(respChan[w])
        e    == pending[resp.tid]
        e1   == [e EXCEPT !.count = DecrementCount(@), !.stats = resp.stats @@ @]
    IN /\ respChan[w] # <<>>
       /\ respChan' = [respChan EXCEPT ![w] = Tail(@)]
       /\ \/ /\ resp.tid \notin DOMAIN pending
             /\ UNCHANGED <<pending, delivered>>
          \/ /\ resp.tid \in DOMAIN pending
             /\ e1.count # 0
             /\ pending' = [pending EXCEPT ![resp.tid] = e1]
             /\ UNCHANGED delivered
          \/ /\ resp.tid \in DOMAIN pending
             /\ e1.count = 0
             /\ pending' = Restrict(pending, DOMAIN pending \ {resp.tid})
             /\ delivered' = [dst |-> resp.dst, tid |-> resp.tid,
                              stats |-> IntoValues(e1.stats)]
       /\ UNCHANGED <<now, validUntil, reads, outbox, reqChan, lostParts>>

\* Timer: pending_scrape_valid_until = ValidUntil::new(PENDING_SCRAPE_MAX_WAIT)
RefreshValidUntil ==
    /\ validUntil # now + MaxWait
    /\ validUntil' = now + MaxWait
    /\ UNCHANGED <<now, reads, outbox, reqChan, respChan, pending, delivered, lostParts>>

\* Timer: PendingScrapeResponses::clean keeps entries with valid_until > now.
CleanPending ==
    /\ \E tid \in DOMAIN pending : pending[tid].validUntil <= now
    /\ pending' = Restrict(pending, {tid \in DOMAIN pending :
                                       pending[tid].validUntil > now})
    /\ UNCHANGED <<now, validUntil, reads, outbox, reqChan, respChan, delivered, lostParts>>

Tick ==
    /\ now < MaxTime
    /\ now' = now + 1
    /\ UNCHANGED <<validUntil, reads, outbox, reqChan, respChan, pending, delivered, lostParts>>

Init ==
    /\ now = 0
    /\ validUntil = MaxWait
    /\ reads = [r \in Requests |-> 0]
    /\ outbox = <<>>
    /\ reqChan = [w \in Workers |-> <<>>]
    /\ respChan = [w \in Workers |-> <<>>]
    /\ pending = <<>>
    /\ delivered = NoResponse
    /\ lostParts = [t \in Tids |-> 0]

Next ==
    \/ \E r \in Requests : ReadScrape(r)
    \/ SendPart
    \/ \E w \in Workers : HandleScrapeRequest(w) \/ HandleSharedResponse(w)
    \/ RefreshValidUntil
    \/ CleanPending
    \/ Tick

Spec == Init /\ [][Next]_vars

-----------------------------------------------------------------------------
\* Partial requests or responses of transaction tid not yet consumed.
InFlight(tid) ==
    LET isT(x) == x.tid = tid
    IN Len(SelectSeq(outbox, isT))
       + FoldFunction(LAMBDA q, acc : acc + Len(SelectSeq(q, isT)), 0, reqChan)
       + FoldFunction(LAMBDA q, acc : acc + Len(SelectSeq(q, isT)), 0, respChan)

IsEntry(e) ==
    /\ e.count \in 0..NumWorkers
    /\ DOMAIN e.stats \subseteq 0..(MaxScrapeTorrents - 1)
    /\ e.validUntil \in 0..(MaxTime + MaxWait)

(* The channels never exceed their capacity (send_to waits, try_send_to  *)
(* drops) and registry entries keep their shape.                           *)
TypeOK ==
    /\ now \in 0..MaxTime
    /\ validUntil \in 0..(MaxTime + MaxWait)
    /\ reads \in [Requests -> 0..MaxReads]
    /\ DOMAIN pending \subseteq Tids
    /\ \A t \in DOMAIN pending : IsEntry(pending[t])
    /\ Len(outbox) <= NumWorkers
    /\ \A w \in Workers : Len(reqChan[w]) <= ReqCap /\ Len(respChan[w]) <= RespCap
    /\ lostParts \in [Tids -> Nat]

(* Registry accounting of read_requests, run_request_worker and            *)
(* add_and_get_finished: a pending entry still waits for at least one      *)
(* partial response, and its pending_worker_responses equals the partials  *)
(* of its transaction still in the send_to loop or in a channel, plus the  *)
(* partial responses try_send_to dropped.  An entry waiting for more than  *)
(* can come never completes; one waiting for fewer completes early.        *)
PendingAccounting ==
    \A t \in DOMAIN pending :
        /\ pending[t].count > 0
        /\ pending[t].count = InFlight(t) + lostParts[t]

(* Spec P7 and the last-writer-wins rule for transaction ids of 4.4, about *)
(* the original_indices bookkeeping of the split and add_and_get_finished: *)
(* a scrape response goes to a client that sent a scrape with its          *)
(* transaction id, and lists the statistics of that request's (truncated)  *)
(* info hashes, one per hash, in request order, whatever the order in      *)
(* which the request workers answered.                                     *)
ScrapeResponseMatchesRequest ==
    delivered # NoResponse =>
        \E r \in Requests :
            LET hs == ParseHashes(r.hashes)
            IN /\ reads[r] > 0
               /\ r.src = delivered.dst
               /\ r.tid = delivered.tid
               /\ delivered.stats = [j \in 1..Len(hs) |-> Stat(hs[j])]

-----------------------------------------------------------------------------
(***************************************************************************)
(* Refinement of ScrapeService.  A request is accepted when the socket     *)
(* worker reads it, and open while its transaction's registry entry        *)
(* exists; the response it calls for goes to its source with its          *)
(* transaction id and one statistic per (truncated) hash in request order. *)
(* ReadScrape is Accept, the completing HandleSharedResponse is Answer,    *)
(* CleanPending is Forget, and every other step leaves the service         *)
(* unchanged.                                                              *)
(***************************************************************************)
ScrapeResponseTo(r) ==
    LET hs == ParseHashes(r.hashes)
    IN [dst |-> r.src, tid |-> r.tid, stats |-> [j \in 1..Len(hs) |-> Stat(hs[j])]]

Service == INSTANCE ScrapeService
    WITH asked <- {r \in Requests : reads[r] > 0},
         open <- {r \in Requests : reads[r] > 0 /\ r.tid \in DOMAIN pending},
         ResponseTo <- ScrapeResponseTo

(* The glommio split-scrape path implements the scrape service: every     *)
(* scrape read_requests accepts is answered by handle_shared_responses at  *)
(* most once, only while its registry entry is pending, with the response *)
(* the whole request calls for, or it is dropped by the registry's        *)
(* cleaning; no response answers a request that was not read.             *)
ImplementsScrapeService == Service!Spec

=============================================================================
