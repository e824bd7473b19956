--------------------------- MODULE MioSocketWorker ---------------------------
(***************************************************************************)
(* The mio UDP socket worker, src/crates/udp/src/workers/socket/mio.rs:    *)
(* the run_inner loop (poll; read_and_handle_requests until WouldBlock;    *)
(* drain the resend buffer; send the local responses; send the responses   *)
(* of the swarm workers), handle_request, and send_response with its       *)
(* capped resend buffer for WouldBlock/ENOBUFS.                            *)
(*                                                                         *)
(* A datagram is a request id, a source, a kind and the shards its info  *)
(* hashes map to.  The connection-id check and the access list are folded *)
(* into the kind (ConnectionValidator checks the former).  A scrape is     *)
(* split over its shards and registered in the pending-scrape slab; the   *)
(* slab (storage.rs) and the swarm workers are not under src/ and are      *)
(* modelled from spec sections 4.4, 4.7 and 5: an entry counts the        *)
(* partials still to come, and the partials carry its slab key.  A        *)
(* PendingScrapeResponseSlab is a slab: a key freed by completion or by   *)
(* clean is given to a later entry (spec 4.4 forbids reuse only while      *)
(* pending).  Which free key is taken is left open, among the freed keys   *)
(* and the one past the slab's end.  Each swarm worker answers through    *)
(* the one response channel with a non-blocking send.                      *)
(*                                                                         *)
(* Time is abstracted to what the slab's expiry tells apart: whether the  *)
(* worker's pending_scrape_valid_until has already passed (it is refreshed *)
(* only when iter_counter % PeriodicIters = 0), whether an entry has      *)
(* expired, and whether pending_scrape_cleaning_interval has elapsed.      *)
(***************************************************************************)
EXTENDS Naturals, Sequences, SequencesExt, FiniteSets

CONSTANTS
    Clients,          \* client source addresses (model values)
    MaxRequests,      \* datagrams clients send in all
    ResendBufferMaxLen, \* config.network.resend_buffer_max_len (> 0: enabled)
    ChanCap,          \* capacity of the request and response channels
    NumShards,        \* swarm workers, one request channel each
    PeriodicIters     \* iterations between periodic updates (256)

\* Request kinds, after parsing and the checks of handle_request:
\*   connect   - Request::Connect: a ConnectResponse is made locally
\*   announce  - a valid id and an allowed info hash: sent to a swarm worker
\*   scrape    - a valid id: split over its shards, registered in the slab
\*   denied    - a valid id, info hash not allowed: a local ErrorResponse
\*   sendable  - RequestParseError::Sendable with a valid id: a local ErrorResponse
\*   ignored   - an invalid connection id, or an unsendable parse error
Kinds == {"connect", "announce", "scrape", "denied", "sendable", "ignored"}
Shards == 1..NumShards
\* The shards a datagram of kind k goes to.
ShardsFor(k) ==
    CASE k = "announce" -> {{s} : s \in Shards}
      [] k = "scrape"   -> SUBSET Shards \ {{}}
      [] OTHER          -> {{}}

VARIABLES
    pc,        \* where run_inner is: "poll", "read", "resend", "local", "swarm"
    rx,        \* datagrams in the socket's receive buffer: [id, src, kind]
    local,     \* local_responses
    resend,    \* the resend buffer
    reqChan,   \* shard -> request channel to that swarm worker
    respChan,  \* response channel from the swarm workers (response_receiver)
    slab,      \* pending_scrape_responses: key -> [id, left, expired]
    slabLen,   \* the slab's length: keys above it were never handed out
    vuStale,   \* pending_scrape_valid_until has already passed
    cleanDue,  \* pending_scrape_cleaning_interval has elapsed since cleaning
    iter,      \* iter_counter % PeriodicIters
    sent,      \* responses handed to the kernel, in order (history)
    dropped,   \* ids of requests whose response was dropped (history)
    nextId     \* ids given to datagrams so far

vars == <<pc, rx, local, resend, reqChan, respChan, slab, slabLen, vuStale, cleanDue,
          iter, sent, dropped, nextId>>

Keys == 1..MaxRequests
\* A response, or a request to a swarm worker, for datagram d; a scrape
\* partial carries its slab key.
Response(d, key) == [id |-> d.id, dst |-> d.src, scrape |-> d.kind = "scrape", key |-> key]

(* send_response: socket.send_to succeeds, or fails with WouldBlock or     *)
(* ENOBUFS (kept in the resend buffer if there is one with room), or fails *)
(* otherwise (dropped).  buf is the resend buffer as it stands; useResend  *)
(* is FALSE when that buffer itself is being drained (&mut None).          *)
SendResponse(r, useResend, buf) ==
    \/ /\ sent' = Append(sent, r) /\ resend' = buf             \* Ok
       /\ UNCHANGED dropped
    \/ /\ useResend /\ Len(buf) < ResendBufferMaxLen           \* WouldBlock, kept
       /\ resend' = Append(buf, r)
       /\ UNCHANGED <<sent, dropped>>
    \/ /\ dropped' = dropped \cup {r.id} /\ resend' = buf      \* error, or full
       /\ UNCHANGED sent

(* try_send_to of the request and response senders: a full channel drops.  *)
TrySendToUnbounded(ch, r) == ch \o <<r>>
TrySendTo(ch, r) == IF Len(ch) < ChanCap THEN ch \o <<r>> ELSE ch

scrapeVars == <<slab, slabLen, vuStale, cleanDue, iter>>

\* A client sends a datagram.
ClientSend(c, k, S) ==
    /\ nextId < MaxRequests
    /\ nextId' = nextId + 1
    /\ rx' = Append(rx, [id |-> nextId + 1, src |-> c, kind |-> k, shards |-> S])
    /\ UNCHANGED <<pc, local, resend, reqChan, respChan, sent, dropped, scrapeVars>>

(* poll, then a readable event runs read_and_handle_requests.             *)
Poll ==
    /\ pc = "poll"
    /\ pc' = IF rx # <<>> THEN "read" ELSE "resend"
    /\ UNCHANGED <<rx, local, resend, reqChan, respChan, sent, dropped, nextId, scrapeVars>>

(* prepare_split_requests (spec 4.4 steps 1-2): a vacant entry of the     *)
(* slab waits for one partial per shard, valid until the worker's         *)
(* pending_scrape_valid_until; then each partial goes out with            *)
(* try_send_to, which may drop it.                                         *)
FreeKeys == (1..(slabLen + 1)) \ DOMAIN slab
PrepareAndForwardScrape(d) ==
    LET full == {s \in d.shards : Len(reqChan[s]) >= ChanCap}
    IN \E key \in FreeKeys :
       /\ slab' = slab @@ (key :> [id |-> d.id, left |-> Cardinality(d.shards),
                                   expired |-> vuStale])
       /\ slabLen' = IF key > slabLen THEN key ELSE slabLen
       /\ reqChan' = [s \in Shards |-> IF s \in d.shards THEN TrySendTo(reqChan[s], Response(d, key))
                                       ELSE reqChan[s]]
       /\ dropped' = IF full # {} THEN dropped \cup {d.id} ELSE dropped
       /\ UNCHANGED <<local, vuStale, cleanDue, iter>>

(* One turn of the recv_from loop: parse and handle_request.               *)
HandleRequest(d) ==
    CASE d.kind \in {"connect", "denied", "sendable"} ->
              /\ local' = Append(local, Response(d, 0))
              /\ UNCHANGED <<reqChan, dropped, scrapeVars>>
      [] d.kind = "announce" ->
              LET s == CHOOSE x \in d.shards : TRUE
              IN /\ reqChan' = [reqChan EXCEPT ![s] = TrySendTo(@, Response(d, 0))]
                 /\ dropped' = IF Len(reqChan[s]) < ChanCap THEN dropped ELSE dropped \cup {d.id}
                 /\ UNCHANGED <<local, scrapeVars>>
      [] d.kind = "scrape" -> PrepareAndForwardScrape(d)
      [] OTHER -> UNCHANGED <<local, reqChan, dropped, scrapeVars>>
ReadRequest ==
    /\ pc = "read" /\ rx # <<>>
    /\ rx' = Tail(rx)
    /\ HandleRequest(Head(rx))
    /\ UNCHANGED <<pc, resend, respChan, sent, nextId>>
ReadWouldBlock ==
    /\ pc = "read" /\ rx = <<>>
    /\ pc' = "resend"
    /\ UNCHANGED <<rx, local, resend, reqChan, respChan, sent, dropped, nextId, scrapeVars>>

(* The resend buffer is drained, each response sent once more with no     *)
(* resend buffer; then local_responses and the swarm responses are sent   *)
(* with it.                                                                *)
ResendOne ==
    /\ pc = "resend" /\ resend # <<>>
    /\ SendResponse(Head(resend), FALSE, Tail(resend))
    /\ UNCHANGED <<pc, rx, local, reqChan, respChan, nextId, scrapeVars>>
ResendDone ==
    /\ pc = "resend" /\ resend = <<>>
    /\ pc' = "local"
    /\ UNCHANGED <<rx, local, resend, reqChan, respChan, sent, dropped, nextId, scrapeVars>>

SendLocal ==
    /\ pc = "local" /\ local # <<>>
    /\ local' = Tail(local)
    /\ SendResponse(Head(local), TRUE, resend)
    /\ UNCHANGED <<pc, rx, reqChan, respChan, nextId, scrapeVars>>
LocalDoneSkippingSwarm ==
    /\ pc = "local" /\ local = <<>>
    /\ pc' = "poll"
    /\ UNCHANGED <<rx, local, resend, reqChan, respChan, sent, dropped, nextId, scrapeVars>>
LocalDone ==
    /\ pc = "local" /\ local = <<>>
    /\ pc' = "swarm"
    /\ UNCHANGED <<rx, local, resend, reqChan, respChan, sent, dropped, nextId, scrapeVars>>

(* add_and_get_finished (spec 4.4 steps 3-4): a partial for a key that   *)
(* holds no entry (cleaned) is ignored, and its request goes unanswered;   *)
(* otherwise the entry at its key has one fewer pending, and it is        *)
(* removed and the response sent, to the partial's transaction id and     *)
(* address, when none is left.                                             *)
AddAndGetFinished(r) ==
    IF r.key \notin DOMAIN slab
    THEN /\ dropped' = dropped \cup {r.id}
         /\ UNCHANGED <<slab, sent, resend>>
    ELSE IF slab[r.key].left = 1
         THEN /\ slab' = Restrict(slab, DOMAIN slab \ {r.key})
              /\ SendResponse(r, TRUE, resend)
         ELSE /\ slab' = [slab EXCEPT ![r.key].left = @ - 1]
              /\ UNCHANGED <<sent, dropped, resend>>

SendSwarmResponseKeepingIt ==
    /\ pc = "swarm" /\ respChan # <<>>
    /\ IF Head(respChan).scrape THEN AddAndGetFinished(Head(respChan))
       ELSE SendResponse(Head(respChan), TRUE, resend) /\ UNCHANGED slab
    /\ UNCHANGED <<pc, rx, local, reqChan, respChan, nextId, slabLen, vuStale, cleanDue, iter>>
SendSwarmResponse ==
    /\ pc = "swarm" /\ respChan # <<>>
    /\ respChan' = Tail(respChan)
    /\ IF Head(respChan).scrape THEN AddAndGetFinished(Head(respChan))
       ELSE SendResponse(Head(respChan), TRUE, resend) /\ UNCHANGED slab
    /\ UNCHANGED <<pc, rx, local, reqChan, nextId, slabLen, vuStale, cleanDue, iter>>

(* PendingScrapeResponseSlab::clean: keep the entries still valid.         *)
CleanKeepingExpired(p) == [k \in {x \in DOMAIN p : p[x].expired} |-> p[k]]
Clean(p) == [k \in {x \in DOMAIN p : ~p[x].expired} |-> p[k]]

(* The end of a loop iteration: every PeriodicIters iterations the        *)
(* pending_scrape_valid_until is recomputed from the clock and, if the    *)
(* cleaning interval has elapsed, the slab is cleaned; its expired        *)
(* entries will never be answered.                                         *)
SwarmDone ==
    /\ pc = "swarm" /\ respChan = <<>>
    /\ pc' = "poll"
    /\ iter' = (iter + 1) % PeriodicIters
    /\ IF iter = 0
       THEN /\ vuStale' = FALSE
            /\ IF cleanDue
               THEN /\ slab' = Clean(slab)
                    /\ dropped' = dropped \cup {slab[k].id : k \in DOMAIN slab \ DOMAIN Clean(slab)}
                    /\ cleanDue' = FALSE
               ELSE UNCHANGED <<slab, dropped, cleanDue>>
       ELSE UNCHANGED <<vuStale, slab, dropped, cleanDue>>
    /\ UNCHANGED <<rx, local, resend, reqChan, respChan, sent, slabLen, nextId>>

\* A swarm worker answers an announce or a scrape partial; a full response
\* channel drops it.
SwarmWorker(s) ==
    /\ reqChan[s] # <<>>
    /\ reqChan' = [reqChan EXCEPT ![s] = Tail(@)]
    /\ respChan' = TrySendTo(respChan, Head(reqChan[s]))
    /\ dropped' = IF Len(respChan) < ChanCap THEN dropped ELSE dropped \cup {Head(reqChan[s]).id}
    /\ UNCHANGED <<pc, rx, local, resend, sent, nextId, scrapeVars>>

(* Time passes: the worker's pending_scrape_valid_until, or an entry's     *)
(* valid_until, is reached, or the cleaning interval elapses.             *)
ValidUntilPasses ==
    /\ ~vuStale /\ vuStale' = TRUE
    /\ UNCHANGED <<pc, rx, local, resend, reqChan, respChan, slab, slabLen, cleanDue, iter, sent, dropped, nextId>>
EntryExpires(k) ==
    /\ k \in DOMAIN slab /\ ~slab[k].expired
    /\ slab' = [slab EXCEPT ![k].expired = TRUE]
    /\ UNCHANGED <<pc, rx, local, resend, reqChan, respChan, slabLen, vuStale, cleanDue, iter, sent, dropped, nextId>>
CleaningIntervalPasses ==
    /\ ~cleanDue /\ cleanDue' = TRUE
    /\ UNCHANGED <<pc, rx, local, resend, reqChan, respChan, slab, slabLen, vuStale, iter, sent, dropped, nextId>>

Init ==
    /\ pc = "poll" /\ rx = <<>> /\ local = <<>> /\ resend = <<>>
    /\ reqChan = [s \in Shards |-> <<>>] /\ respChan = <<>>
    /\ slab = <<>> /\ slabLen = 0 /\ vuStale = FALSE /\ cleanDue = FALSE /\ iter = 0
    /\ sent = <<>> /\ dropped = {} /\ nextId = 0

SocketWorker ==
    \/ Poll \/ ReadRequest \/ ReadWouldBlock
    \/ ResendOne \/ ResendDone \/ SendLocal \/ LocalDone
    \/ SendSwarmResponse \/ SwarmDone

Clock == ValidUntilPasses \/ CleaningIntervalPasses \/ \E k \in DOMAIN slab : EntryExpires(k)

Next ==
    \/ SocketWorker
    \/ \E s \in Shards : SwarmWorker(s)
    \/ \E c \in Clients, k \in Kinds : \E S \in ShardsFor(k) : ClientSend(c, k, S)
    \/ Clock

\* Every worker thread runs whenever it can (each is its own OS thread), and
\* time keeps passing, for every entry's deadline and the cleaning interval.
Spec == Init /\ [][Next]_vars /\ WF_vars(SocketWorker)
        /\ \A s \in Shards : WF_vars(SwarmWorker(s))
        /\ WF_vars(CleaningIntervalPasses)
        /\ \A k \in Keys : WF_vars(EntryExpires(k))

-----------------------------------------------------------------------------
Ids == 1..MaxRequests
IdsIn(q) == {q[i].id : i \in 1..Len(q)}
Pending(i) == \/ i \in IdsIn(local) \cup IdsIn(resend) \cup IdsIn(respChan)
              \/ \E k \in DOMAIN slab : slab[k].id = i
              \/ \E s \in Shards : i \in IdsIn(reqChan[s])
SentIds == {sent[j].id : j \in DOMAIN sent}
Settled(i) == i \in SentIds \cup dropped

(* The two channels never hold more than their capacity: the try_send_to  *)
(* of handle_request and of the swarm worker drop instead.                 *)
TypeOK ==
    /\ pc \in {"poll", "read", "resend", "local", "swarm"}
    /\ nextId \in 0..MaxRequests
    /\ \A s \in Shards : Len(reqChan[s]) <= ChanCap
    /\ Len(respChan) <= ChanCap
    /\ DOMAIN slab \subseteq 1..slabLen /\ slabLen \in 0..MaxRequests
    /\ iter \in 0..(PeriodicIters - 1)
    /\ dropped \subseteq Ids

(* A connect, error or announce response reaches the kernel at most once *)
(* and is never both sent and dropped: the resend buffer is drained (with *)
(* &mut None) before it is refilled, and each channel or buffer hands a    *)
(* response over once.  Scrape responses are left out: a partial that     *)
(* outlives its cleaned slab entry completes whatever entry reuses its    *)
(* key, so its request can be answered after it was dropped, or twice.     *)
ResponseSentAtMostOnce ==
    \A j, k \in DOMAIN sent :
        ~sent[j].scrape =>
            /\ (j # k => sent[j].id # sent[k].id)
            /\ sent[j].id \notin dropped

(* Every response run_inner or the swarm worker produces is eventually    *)
(* sent or dropped: every loop iteration drains the resend buffer, the    *)
(* local responses and the response channel, and a response is retried   *)
(* at most once.  A scrape partial that finds no entry at its key leaves  *)
(* its request unanswered, which counts as dropped.                        *)
ResponseEventuallySettled ==
    \A i \in Ids : Pending(i) ~> Settled(i)

(* Every pending-scrape entry is eventually removed from the slab, also   *)
(* one whose partial try_send_to dropped and that can never complete: the *)
(* periodic block of run_inner keeps cleaning expired entries.             *)
PendingScrapeEventuallyReleased ==
    \A k \in Keys : (k \in DOMAIN slab) ~> (k \notin DOMAIN slab)

=============================================================================
