--------------------------- MODULE WsLegacyNetwork ---------------------------
(***************************************************************************)
(* The older WebSocket socket worker, src/aquatic_ws/src/lib/network.rs:   *)
(* the mio event loop of run_socket_worker (poll, dispatch of events,      *)
(* connections.retain with its write_pending loop, send_out_messages),     *)
(* accept_new_connections and read_and_forward_in_messages, together with  *)
(* a request worker echoing one answer per forwarded message and clients   *)
(* that connect, send messages, and leave with a close frame or a reset.   *)
(*                                                                         *)
(* tungstenite is not under src/; its calls are modelled by their results  *)
(* on an abstract connection: read_message yields the next client message, *)
(* Ok(Close) for a close frame (queuing the close reply), then             *)
(* ConnectionClosed; a reset without close handshake is an error other     *)
(* than WouldBlock each time it is read.  write_pending flushes the send   *)
(* queue: WouldBlock if the socket is full, else ConnectionClosed once the *)
(* peer's close has been read, else Ok(()).                                *)
(***************************************************************************)
EXTENDS Naturals, Sequences, FiniteSets, Functions, TLC

CONSTANTS
    Clients,    \* TCP clients (model values)
    MaxMsgs,    \* messages one client sends at most
    ValidFor,   \* ValidUntil::new(600), in model seconds
    MaxTime     \* bound on the clock

VARIABLES
    pc,         \* where the worker thread is in its loop
    events,     \* tokens of the current poll not yet dispatched
    cur,        \* slab key whose read loop or retain visit is running
    toVisit,    \* keys connections.retain has still to visit
    validUntil, \* the loop iteration's ValidUntil::new(600)
    conns,      \* Slab<Option<PeerConnection>> without the reserved key 0:
                \* key -> [client, ws, out, validUntil]
    vacant,     \* the slab's free list, most recently vacated first
    backlog,    \* clients connected, waiting in the listen queue
    client,     \* client -> [state, unread, sent, fin]
    inChan,     \* InMessageSender: ConnectionMeta of forwarded messages
    outChan,    \* OutMessageReceiver: ConnectionMeta of answers
    now

vars == <<pc, events, cur, toVisit, validUntil, conns, vacant, backlog,
          client, inChan, outChan, now>>

Meta(k) == [key |-> k, client |-> conns[k].client]
Readable == {k \in DOMAIN conns : LET cl == client[conns[k].client]
                                  IN cl.unread > 0 \/ cl.fin # "none"}

(***************************************************************************)
(* The main loop: poll (with a 50 ms timeout), then dispatch each event;   *)
(* token 0 is the listener.                                                *)
(***************************************************************************)
Poll ==
    /\ pc = "poll"
    /\ events' = (IF backlog # {} THEN {0} ELSE {}) \cup Readable
    /\ validUntil' = now + ValidFor
    /\ pc' = "events"
    /\ UNCHANGED <<cur, toVisit, conns, vacant, backlog, client, inChan, outChan, now>>

Dispatch(t) ==
    /\ pc = "events" /\ t \in events
    /\ events' = events \ {t}
    /\ pc' = IF t = 0 THEN "accept" ELSE "read"
    /\ cur' = t
    /\ UNCHANGED <<toVisit, validUntil, conns, vacant, backlog, client, inChan, outChan, now>>

EventsDone ==
    /\ pc = "events" /\ events = {}
    /\ pc' = "retain"
    /\ toVisit' = DOMAIN conns
    /\ UNCHANGED <<events, cur, validUntil, conns, vacant, backlog, client, inChan, outChan, now>>

(* accept_new_connections: accept until WouldBlock; each stream gets the   *)
(* slab's vacant key as its token and is handshaken by a blocking          *)
(* tungstenite::server::accept, whose result is unwrapped.  On a          *)
(* non-blocking stream whose client has not yet sent its upgrade request, *)
(* the handshake stops mid-way (HandshakeError::Interrupted) and unwrap    *)
(* panics: the worker thread is gone.                                      *)
NextKey == IF vacant # <<>> THEN Head(vacant)
           ELSE 1 + Cardinality(DOMAIN conns) + Len(vacant)
AcceptOne(c) ==
    /\ pc = "accept" /\ c \in backlog
    /\ backlog' = backlog \ {c}
    /\ client[c].state = "upgradeSent"
    /\ conns' = conns @@ (NextKey :> [client |-> c, ws |-> "open", out |-> 0,
                                      validUntil |-> validUntil])
    /\ vacant' = IF vacant # <<>> THEN Tail(vacant) ELSE vacant
    /\ client' = [client EXCEPT ![c].state = "accepted"]
    /\ UNCHANGED <<pc, events, cur, toVisit, validUntil, inChan, outChan, now>>
AcceptMidHandshake(c) ==
    /\ pc = "accept" /\ c \in backlog
    /\ client[c].state = "connecting"
    /\ pc' = "panicked"
    /\ UNCHANGED <<events, cur, toVisit, validUntil, conns, vacant, backlog, client, inChan, outChan, now>>
AcceptWouldBlock ==
    /\ pc = "accept" /\ backlog = {}
    /\ pc' = "events"
    /\ UNCHANGED <<events, cur, toVisit, validUntil, conns, vacant, backlog, client, inChan, outChan, now>>

RemoveConn(k) ==
    /\ conns' = Restrict(conns, DOMAIN conns \ {k})
    /\ vacant' = <<k>> \o vacant

(***************************************************************************)
(* One turn of the loop of read_and_forward_in_messages, which leaves only *)
(* on WouldBlock.  A message is forwarded with the connection's meta and  *)
(* refreshes valid_until; ConnectionClosed deregisters and removes the    *)
(* entry; any other error is printed and the loop reads again.  Once the  *)
(* entry is gone, get_mut(poll_token) is None and the loop turns without  *)
(* doing anything.                                                         *)
(***************************************************************************)
ReadMessage ==
    /\ pc = "read"
    /\ IF cur \notin DOMAIN conns
       THEN UNCHANGED <<pc, conns, vacant, client, inChan>>
       ELSE LET c == conns[cur].client
                cl == client[c]
            IN CASE cl.unread > 0 ->
                      /\ inChan' = Append(inChan, Meta(cur))
                      /\ client' = [client EXCEPT ![c].unread = @ - 1]
                      /\ conns' = [conns EXCEPT ![cur].validUntil = validUntil]
                      /\ UNCHANGED <<pc, vacant>>
                 [] cl.fin = "none" ->
                      /\ pc' = "events"
                      /\ UNCHANGED <<conns, vacant, client, inChan>>
                 [] cl.fin = "close" /\ conns[cur].ws = "open" ->
                      /\ conns' = [conns EXCEPT ![cur].ws = "closedByPeer",
                                                ![cur].out = @ + 1,
                                                ![cur].validUntil = validUntil]
                      /\ UNCHANGED <<pc, vacant, client, inChan>>
                 [] cl.fin = "close" ->
                      /\ RemoveConn(cur)
                      /\ UNCHANGED <<pc, client, inChan>>
                 [] OTHER ->
                      UNCHANGED <<pc, conns, vacant, client, inChan>>
    /\ UNCHANGED <<events, cur, toVisit, validUntil, backlog, outChan, now>>

(***************************************************************************)
(* connections.retain visits the keys in order.  An expired connection is *)
(* closed (a close frame is queued), then write_pending is called until it *)
(* returns WouldBlock (keep the entry) or ConnectionClosed (deregister,   *)
(* drop the entry); on Ok(()) the loop calls it again.                     *)
(***************************************************************************)
RetainVisit ==
    /\ pc = "retain" /\ toVisit # {}
    /\ LET k == CHOOSE x \in toVisit : \A y \in toVisit : x <= y
       IN /\ cur' = k
          /\ conns' = IF conns[k].validUntil < now /\ conns[k].ws = "open"
                      THEN [conns EXCEPT ![k].ws = "closedByUs", ![k].out = @ + 1]
                      ELSE conns
    /\ pc' = "writePending"
    /\ UNCHANGED <<events, toVisit, validUntil, vacant, backlog, client, inChan, outChan, now>>

WritePending ==
    /\ pc = "writePending"
    /\ \/ /\ conns[cur].out > 0                      \* socket full: WouldBlock
          /\ pc' = "retain" /\ toVisit' = toVisit \ {cur}
          /\ UNCHANGED <<conns, vacant>>
       \/ /\ conns[cur].ws = "closedByPeer"          \* flushed, then closed
          /\ RemoveConn(cur)
          /\ pc' = "retain" /\ toVisit' = toVisit \ {cur}
       \/ /\ conns[cur].ws # "closedByPeer"          \* flushed: Ok(()), again
          /\ conns' = [conns EXCEPT ![cur].out = 0]
          /\ UNCHANGED <<pc, toVisit, vacant>>
    /\ UNCHANGED <<events, cur, validUntil, backlog, client, inChan, outChan, now>>

RetainDone ==
    /\ pc = "retain" /\ toVisit = {}
    /\ pc' = "send"
    /\ UNCHANGED <<events, cur, toVisit, validUntil, conns, vacant, backlog, client, inChan, outChan, now>>

(* send_out_messages: drain the answers; an answer is written to the entry *)
(* at its slab key if the peer address matches.  write_message queues it  *)
(* on an open connection and fails on a closing one.                       *)
SendOut ==
    /\ pc = "send" /\ outChan # <<>>
    /\ LET m == Head(outChan)
       IN conns' = IF m.key \in DOMAIN conns /\ conns[m.key].client = m.client
                      /\ conns[m.key].ws = "open"
                   THEN [conns EXCEPT ![m.key].out = @ + 1] ELSE conns
    /\ outChan' = Tail(outChan)
    /\ UNCHANGED <<pc, events, cur, toVisit, validUntil, vacant, backlog, client, inChan, now>>
SendDone ==
    /\ pc = "send" /\ outChan = <<>>
    /\ pc' = "poll"
    /\ UNCHANGED <<events, cur, toVisit, validUntil, conns, vacant, backlog, client, inChan, outChan, now>>

\* handler.rs run_request_worker: one AnnounceResponse per message, to its sender.
RequestWorker ==
    /\ inChan # <<>>
    /\ inChan' = Tail(inChan)
    /\ outChan' = Append(outChan, Head(inChan))
    /\ UNCHANGED <<pc, events, cur, toVisit, validUntil, conns, vacant, backlog, client, now>>

\* Clients: connect, send the upgrade request, send, close or reset.
Connect(c) ==
    /\ client[c].state = "idle"
    /\ backlog' = backlog \cup {c}
    /\ client' = [client EXCEPT ![c].state = "connecting"]
    /\ UNCHANGED <<pc, events, cur, toVisit, validUntil, conns, vacant, inChan, outChan, now>>
ClientUpgrade(c) ==
    /\ client[c].state = "connecting"
    /\ client' = [client EXCEPT ![c].state = "upgradeSent"]
    /\ UNCHANGED <<pc, events, cur, toVisit, validUntil, conns, vacant, backlog, inChan, outChan, now>>
ClientSend(c) ==
    /\ client[c].state = "accepted" /\ client[c].fin = "none" /\ client[c].sent < MaxMsgs
    /\ client' = [client EXCEPT ![c].unread = @ + 1, ![c].sent = @ + 1]
    /\ UNCHANGED <<pc, events, cur, toVisit, validUntil, conns, vacant, backlog, inChan, outChan, now>>
ClientLeave(c, how) ==
    /\ client[c].state = "accepted" /\ client[c].fin = "none"
    /\ client' = [client EXCEPT ![c].fin = how]
    /\ UNCHANGED <<pc, events, cur, toVisit, validUntil, conns, vacant, backlog, inChan, outChan, now>>

Tick ==
    /\ now < MaxTime
    /\ now' = now + 1
    /\ UNCHANGED <<pc, events, cur, toVisit, validUntil, conns, vacant, backlog, client, inChan, outChan>>

Init ==
    /\ pc = "poll" /\ events = {} /\ cur = 0 /\ toVisit = {}
    /\ validUntil = 0 /\ conns = <<>> /\ vacant = <<>> /\ backlog = {}
    /\ client = [c \in Clients |-> [state |-> "idle", unread |-> 0, sent |-> 0, fin |-> "none"]]
    /\ inChan = <<>> /\ outChan = <<>> /\ now = 0

SocketWorker ==
    \/ Poll \/ (\E t \in events : Dispatch(t)) \/ EventsDone
    \/ (\E c \in backlog : AcceptOne(c) \/ AcceptMidHandshake(c)) \/ AcceptWouldBlock
    \/ ReadMessage \/ RetainVisit \/ WritePending \/ RetainDone
    \/ SendOut \/ SendDone

Next ==
    \/ SocketWorker
    \/ RequestWorker
    \/ \E c \in Clients : Connect(c) \/ ClientUpgrade(c) \/ ClientSend(c)
                          \/ \E how \in {"close", "reset"} : ClientLeave(c, how)
    \/ Tick

\* The socket and request worker threads are never descheduled for good.
Spec == Init /\ [][Next]_vars /\ WF_vars(SocketWorker) /\ WF_vars(RequestWorker)

-----------------------------------------------------------------------------
(* run_socket_worker's loop keeps coming back to poll: whatever the        *)
(* clients do, the worker eventually polls again, so new connections are   *)
(* accepted and queued answers sent.  It is about the exits of the read    *)
(* loop of read_and_forward_in_messages and of the write_pending loop in   *)
(* connections.retain, and about the unwrapped handshake of                *)
(* accept_new_connections.                                                 *)
WorkerReturnsToPoll == []<>(pc = "poll")

=============================================================================
