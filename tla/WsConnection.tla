---------------------------- MODULE WsConnection ----------------------------
(***************************************************************************)
(* One WebSocket connection of the mio socket worker,                      *)
(* src/aquatic_ws/src/mio/socket/connection.rs: the TlsHandshaking ->      *)
(* WsHandshaking -> WsConnection states driven by Connection::read, and   *)
(* the outgoing path: write_or_queue_message, the message_queue capped at  *)
(* MAX_PENDING_MESSAGES, the write readiness handler Connection::write,    *)
(* and the READABLE/WRITABLE interest.                                     *)
(*                                                                         *)
(* The socket worker that calls these methods is not under src/; its       *)
(* dispatch is modelled from the spec (section 5): read on a readable      *)
(* event, write on a writable one, an answer per request handled, and a    *)
(* close on any error the methods return.                                  *)
(*                                                                         *)
(* tungstenite's WebSocket::write_message pushes the frame on its own send *)
(* queue and then flushes that queue (write_pending); a flush that cannot  *)
(* write everything returns Io(WouldBlock) with the rest left queued: the  *)
(* frame is kept, "since we must queue the message anyway".  No           *)
(* max_send_queue is configured, so SendQueueFull does not occur.  This is *)
(* the behaviour of every tungstenite with write_message, write_pending    *)
(* and Error::SendQueueFull, the API the code is written against.          *)
(***************************************************************************)
EXTENDS Naturals, Sequences, SequencesExt

CONSTANTS
    MaxPendingMessages, \* MAX_PENDING_MESSAGES (16)
    SockCap,            \* frames the TCP send buffer holds
    MaxRequests         \* requests the client sends at most

VARIABLES
    phase,      \* "tls", "wsHs", "ws" or "closed" (ConnectionState, or dropped)
    client,     \* handshake data the client has sent: "none", "tls" or "ws"
    unread,     \* client requests not yet read
    answers,    \* requests handled whose answer is still to be written
    queue,      \* Connection::message_queue
    interest,   \* Connection::interest: "R" or "W"
    tq,         \* tungstenite's send queue: frames not yet on the socket
    sock,       \* frames in the TCP send buffer, not yet read by the client
    submitted,  \* number of answers given to write_or_queue_message (history)
    got,        \* answers the client has received (history)
    twice       \* the client has received some answer a second time (history)

vars == <<phase, client, unread, answers, queue, interest, tq, sock, submitted, got, twice>>

(* tungstenite's flush of its send queue q onto a TCP send buffer holding *)
(* s (library and kernel, not code of this repository):                    *)
(* as many frames as the buffer takes go out in order; it would block if  *)
(* any are left, and those stay queued.                                    *)
Flushed(q, s) ==
    LET n == IF SockCap - Len(s) < Len(q) THEN SockCap - Len(s) ELSE Len(q)
        left == SubSeq(q, n + 1, Len(q))
    IN [sock |-> s \o SubSeq(q, 1, n),
        tq |-> left,
        wouldBlock |-> left # <<>>]

(* Connection::write_message on an established connection: tungstenite's  *)
(* write_message (queue the frame, flush), then write_pending (flush).    *)
WriteMessageResult(m, t, s) ==
    LET first == Flushed(t \o <<m>>, s)
        second == Flushed(first.tq, first.sock)
    IN IF first.wouldBlock THEN first ELSE second

(***************************************************************************)
(* Connection::read: loop over the state's read until a message, a        *)
(* WouldBlock or an error.  TlsHandshaking reads TLS records; once the    *)
(* handshake is done, tungstenite::accept_with_config either completes    *)
(* (status Ok: the loop reads on as WsConnection) or is Interrupted       *)
(* (WsHandshaking, WouldBlock).  An established connection hands one     *)
(* message to the handler and returns.  An error makes the caller close.  *)
(* A read that only hits WouldBlock changes nothing and is left out.       *)
(***************************************************************************)
ReadWsConnectionOnWouldBlock ==
    /\ unread' = IF unread > 0 THEN unread - 1 ELSE 0
    /\ answers' = answers + 1
\* WsConnection::read: a text or binary message goes to the handler; a
\* WouldBlock hands nothing over.
ReadWsConnection ==
    IF unread > 0
    THEN /\ unread' = unread - 1
         /\ answers' = answers + 1
    ELSE UNCHANGED <<unread, answers>>
\* WsHandshaking::handle_handshake_result of tungstenite's (resumed) accept.
HandleHandshakeResult == IF client = "ws" THEN "ws" ELSE "wsHs"
\* TlsHandshaking::read once the client's TLS data is in, or
\* WsHandshaking::read; an Ok status lets Connection::read loop on.
ReadHandshaking ==
    /\ phase \in {"tls", "wsHs"} /\ client # "none"
    /\ phase' = HandleHandshakeResult
    /\ IF HandleHandshakeResult = "ws" THEN ReadWsConnection
       ELSE UNCHANGED <<unread, answers>>
Read ==
    /\ phase \in {"tls", "wsHs", "ws"} /\ interest = "R"
    /\ \/ ReadHandshaking
       \/ /\ phase = "ws" /\ ReadWsConnection
          /\ UNCHANGED phase
       \/ /\ phase' = "closed"                           \* read error
          /\ UNCHANGED <<unread, answers>>
    /\ UNCHANGED <<client, queue, interest, tq, sock, submitted, got, twice>>

(***************************************************************************)
(* write_or_queue_message: write now; on WouldBlock keep a copy in         *)
(* message_queue unless it holds MAX_PENDING_MESSAGES (then drop it), and *)
(* ask for WRITABLE instead of READABLE.  tungstenite has already kept    *)
(* the frame, so the copy is a second one.                                 *)
(***************************************************************************)
WriteOrQueueMessageNoInterest ==
    LET m == submitted + 1
        r == WriteMessageResult(m, tq, sock)
    IN /\ phase = "ws" /\ answers > 0
       /\ answers' = answers - 1
       /\ submitted' = m
       /\ tq' = r.tq /\ sock' = r.sock
       /\ IF r.wouldBlock /\ Len(queue) < MaxPendingMessages
          THEN queue' = Append(queue, m)
          ELSE UNCHANGED queue
       /\ UNCHANGED <<phase, client, unread, got, twice, interest>>
WriteOrQueueMessage ==
    LET m == submitted + 1
        r == WriteMessageResult(m, tq, sock)
    IN /\ phase = "ws" /\ answers > 0
       /\ answers' = answers - 1
       /\ submitted' = m
       /\ tq' = r.tq /\ sock' = r.sock
       /\ IF r.wouldBlock /\ Len(queue) < MaxPendingMessages
          THEN /\ queue' = Append(queue, m)
               /\ interest' = "W"
          ELSE UNCHANGED <<queue, interest>>
       /\ UNCHANGED <<phase, client, unread, got, twice>>

(***************************************************************************)
(* Connection::write on a writable event: pop and write queued messages;  *)
(* on WouldBlock put the message back in front and return.  When the      *)
(* queue is empty the interest goes back to READABLE.  Each write_message *)
(* hands tungstenite one more frame, whether or not it would block.       *)
(***************************************************************************)
RECURSIVE WriteQueueNoPutBack(_, _, _)
WriteQueueNoPutBack(q, t, s) ==
    IF q = <<>> THEN [queue |-> q, tq |-> t, sock |-> s]
    ELSE LET r == WriteMessageResult(Head(q), t, s)
         IN IF r.wouldBlock
            THEN [queue |-> Tail(q), tq |-> r.tq, sock |-> r.sock]
            ELSE WriteQueueNoPutBack(Tail(q), r.tq, r.sock)
RECURSIVE WriteQueue(_, _, _)
WriteQueue(q, t, s) ==
    IF q = <<>> THEN [queue |-> q, tq |-> t, sock |-> s]
    ELSE LET r == WriteMessageResult(Head(q), t, s)
         IN IF r.wouldBlock
            THEN [queue |-> q, tq |-> r.tq, sock |-> r.sock]
            ELSE WriteQueue(Tail(q), r.tq, r.sock)
WriteUnconditionalReadable ==
    LET r == WriteQueue(queue, tq, sock)
    IN /\ phase = "ws" /\ interest = "W" /\ Len(sock) < SockCap
       /\ queue' = r.queue /\ tq' = r.tq /\ sock' = r.sock
       /\ interest' = "R"
       /\ UNCHANGED <<phase, client, unread, answers, submitted, got, twice>>
Write ==
    LET r == WriteQueue(queue, tq, sock)
    IN /\ phase = "ws" /\ interest = "W" /\ Len(sock) < SockCap
       /\ queue' = r.queue /\ tq' = r.tq /\ sock' = r.sock
       /\ interest' = IF r.queue = <<>> THEN "R" ELSE interest
       /\ UNCHANGED <<phase, client, unread, answers, submitted, got, twice>>

(***************************************************************************)
(* Connection::close, called by the socket worker when the connection has *)
(* been idle past its valid_until (spec section 5: idle timeout drops to   *)
(* Closing).  The handshaking states shut the TCP stream down; an          *)
(* established one queues a close frame and flushes tungstenite's send    *)
(* queue (write_pending) as far as the socket buffer takes it.  The close *)
(* frame carries no answer and is not tracked.  The connection is then    *)
(* dropped with its message_queue.                                         *)
(***************************************************************************)
CloseWs(t, s) == Flushed(t, s)
Close ==
    /\ phase \in {"tls", "wsHs", "ws"}
    /\ phase' = "closed"
    /\ IF phase = "ws"
       THEN LET r == CloseWs(tq, sock) IN sock' = r.sock /\ tq' = r.tq
       ELSE UNCHANGED <<sock, tq>>
    /\ UNCHANGED <<client, unread, answers, queue, interest, submitted, got, twice>>

\* The client: sends its TLS and WebSocket handshakes, then requests, and
\* reads what the socket delivers.
ClientHandshake ==
    /\ client # "ws" /\ phase # "closed"
    /\ client' = IF client = "none" THEN "tls" ELSE "ws"
    /\ UNCHANGED <<phase, unread, answers, queue, interest, tq, sock, submitted, got, twice>>
ClientRequest ==
    /\ client = "ws" /\ phase # "closed"
    /\ unread + answers + submitted < MaxRequests
    /\ unread' = unread + 1
    /\ UNCHANGED <<phase, client, answers, queue, interest, tq, sock, submitted, got, twice>>
ClientReceive ==
    /\ sock # <<>>
    /\ twice' = (twice \/ Head(sock) \in got)
    /\ got' = got \cup {Head(sock)}
    /\ sock' = Tail(sock)
    /\ UNCHANGED <<phase, client, unread, answers, queue, interest, tq, submitted>>

Init ==
    /\ phase = "tls" /\ client = "none" /\ unread = 0 /\ answers = 0
    /\ queue = <<>> /\ interest = "R" /\ tq = <<>> /\ sock = <<>>
    /\ submitted = 0 /\ got = {} /\ twice = FALSE

Next ==
    \/ Read \/ WriteOrQueueMessage \/ Write \/ Close
    \/ ClientHandshake \/ ClientRequest \/ ClientReceive

\* The socket worker handles every readiness event and every answer; the
\* client keeps reading its socket.
Spec == Init /\ [][Next]_vars
        /\ WF_vars(WriteOrQueueMessage) /\ WF_vars(Write) /\ WF_vars(ClientReceive)

-----------------------------------------------------------------------------
(* Connection states, interest and the socket buffer stay in range, and   *)
(* message_queue only holds answers already submitted.                     *)
TypeOK ==
    /\ phase \in {"tls", "wsHs", "ws", "closed"}
    /\ client \in {"none", "tls", "ws"}
    /\ interest \in {"R", "W"}
    /\ unread + answers + submitted <= MaxRequests
    /\ Len(sock) <= SockCap
    /\ \A i \in 1..Len(queue) : queue[i] \in 1..submitted
    /\ got \subseteq 1..submitted /\ twice \in BOOLEAN

(* While answers wait in message_queue on an open connection, the         *)
(* connection is registered for WRITABLE, so a writable event will come   *)
(* and Connection::write will run: write_or_queue_message switches the    *)
(* interest when it queues, and write switches back only once the queue   *)
(* is empty.                                                               *)
PendingMessagesWatched ==
    (phase = "ws" /\ queue # <<>>) => interest = "W"

(* A frame tungstenite still holds is never stranded on an open           *)
(* connection: whenever its send queue is not empty, message_queue is not *)
(* empty either, so the connection stays registered for WRITABLE and the *)
(* next Connection::write flushes it.  This rests on write_or_queue_message*)
(* queueing (or finding the queue full) on every WouldBlock, and on       *)
(* Connection::write putting the blocked message back in front.           *)
HeldFramesHaveWriter ==
    (phase = "ws" /\ tq # <<>>) => queue # <<>>

(* Every answer handed to write_or_queue_message eventually reaches the   *)
(* client (or the connection is closed), as long as the socket worker     *)
(* handles its events and the client keeps reading.  It does not follow  *)
(* that message_queue drains: a client that reads one frame at a time     *)
(* gets copy after copy of the last answer.                                *)
AnswersEventuallyReceived ==
    \A i \in 1..MaxRequests :
        (submitted >= i) ~> (i \in got \/ phase = "closed")

(* The client receives each answer once: an answer that would block is    *)
(* kept by tungstenite and also by message_queue (write_or_queue_message) *)
(* or put back in front of it (Connection::write), and must not reach the *)
(* client a second time.                                                   *)
AnswersReceivedOnce == ~twice

=============================================================================
