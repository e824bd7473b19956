--------------------------- MODULE HttpConnections ---------------------------
(***************************************************************************)
(* The connection handling of one HTTP socket worker,                      *)
(* src/aquatic_http/src/workers/socket.rs: the accept loop and its slab of *)
(* ConnectionReference (task handle, valid_until), the clean_connections   *)
(* timer that cancels idle connection tasks, and each connection task's   *)
(* request/response loop (TLS accept, read_request, handle_request,        *)
(* wait_for_scrape_responses, write_response, keep-alive or shutdown).     *)
(*                                                                         *)
(* A request is abstracted to its kind; the bytes on the wire to a         *)
(* sequence of whole requests (a read returns a non-empty prefix of what   *)
(* the client has sent, so TCP may coalesce requests).  Swarm workers      *)
(* answer each partial request through its own bounded(1) channel; they    *)
(* are not part of src/, so only their answering is modelled.              *)
(***************************************************************************)
EXTENDS Integers, Sequences, SequencesExt, FiniteSets, Functions

CONSTANTS
    Conns,        \* TCP connections the listener may accept (model values)
    NumKeys,      \* bound on slab slots
    MaxIdle,      \* config.cleaning.max_connection_idle
    KeepAlive,    \* config.network.keep_alive
    Pipelining,   \* whether clients send a request before the last answer
    MaxRequests,  \* requests one client sends at most
    MaxTime,      \* bound on the clock
    Requests,     \* request kinds clients send, a subset of RequestKinds
    BodyLen       \* request kind -> length of the body Response::write gives

\* Request kinds: an allowed announce, a denied announce, a scrape whose
\* info hashes span one or two swarm workers, and an unparsable request.
RequestKinds == {"announce", "denied", "scrape1", "scrape2", "invalid"}
ASSUME Requests \subseteq RequestKinds

VARIABLES
    now,       \* server_start_instant.seconds_elapsed()
    slab,      \* Slab<ConnectionReference>: key -> [conn, validUntil]
    vacant,    \* the slab's free list (most recently vacated key first)
    task,      \* connection -> its task: [phase, key, buffer, awaiting, failed]
    wire,      \* connection -> requests sent by the client, not yet read
    sent,      \* connection -> requests the client has sent, in order (history)
    replies    \* connection -> the requests answered, in order (history)

vars == <<now, slab, vacant, task, wire, sent, replies>>

Keys == 0..(NumKeys - 1)
Phases == {"tls", "read", "wait", "write", "done", "cancelled"}
Live(c) == c \in DOMAIN task /\ task[c].phase \notin {"done", "cancelled"}

\* Slab::insert / Slab::try_remove (vacant slots are reused last-in first).
SlabFull == vacant = <<>> /\ Cardinality(DOMAIN slab) = NumKeys
NextKey == IF vacant # <<>> THEN Head(vacant) ELSE Cardinality(DOMAIN slab)
SlabInsert(c) == slab @@ (NextKey :> [conn |-> c, validUntil |-> now + MaxIdle])
VacantAfterInsert == IF vacant # <<>> THEN Tail(vacant) ELSE vacant
TryRemove(key) ==
    IF key \in DOMAIN slab
    THEN /\ slab' = Restrict(slab, DOMAIN slab \ {key})
         /\ vacant' = <<key>> \o vacant
    ELSE UNCHANGED <<slab, vacant>>

\* The end of the spawned task: Connection::run returned, try_remove(key);
\* t is the connection's state as its last step left it.
EndTaskKeepingSlot(c, t) ==
    /\ task' = [task EXCEPT ![c] = [t EXCEPT !.phase = "done"]]
    /\ UNCHANGED <<slab, vacant>>
EndTask(c, t) ==
    /\ task' = [task EXCEPT ![c] = [t EXCEPT !.phase = "done"]]
    /\ TryRemove(t.key)

(***************************************************************************)
(* The Content-Length value of the connection's response_buffer: the       *)
(* RESPONSE_HEADER_B placeholder of 8 spaces, which write_response clears  *)
(* back to spaces and then overwrites from its start with the itoa digits  *)
(* of the content length.  Bytes are ASCII codes.                          *)
(***************************************************************************)
ResponseHeaderB == [i \in 1..8 |-> 32]
RECURSIVE Itoa(_)
Itoa(n) == IF n < 10 THEN <<48 + n>> ELSE Itoa(n \div 10) \o <<48 + (n % 10)>>
\* copy_from_slice of bytes onto the start of field.
CopyFromSlice(field, bytes) ==
    [i \in 1..Len(field) |-> IF i <= Len(bytes) THEN bytes[i] ELSE field[i]]
ContentLengthFieldUncleared(field, n) == CopyFromSlice(field, Itoa(n))
ContentLengthField(field, n) == CopyFromSlice(CopyFromSlice(field, ResponseHeaderB), Itoa(n))

(***************************************************************************)
(* run_socket_worker's accept loop: insert a reference with no task        *)
(* handle, spawn the connection task, store its handle; no await between.  *)
(***************************************************************************)
Accept(c) ==
    /\ c \notin DOMAIN task
    /\ ~SlabFull
    /\ slab' = SlabInsert(c)
    /\ vacant' = VacantAfterInsert
    /\ task' = task @@ (c :> [phase |-> "tls", key |-> NextKey, buffer |-> <<>>,
                              awaiting |-> 0, failed |-> FALSE, header |-> <<>>])
    /\ UNCHANGED <<now, wire, sent, replies>>

\* The client writes one more request (after the last answer, or pipelined).
ClientSend(c, r) ==
    /\ Live(c)
    /\ Len(sent[c]) < MaxRequests
    /\ Pipelining \/ (wire[c] = <<>> /\ task[c].phase = "read")
    /\ wire' = [wire EXCEPT ![c] = Append(@, r)]
    /\ sent' = [sent EXCEPT ![c] = Append(@, r)]
    /\ UNCHANGED <<now, slab, vacant, task, replies>>

\* Connection::run: the TLS handshake completes, and the response buffer is
\* made with RESPONSE_HEADER (a failed handshake is PeerClose).
TlsAccept(c) ==
    /\ Live(c) /\ task[c].phase = "tls"
    /\ task' = [task EXCEPT ![c].phase = "read", ![c].header = ResponseHeaderB]
    /\ UNCHANGED <<now, slab, vacant, wire, sent, replies>>

(***************************************************************************)
(* read_request followed by handle_request.  The request buffer position   *)
(* is reset, one read returns the first n requests on the wire, and the    *)
(* first request in the buffer is parsed; the rest of the buffer is never  *)
(* looked at again.  handle_request refreshes the valid_until of the slab  *)
(* entry at this task's key, then sends one partial request per swarm      *)
(* worker and waits, or answers a denied or invalid request at once.       *)
(***************************************************************************)
\* Partial requests handle_request sends (and waits for) per request kind.
Partials == [announce |-> 1, scrape1 |-> 1, scrape2 |-> 2, denied |-> 0, invalid |-> 0]
HandleRead(c, n, buf) ==
    LET r == Head(buf)
    IN /\ Live(c) /\ task[c].phase = "read"
       /\ n \in 1..Len(wire[c])
       /\ wire' = [wire EXCEPT ![c] = SubSeq(@, n + 1, Len(@))]
       /\ slab' = IF task[c].key \in DOMAIN slab /\ r # "invalid"
                  THEN [slab EXCEPT ![task[c].key].validUntil = now + MaxIdle]
                  ELSE slab
       /\ task' = [task EXCEPT ![c] =
                    [@ EXCEPT !.buffer   = buf,
                              !.phase    = IF Partials[r] > 0 THEN "wait" ELSE "write",
                              !.awaiting = Partials[r],
                              !.failed   = r \in {"denied", "invalid"}]]
       /\ UNCHANGED <<now, vacant, sent, replies>>
ReadRequestNoReset(c, n) ==
    HandleRead(c, n, task[c].buffer \o SubSeq(wire[c], 1, n))
ReadRequest(c, n) ==
    HandleRead(c, n, SubSeq(wire[c], 1, n))

\* The TLS accept fails, read returns 0 bytes (peer closed), or a read or
\* write fails: the error ends Connection::run and the task.
PeerClose(c) ==
    /\ Live(c) /\ task[c].phase \in {"tls", "read", "write"}
    /\ EndTask(c, task[c])
    /\ UNCHANGED <<now, wire, sent, replies>>

\* A swarm worker answers one partial request; wait_for_scrape_responses
\* (or the announce recv) finishes when the last one is in.
WorkerRespondMissedCompletion(c) ==
    /\ Live(c) /\ task[c].phase = "wait"
    /\ task' = [task EXCEPT ![c].awaiting = @ - 1,
                            ![c].phase = IF task[c].awaiting = 0 THEN "write" ELSE "wait"]
    /\ UNCHANGED <<now, slab, vacant, wire, sent, replies>>
WorkerRespond(c) ==
    /\ Live(c) /\ task[c].phase = "wait"
    /\ task' = [task EXCEPT ![c].awaiting = @ - 1,
                            ![c].phase = IF task[c].awaiting = 1 THEN "write" ELSE "wait"]
    /\ UNCHANGED <<now, slab, vacant, wire, sent, replies>>

(***************************************************************************)
(* write_response, then run_request_response_loop: after a failure, or     *)
(* without keep-alive, the stream is shut down and the task ends; else the *)
(* loop reads the next request.                                            *)
(***************************************************************************)
WriteResponse(c) ==
    LET r == Head(task[c].buffer)
        t == [task[c] EXCEPT !.header = ContentLengthField(@, BodyLen[r] + 2)]
    IN /\ Live(c) /\ task[c].phase = "write"
       /\ replies' = [replies EXCEPT ![c] = Append(@, r)]
       /\ IF t.failed \/ ~KeepAlive
          THEN EndTask(c, t)
          ELSE /\ task' = [task EXCEPT ![c] = [t EXCEPT !.phase = "read"]]
               /\ UNCHANGED <<slab, vacant>>
    /\ UNCHANGED <<now, wire, sent>>

(***************************************************************************)
(* clean_connections: drop every reference whose valid_until has passed,   *)
(* cancelling its task, which then never runs again (its trailing          *)
(* try_remove included).  Slab::retain vacates keys in index order.        *)
(***************************************************************************)
Expired == {k \in DOMAIN slab : slab[k].validUntil <= now}
CleanConnections ==
    /\ Expired # {}
    /\ slab' = Restrict(slab, DOMAIN slab \ Expired)
    /\ vacant' = Reverse(SetToSortSeq(Expired, <)) \o vacant
    /\ task' = [c \in DOMAIN task |->
                  IF task[c].key \in Expired /\ slab[task[c].key].conn = c
                     /\ Live(c)
                  THEN [task[c] EXCEPT !.phase = "cancelled"] ELSE task[c]]
    /\ UNCHANGED <<now, wire, sent, replies>>

Tick ==
    /\ now < MaxTime
    /\ now' = now + 1
    /\ UNCHANGED <<slab, vacant, task, wire, sent, replies>>

Init ==
    /\ now = 0
    /\ slab = <<>>
    /\ vacant = <<>>
    /\ task = <<>>
    /\ wire = [c \in Conns |-> <<>>]
    /\ sent = [c \in Conns |-> <<>>]
    /\ replies = [c \in Conns |-> <<>>]

Next ==
    \/ \E c \in Conns :
          \/ Accept(c)
          \/ TlsAccept(c)
          \/ \E r \in Requests : ClientSend(c, r)
          \/ \E n \in 1..MaxRequests : ReadRequest(c, n)
          \/ PeerClose(c)
          \/ WorkerRespond(c)
          \/ WriteResponse(c)
    \/ CleanConnections
    \/ Tick

Spec == Init /\ [][Next]_vars

-----------------------------------------------------------------------------
(* Slab keys stay below the slab size, each task's pending partial answers *)
(* stay within the two swarm workers, and no connection gets more replies  *)
(* than it sent requests.                                                  *)
TypeOK ==
    /\ now \in 0..MaxTime
    /\ DOMAIN slab \subseteq Keys
    /\ \A k \in DOMAIN slab : slab[k].conn \in Conns
                             /\ slab[k].validUntil \in 0..(MaxTime + MaxIdle)
    /\ DOMAIN task \subseteq Conns
    /\ \A c \in DOMAIN task : /\ task[c].phase \in Phases
                             /\ task[c].key \in Keys
                             /\ task[c].awaiting \in 0..2
    /\ \A c \in Conns : Len(replies[c]) <= Len(sent[c])

(* The slab of the accept loop, clean_connections and the task's trailing  *)
(* try_remove stay in step with the tasks: every slab entry is the entry   *)
(* of a running task under that task's key, and every running task has its *)
(* own entry.  A stale entry is never cleaned (a leak); a running task     *)
(* without its entry is never cancelled for idleness, and its key may be   *)
(* handed to another connection whose valid_until it then refreshes.      *)
SlabMatchesTasks ==
    /\ \A k \in DOMAIN slab : LET c == slab[k].conn IN Live(c) /\ task[c].key = k
    /\ \A c \in DOMAIN task : Live(c) =>
          task[c].key \in DOMAIN slab /\ slab[task[c].key].conn = c

(* The keep-alive loop of run_request_response_loop with read_request:    *)
(* on an open connection, the responses written answer the client's        *)
(* requests one by one, in order: what the client sent is what was        *)
(* answered, then the request being handled, then what is still unread.    *)
RequestsAnsweredInOrder ==
    \A c \in DOMAIN task :
        (Live(c) /\ task[c].phase \in {"read", "wait", "write"}) =>
            sent[c] = replies[c]
                      \o (IF task[c].phase = "read" THEN <<>> ELSE <<Head(task[c].buffer)>>)
                      \o wire[c]

\* What an HTTP client reads as Content-Length: the digits, then optional
\* whitespace; -1 for anything else.
IsDigit(b) == b \in 48..57
ContentLength(field) ==
    LET k == CHOOSE k \in 0..Len(field) :
                /\ \A i \in 1..k : IsDigit(field[i])
                /\ k < Len(field) => ~IsDigit(field[k + 1])
    IN IF k > 0 /\ \A i \in (k + 1)..Len(field) : field[i] = 32
       THEN FoldLeft(LAMBDA acc, b : 10 * acc + b - 48, 0, SubSeq(field, 1, k))
       ELSE -1

(* Every response write_response puts on a keep-alive connection announces *)
(* its own length: the Content-Length digits in the connection's reused    *)
(* response_buffer are the body length plus the final CRLF, with no digit *)
(* left over from an earlier, longer response.                              *)
ContentLengthMatchesBody ==
    \A c \in DOMAIN task :
        replies[c] # <<>> => ContentLength(task[c].header) = BodyLen[Last(replies[c])] + 2

=============================================================================
