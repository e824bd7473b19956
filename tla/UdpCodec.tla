------------------------------ MODULE UdpCodec ------------------------------
(***************************************************************************)
(* The UDP tracker wire format and one request/response exchange through  *)
(* it.  Request::write_bytes and Request::parse_bytes                      *)
(* (src/crates/udp_protocol/src/request.rs), Response::write and          *)
(* Response::from_bytes (src/aquatic_udp_protocol/src/response.rs) are     *)
(* operators on byte sequences; integers are written big-endian in two's   *)
(* complement, as byteorder's NetworkEndian and zerocopy's network_endian *)
(* types do.                                                               *)
(*                                                                         *)
(* The exchange: a client writes a request; the datagram may be mangled on *)
(* the way (truncated, lengthened, a byte overwritten); the socket worker  *)
(* parses it and answers as read_and_handle_requests and handle_request   *)
(* (src/crates/udp/src/workers/socket/mio.rs) do, with the swarm worker's *)
(* answer chosen from a small set; send_response writes the response and  *)
(* the client reads it back with Response::from_bytes.                     *)
(*                                                                         *)
(* TLC integers are 32 bits wide, so a 64-bit field (connection id,      *)
(* byte counts, PROTOCOL_IDENTIFIER) is kept as its eight big-endian      *)
(* bytes; writing and reading it copies them.  32- and 16-bit fields are  *)
(* integers, converted arithmetically.                                     *)
(***************************************************************************)
EXTENDS Integers, Sequences, SequencesExt

CONSTANTS
    Tids,              \* transaction ids clients choose (i32 values)
    ValidCid,          \* the connection id (8 bytes) the validator creates and accepts
    OtherCid,          \* a connection id (8 bytes) it rejects
    HashBytes,         \* info hash i is HashLen bytes of value i
    Allowed,           \* the info hashes (by byte) the access list allows
    MaxScrapeTorrents, \* config.protocol.max_scrape_torrents (u8)
    MaxHashes,         \* info hashes a client scrape names at most
    AnnounceInterval   \* config.protocol.peer_announce_interval

HashLen == 20

(***************************************************************************)
(* Integers on the wire.                                                   *)
(***************************************************************************)
RECURSIVE Shr8(_, _)
Shr8(v, k) == IF k = 0 THEN v ELSE Shr8(v, k - 1) \div 256

\* write_i32 / write_i64 / write_u16 ::<NetworkEndian>, and as_bytes of the
\* network_endian I32/I64/U16 fields: w bytes, most significant first.
BENoTruncation(v, w) == [i \in 1..w |-> Shr8(v, w - i)]
BE(v, w) == [i \in 1..w |-> Shr8(v, w - i) % 256]

\* read_i32 / read_i64 ::<NetworkEndian> and I32::get: two's complement.
SignedBE(s) ==
    FoldLeft(LAMBDA acc, b : acc * 256 + b,
             IF Head(s) >= 128 THEN Head(s) - 256 ELSE Head(s), Tail(s))
\* read_u16::<NetworkEndian> and U16::get.
UnsignedBE(s) == FoldLeft(LAMBDA acc, b : acc * 256 + b, 0, s)

\* The w bytes of b after the first off (b[off..off + w] in Rust).
Bytes(b, off, w) == SubSeq(b, off + 1, off + w)
\* chunks_exact(w) of b: the whole w-byte chunks, a shorter rest ignored.
ChunksExact(b, w) == [i \in 1..(Len(b) \div w) |-> Bytes(b, (i - 1) * w, w)]

\* PROTOCOL_IDENTIFIER = 4_497_486_125_440 = 0x0000_0417_2710_1980.
ProtocolIdentifier == <<0, 0, 4, 23, 39, 16, 25, 128>>

InfoHash(h) == [i \in 1..HashLen |-> h]

\* Stand-ins for the error texts (each is written and read byte for byte).
MsgInvalidEvent == <<69>>      \* "Invalid announce event"
MsgInvalidHashes == <<72>>     \* "Invalid info hash list. ..."
MsgNotAllowed == <<78>>        \* "Info hash not allowed"
MsgInvalidAction == <<65>>     \* "Invalid action"

(***************************************************************************)
(* Requests: Request::write_bytes and Request::parse_bytes.               *)
(***************************************************************************)
ConnectRequestBytes(r) == ProtocolIdentifier \o BE(0, 4) \o BE(r.tid, 4)
\* as_bytes of the packed AnnounceRequest, fields in declaration order.
AnnounceRequestBytes(r) ==
    r.cid \o BE(1, 4) \o BE(r.tid, 4) \o r.hash \o r.peerId
    \o r.downloaded \o r.left \o r.uploaded
    \o BE(r.event, 4) \o r.ip \o BE(r.key, 4) \o BE(r.wanted, 4) \o BE(r.port, 2)
ScrapeRequestBytes(r) ==
    r.cid \o BE(2, 4) \o BE(r.tid, 4) \o FlattenSeq(r.hashes)
WriteRequest(r) ==
    CASE r.action = 0 -> ConnectRequestBytes(r)
      [] r.action = 1 -> AnnounceRequestBytes(r)
      [] r.action = 2 -> ScrapeRequestBytes(r)

\* AnnounceEvent, its declaration order giving the discriminants 0..3.
AnnounceEvents == <<"None", "Completed", "Started", "Stopped">>
\* From<AnnounceEvent> for AnnounceEventBytes: I32::new(value as i32).
AnnounceEventToBytes(ev) == CHOOSE i \in 0..3 : AnnounceEvents[i + 1] = ev
\* From<AnnounceEventBytes> for AnnounceEvent, with the wire values swapped.
AnnounceEventFromBytesSwapped(i) ==
    CASE i = 1 -> "Started" [] i = 2 -> "Completed" [] i = 3 -> "Stopped"
      [] OTHER -> "None"
\* From<AnnounceEventBytes> for AnnounceEvent: 1, 2, 3 by name, anything
\* else None.
AnnounceEventFromBytes(i) ==
    CASE i = 1 -> "Completed" [] i = 2 -> "Started" [] i = 3 -> "Stopped"
      [] OTHER -> "None"

NoRequest == [action |-> -1]
Parsed(kind, req, cid, tid, msg) ==
    [kind |-> kind, req |-> req, cid |-> cid, tid |-> tid, msg |-> msg]
Ok(req) == Parsed("ok", req, <<>>, 0, <<>>)
Sendable(cid, tid, msg) == Parsed("sendable", NoRequest, cid, tid, msg)
Unsendable == Parsed("unsendable", NoRequest, <<>>, 0, <<>>)

ReadAnnouncePortSigned(b) ==
    [action |-> 1, cid |-> Bytes(b, 0, 8),
     tid |-> SignedBE(Bytes(b, 12, 4)), hash |-> Bytes(b, 16, 20),
     peerId |-> Bytes(b, 36, 20), downloaded |-> Bytes(b, 56, 8),
     left |-> Bytes(b, 64, 8), uploaded |-> Bytes(b, 72, 8),
     event |-> SignedBE(Bytes(b, 80, 4)), ip |-> Bytes(b, 84, 4),
     key |-> SignedBE(Bytes(b, 88, 4)), wanted |-> SignedBE(Bytes(b, 92, 4)),
     port |-> SignedBE(Bytes(b, 96, 2))]
ReadAnnounceTidAtAction(b) ==
    [action |-> 1, cid |-> Bytes(b, 0, 8),
     tid |-> SignedBE(Bytes(b, 8, 4)), hash |-> Bytes(b, 16, 20),
     peerId |-> Bytes(b, 36, 20), downloaded |-> Bytes(b, 56, 8),
     left |-> Bytes(b, 64, 8), uploaded |-> Bytes(b, 72, 8),
     event |-> SignedBE(Bytes(b, 80, 4)), ip |-> Bytes(b, 84, 4),
     key |-> SignedBE(Bytes(b, 88, 4)), wanted |-> SignedBE(Bytes(b, 92, 4)),
     port |-> UnsignedBE(Bytes(b, 96, 2))]
\* AnnounceRequest::read_from_prefix: the first 98 bytes, field by field.
ReadAnnounce(b) ==
    [action |-> 1, cid |-> Bytes(b, 0, 8),
     tid |-> SignedBE(Bytes(b, 12, 4)), hash |-> Bytes(b, 16, 20),
     peerId |-> Bytes(b, 36, 20), downloaded |-> Bytes(b, 56, 8),
     left |-> Bytes(b, 64, 8), uploaded |-> Bytes(b, 72, 8),
     event |-> SignedBE(Bytes(b, 80, 4)), ip |-> Bytes(b, 84, 4),
     key |-> SignedBE(Bytes(b, 88, 4)), wanted |-> SignedBE(Bytes(b, 92, 4)),
     port |-> UnsignedBE(Bytes(b, 96, 2))]

ParseRequest(b, max) ==
    IF Len(b) < 12 THEN Unsendable                     \* "Couldn't parse action"
    ELSE LET action == SignedBE(Bytes(b, 8, 4))
             cid == Bytes(b, 0, 8)
             tid == SignedBE(Bytes(b, 12, 4))
             rest == SubSeq(b, 17, Len(b))
         IN CASE action = 0 ->
                   IF Len(b) < 16 \/ Bytes(b, 0, 8) # ProtocolIdentifier
                   THEN Unsendable
                   ELSE Ok([action |-> 0, tid |-> tid])
              [] action = 1 ->
                   IF Len(b) < 98 THEN Unsendable      \* "invalid data"
                   ELSE IF ReadAnnounce(b).event \in 0..3
                        THEN Ok(ReadAnnounce(b))
                        ELSE Sendable(cid, tid, MsgInvalidEvent)
              [] action = 2 ->
                   IF Len(b) < 16 THEN Unsendable
                   ELSE IF Len(rest) % HashLen # 0      \* slice_from fails
                        THEN Sendable(cid, tid, MsgInvalidHashes)
                        ELSE LET hs == ChunksExact(rest, HashLen)
                             IN Ok([action |-> 2, cid |-> cid, tid |-> tid,
                                    hashes |-> SubSeq(hs, 1, Min({max, Len(hs)}))])
              [] OTHER -> Unsendable                   \* "Invalid action"

(***************************************************************************)
(* Responses: Response::write and Response::from_bytes.                   *)
(***************************************************************************)
ConnectResponse(tid, cid) == [action |-> 0, tid |-> tid, cid |-> cid]
AnnounceResponse(action, tid, interval, leechers, seeders, peers) ==
    [action |-> action, tid |-> tid, interval |-> interval,
     leechers |-> leechers, seeders |-> seeders, peers |-> peers]
ScrapeResponse(tid, stats) == [action |-> 2, tid |-> tid, stats |-> stats]
ErrorResponse(tid, msg) == [action |-> 3, tid |-> tid, message |-> msg]

WriteResponse(r) ==
    CASE r.action = 0 -> BE(0, 4) \o BE(r.tid, 4) \o r.cid
      [] r.action \in {1, 4} ->                \* AnnounceIpv4 / AnnounceIpv6
            BE(r.action, 4) \o BE(r.tid, 4) \o BE(r.interval, 4)
            \o BE(r.leechers, 4) \o BE(r.seeders, 4)
            \o FlattenSeq([i \in DOMAIN r.peers |->
                             r.peers[i].ip \o BE(r.peers[i].port, 2)])
      [] r.action = 2 ->
            BE(2, 4) \o BE(r.tid, 4)
            \o FlattenSeq([i \in DOMAIN r.stats |->
                             BE(r.stats[i].seeders, 4) \o BE(r.stats[i].completed, 4)
                             \o BE(r.stats[i].leechers, 4)])
      [] r.action = 3 -> BE(3, 4) \o BE(r.tid, 4) \o r.message

\* Peer chunks of an announce response: ip octets then a u16 port.
ReadPeers(b, ipLen) ==
    [i \in DOMAIN ChunksExact(b, ipLen + 2) |->
        [ip |-> Bytes(ChunksExact(b, ipLen + 2)[i], 0, ipLen),
         port |-> UnsignedBE(Bytes(ChunksExact(b, ipLen + 2)[i], ipLen, 2))]]
ReadStatsSwapped(b) ==
    [i \in DOMAIN ChunksExact(b, 12) |->
        [seeders |-> SignedBE(Bytes(ChunksExact(b, 12)[i], 0, 4)),
         completed |-> SignedBE(Bytes(ChunksExact(b, 12)[i], 8, 4)),
         leechers |-> SignedBE(Bytes(ChunksExact(b, 12)[i], 4, 4))]]
ReadStats(b) ==
    [i \in DOMAIN ChunksExact(b, 12) |->
        [seeders |-> SignedBE(Bytes(ChunksExact(b, 12)[i], 0, 4)),
         completed |-> SignedBE(Bytes(ChunksExact(b, 12)[i], 4, 4)),
         leechers |-> SignedBE(Bytes(ChunksExact(b, 12)[i], 8, 4))]]

\* Result of from_bytes: ok = FALSE for its io::Error (too few bytes).
Decoded(r) == [ok |-> TRUE, resp |-> r]
DecodeError == [ok |-> FALSE, resp |-> [action |-> -1]]
ResponseFromBytes(b) ==
    IF Len(b) < 8 THEN DecodeError
    ELSE LET action == SignedBE(Bytes(b, 0, 4))
             tid == SignedBE(Bytes(b, 4, 4))
         IN CASE action = 0 ->
                   IF Len(b) < 16 THEN DecodeError
                   ELSE Decoded(ConnectResponse(tid, Bytes(b, 8, 8)))
              [] action \in {1, 4} ->
                   IF Len(b) < 20 THEN DecodeError
                   ELSE Decoded(AnnounceResponse(action, tid,
                          SignedBE(Bytes(b, 8, 4)), SignedBE(Bytes(b, 12, 4)),
                          SignedBE(Bytes(b, 16, 4)),
                          ReadPeers(SubSeq(b, 21, Len(b)), IF action = 1 THEN 4 ELSE 16)))
              [] action = 2 -> Decoded(ScrapeResponse(tid, ReadStats(SubSeq(b, 9, Len(b)))))
              [] action = 3 -> Decoded(ErrorResponse(tid, SubSeq(b, 9, Len(b))))
              [] OTHER -> Decoded(ErrorResponse(tid, MsgInvalidAction))

-----------------------------------------------------------------------------
(***************************************************************************)
(* One exchange.                                                           *)
(***************************************************************************)
VARIABLES
    stage,    \* "idle", "sent", "answered", "noReply" or "done"
    sentReq,  \* the request the client wrote
    src,      \* its source address: family, and whether the port is zero
    wire,     \* the datagram as the socket worker receives it
    mangled,  \* whether the datagram was changed on the way
    parsed,   \* the result of parse_bytes
    answer,   \* the response the server sends, or NoResponse
    reply,    \* the response's bytes
    got       \* the client's Response::from_bytes of them

vars == <<stage, sentReq, src, wire, mangled, parsed, answer, reply, got>>

NoResponse == [action |-> -1]
Srcs == {[fam |-> "v4", portZero |-> FALSE], [fam |-> "v6", portZero |-> FALSE],
         [fam |-> "v4", portZero |-> TRUE]}

\* The requests clients send: connect, announce and scrape with boundary
\* values in the fields (a u16 port above i16 range, negative i32s).
Requests ==
    {[action |-> 0, tid |-> t] : t \in Tids}
    \cup {[action |-> 1, cid |-> c, tid |-> t, hash |-> InfoHash(h),
           peerId |-> InfoHash(255), downloaded |-> BE(0, 8), left |-> BE(-1, 8),
           uploaded |-> BE(0, 8),
           event |-> AnnounceEventToBytes(ev), ip |-> <<0, 0, 0, 0>>, key |-> -1,
           wanted |-> -1, port |-> 65535] :
          c \in {ValidCid, OtherCid}, t \in Tids, h \in HashBytes,
          ev \in Range(AnnounceEvents)}
    \cup {[action |-> 2, cid |-> c, tid |-> t,
           hashes |-> [i \in DOMAIN hs |-> InfoHash(hs[i])]] :
          c \in {ValidCid, OtherCid}, t \in Tids,
          hs \in BoundedSeq(HashBytes, MaxHashes) \ {<<>>}}

\* What can happen to a datagram on the way: cut short (inside the action
\* or transaction id, or by one byte), one byte longer, the action or the
\* announce event overwritten, the first byte (connection or protocol id)
\* overwritten.
Mangled(w) ==
    {SubSeq(w, 1, 11), SubSeq(w, 1, 15), Front(w), w \o <<0>>,
     ReplaceAt(w, 12, 5), ReplaceAt(w, 1, 1)}
    \cup (IF Len(w) >= 98 THEN {ReplaceAt(w, 84, 4)} ELSE {})

ConnectionIdValid(cid) == cid = ValidCid
AllowedHash(hash) == \E h \in Allowed : hash = InfoHash(h)

\* The swarm worker's answers: counts and peers from its swarm; the peers
\* have the family of the announcing client.
AnnounceAnswers(r, fam) ==
    {AnnounceResponse(IF fam = "v4" THEN 1 ELSE 4, r.tid, AnnounceInterval,
                      1, 2, ps) :
     ps \in {<<>>, <<[ip |-> [i \in 1..(IF fam = "v4" THEN 4 ELSE 16) |-> 200],
                      port |-> 65535]>>}}
ScrapeAnswer(r) ==
    ScrapeResponse(r.tid, [i \in DOMAIN r.hashes |->
        [seeders |-> r.hashes[i][1], completed |-> 0, leechers |-> r.hashes[i][1] + 1]])

AnswersSendableUnchecked(p, s) ==
    IF s.portZero THEN {NoResponse}
    ELSE CASE p.kind = "unsendable" -> {NoResponse}
           [] p.kind = "sendable" -> {ErrorResponse(p.tid, p.msg)}
           [] p.req.action = 0 -> {ConnectResponse(p.req.tid, ValidCid)}
           [] ~ConnectionIdValid(p.req.cid) -> {NoResponse}
           [] p.req.action = 1 ->
                IF AllowedHash(p.req.hash) THEN AnnounceAnswers(p.req, s.fam)
                ELSE {ErrorResponse(p.req.tid, MsgNotAllowed)}
           [] p.req.action = 2 -> {ScrapeAnswer(p.req)}
\* read_and_handle_requests for one datagram, then handle_request.
Answers(p, s) ==
    IF s.portZero THEN {NoResponse}
    ELSE CASE p.kind = "unsendable" -> {NoResponse}
           [] p.kind = "sendable" ->
                IF ConnectionIdValid(p.cid) THEN {ErrorResponse(p.tid, p.msg)}
                ELSE {NoResponse}
           [] p.req.action = 0 -> {ConnectResponse(p.req.tid, ValidCid)}
           [] ~ConnectionIdValid(p.req.cid) -> {NoResponse}
           [] p.req.action = 1 ->
                IF AllowedHash(p.req.hash) THEN AnnounceAnswers(p.req, s.fam)
                ELSE {ErrorResponse(p.req.tid, MsgNotAllowed)}
           [] p.req.action = 2 -> {ScrapeAnswer(p.req)}

ClientSend(r, s) ==
    /\ stage \in {"idle", "noReply", "done"}
    /\ stage' = "sent" /\ sentReq' = r /\ src' = s
    /\ wire' = WriteRequest(r) /\ mangled' = FALSE
    /\ parsed' = Unsendable /\ answer' = NoResponse /\ reply' = <<>>
    /\ got' = DecodeError

Mangle ==
    /\ stage = "sent" /\ ~mangled
    /\ \E w \in Mangled(wire) : wire' = w
    /\ mangled' = TRUE
    /\ UNCHANGED <<stage, sentReq, src, parsed, answer, reply, got>>

\* The socket worker reads, parses and answers; send_response writes the
\* response into its buffer with Response::write.
ServerReceive ==
    /\ stage = "sent"
    /\ parsed' = ParseRequest(wire, MaxScrapeTorrents)
    /\ \E a \in Answers(parsed', src) :
          /\ answer' = a
          /\ stage' = IF a = NoResponse THEN "noReply" ELSE "answered"
          /\ reply' = IF a = NoResponse THEN <<>> ELSE WriteResponse(a)
    /\ UNCHANGED <<sentReq, src, wire, mangled, got>>

ClientReceive ==
    /\ stage = "answered"
    /\ got' = ResponseFromBytes(reply)
    /\ stage' = "done"
    /\ UNCHANGED <<sentReq, src, wire, mangled, parsed, answer, reply>>

Init ==
    /\ stage = "idle" /\ sentReq = NoRequest /\ src = [fam |-> "v4", portZero |-> FALSE]
    /\ wire = <<>> /\ mangled = FALSE /\ parsed = Unsendable
    /\ answer = NoResponse /\ reply = <<>> /\ got = DecodeError

Next ==
    \/ \E r \in Requests, s \in Srcs : ClientSend(r, s)
    \/ Mangle \/ ServerReceive \/ ClientReceive

Spec == Init /\ [][Next]_vars

-----------------------------------------------------------------------------
IsBytes(b) == \A i \in DOMAIN b : b[i] \in 0..255

(* Datagrams and response buffers hold bytes, and the exchange is in one  *)
(* of its stages.                                                          *)
TypeOK ==
    /\ stage \in {"idle", "sent", "answered", "noReply", "done"}
    /\ mangled \in BOOLEAN
    /\ parsed.kind \in {"ok", "sendable", "unsendable"}
    /\ IsBytes(wire) /\ IsBytes(reply)

\* What parse_bytes should return for an unchanged datagram of r: r, with
\* a scrape's info hashes cut to max_scrape_torrents.
ExpectedParse(r) ==
    IF r.action = 2
    THEN Ok([r EXCEPT !.hashes = SubSeq(r.hashes, 1, Min({MaxScrapeTorrents, Len(r.hashes)}))])
    ELSE Ok(r)

(* Every announce parse_bytes accepts, from any datagram, carries an      *)
(* event value that the swarm worker's AnnounceEvent::from reads as an    *)
(* event whose own wire value (AnnounceEventBytes::from) it is: the note  *)
(* on AnnounceEventBytes says parse_bytes only lets 0..=3 through, and the *)
(* match in From<AnnounceEventBytes> must agree with the enum's order.    *)
AnnounceEventBytesAgree ==
    (parsed.kind = "ok" /\ parsed.req.action = 1)
        => AnnounceEventToBytes(AnnounceEventFromBytes(parsed.req.event)) = parsed.req.event

(* A request the client wrote and nobody changed is parsed by parse_bytes *)
(* into the request written by write_bytes: every field at its offset,    *)
(* signed and unsigned fields read back with their sign, and a scrape's   *)
(* info hashes in order, cut to max_scrape_torrents.                       *)
RequestDecodedAsEncoded ==
    (stage \in {"answered", "noReply", "done"} /\ ~mangled)
        => parsed = ExpectedParse(sentReq)

(* The client reads back with Response::from_bytes exactly the response   *)
(* the socket worker wrote with Response::write: same kind, IPv4 or IPv6  *)
(* peers, every count, peer and statistic.                                 *)
ResponseDecodedAsEncoded ==
    stage = "done" => got = Decoded(answer)

(* Whatever reached the socket worker, mangled or not, the response the   *)
(* client reads carries the transaction id at bytes 12..16 of that         *)
(* datagram: through parse errors with a sendable reply, connect,         *)
(* announce, scrape and access-list denials.                               *)
ReplyEchoesTransactionId ==
    stage = "done" => got.resp.tid = SignedBE(Bytes(wire, 12, 4))

(* Only a connect is answered without a valid connection id at bytes 0..8 *)
(* of the datagram: an unauthenticated (possibly spoofed) source gets no  *)
(* error, announce or scrape reply, including for malformed datagrams.    *)
ReplyOnlyWithValidConnectionId ==
    (stage \in {"answered", "done"} /\ answer.action # 0)
        => Bytes(wire, 0, 8) = ValidCid

====
