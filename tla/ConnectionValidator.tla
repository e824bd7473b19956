------------------------- MODULE ConnectionValidator -------------------------
(***************************************************************************)
(* The UDP connection id minting and checking of                           *)
(* src/crates/udp/src/workers/socket/validator.rs, facing an attacker who  *)
(* sees every id the tracker hands out, may send from any source address   *)
(* (spoofing), may rewrite the timestamp half of an id, and may get lucky  *)
(* brute-forcing the 32-bit hash half for a timestamp of its choice.       *)
(*                                                                         *)
(* The keyed BLAKE3 hash is taken to be a PRF: its output for (elapsed,    *)
(* ip) is modelled as the opaque pair Tag(elapsed, ip), equal only for     *)
(* equal inputs.  The attacker cannot compute a tag; it can only copy one  *)
(* from an observed id or hit one by brute force (BruteForce).             *)
(***************************************************************************)
EXTENDS Naturals, FiniteSets, Functions, TLC

CONSTANTS
    Ips,               \* client IP addresses (model values)
    MaxConnectionAge,  \* config.cleaning.max_connection_age, seconds
    ElapsedWidth,      \* bits of the elapsed half of an id (32 in the code)
    MaxTime            \* bound on the tracker clock

ASSUME MaxConnectionAge \in Nat /\ ElapsedWidth \in Nat \ {0} /\ MaxTime \in Nat

VARIABLES
    now,           \* seconds since the validator was created (start_time)
    issued,        \* set of <<ip, id>>: ids create_connection_id returned
    firstAccepted, \* accepted id -> the first second it was accepted
    lastAccepted   \* the latest acceptance: [src, id, how, at]

vars == <<now, issued, firstAccepted, lastAccepted>>

Elapsed == 0..(2^ElapsedWidth - 1)

\* hash(): truncated keyed BLAKE3 of the elapsed bytes and the IP octets.
TagIgnoringElapsed(elapsed, ip) == <<0, ip>>
Tag(elapsed, ip) == <<elapsed, ip>>

ConnectionId(elapsed, ip) == [elapsed |-> elapsed, hash |-> Tag(elapsed, ip)]

\* create_connection_id: (elapsed secs as u32) ++ hash(elapsed, ip)
CreatedIdUnwrapped(ip) == ConnectionId(now, ip)
CreatedId(ip) == ConnectionId(now % 2^ElapsedWidth, ip)

\* connection_id_valid: hash matches, not expired, not from the future.
ConnectionIdValidNoFutureCheck(src, id) ==
    /\ id.hash = Tag(id.elapsed, src)
    /\ id.elapsed + MaxConnectionAge > now
ConnectionIdValid(src, id) ==
    /\ id.hash = Tag(id.elapsed, src)
    /\ id.elapsed + MaxConnectionAge > now
    /\ id.elapsed <= now

NoAcceptance == [how |-> "none"]

\* Record that src had id accepted now, obtained by way of how.
Accept(src, id, how) ==
    /\ firstAccepted' = IF id \in DOMAIN firstAccepted THEN firstAccepted
                        ELSE firstAccepted @@ (id :> now)
    /\ lastAccepted' = [src |-> src, id |-> id, how |-> how, at |-> now]

\* A Connect request from ip: the tracker mints an id and sends it back.
Connect(ip) ==
    /\ issued' = issued \cup {<<ip, CreatedId(ip)>>}
    /\ UNCHANGED <<now, firstAccepted, lastAccepted>>

(***************************************************************************)
(* An announce or scrape carrying an id seen on the wire, sent from src    *)
(* (the rightful owner, or a spoofed source), with its elapsed half kept   *)
(* or rewritten to e.  Accepted ids are recorded; rejected ones are        *)
(* dropped silently.                                                       *)
(***************************************************************************)
Replay(src, owner, id, e) ==
    LET sent == [id EXCEPT !.elapsed = e]
    IN /\ <<owner, id>> \in issued
       /\ IF ConnectionIdValid(src, sent)
          THEN Accept(src, sent, "replay")
          ELSE UNCHANGED <<firstAccepted, lastAccepted>>
       /\ UNCHANGED <<now, issued>>

\* The attacker hit the right 32-bit hash for (e, src) after ~2^31 tries.
BruteForce(src, e) ==
    LET guess == ConnectionId(e, src)
    IN /\ ConnectionIdValid(src, guess)
       /\ Accept(src, guess, "guess")
       /\ UNCHANGED <<now, issued>>

Tick ==
    /\ now < MaxTime
    /\ now' = now + 1
    /\ UNCHANGED <<issued, firstAccepted, lastAccepted>>

Init ==
    /\ now = 0
    /\ issued = {}
    /\ firstAccepted = <<>>
    /\ lastAccepted = NoAcceptance

Next ==
    \/ \E ip \in Ips : Connect(ip)
    \/ \E src, owner \in Ips, p \in issued, e \in Elapsed :
         p[1] = owner /\ Replay(src, owner, p[2], e)
    \/ \E src \in Ips, e \in Elapsed : BruteForce(src, e)
    \/ Tick

Spec == Init /\ [][Next]_vars

-----------------------------------------------------------------------------
(* The clock, the ids create_connection_id hands out (elapsed within its  *)
(* u32-width field) and the acceptance records keep their shapes.         *)
TypeOK ==
    /\ now \in 0..MaxTime
    /\ issued \subseteq Ips \X [elapsed : Elapsed, hash : Elapsed \X Ips]
    /\ \A id \in DOMAIN firstAccepted : firstAccepted[id] \in 0..MaxTime

(* Spec P6 and the spoofing scenario, about hash() binding the id to the   *)
(* client IP and to the elapsed bytes: an id taken off the wire is only    *)
(* accepted from the address it was minted for and with the timestamp it  *)
(* was minted with; a spoofed source or a rewritten timestamp is dropped.  *)
ConnectionIdBindsSourceAndTime ==
    lastAccepted.how = "replay" => <<lastAccepted.src, lastAccepted.id>> \in issued

(* The security contract of the validator's doc comment, about the expiry  *)
(* and future-timestamp checks of connection_id_valid: any id, minted or   *)
(* brute-forced, is accepted only during less than max_connection_age      *)
(* seconds: every acceptance comes less than max_connection_age seconds    *)
(* after the first acceptance of the same id.                              *)
ForgedIdExpires ==
    lastAccepted # NoAcceptance =>
        lastAccepted.at - firstAccepted[lastAccepted.id] < MaxConnectionAge

=============================================================================
