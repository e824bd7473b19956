---------------------------- MODULE ScrapeService ----------------------------
(***************************************************************************)
(* What the UDP tracker promises a scrape client (spec sections 4.4, 5 and *)
(* P7), stated without shards, channels or registry: a scrape the server  *)
(* has accepted is answered at most once, with the response the whole      *)
(* request calls for, or it is forgotten (a pending entry pruned once      *)
(* expired, or one whose partial was dropped).  Nothing is answered that   *)
(* was not asked.                                                          *)
(***************************************************************************)
CONSTANTS
    Requests,       \* the scrapes clients may send
    ResponseTo(_),  \* the response a request calls for
    NoResponse      \* delivered before any response

VARIABLES
    asked,      \* requests the server has accepted
    open,       \* accepted requests still to be answered or forgotten
    delivered   \* the last response sent to a client

Accept(r) ==
    /\ r \notin asked
    /\ asked' = asked \cup {r}
    /\ open' = open \cup {r}
    /\ UNCHANGED delivered

Answer(r) ==
    /\ r \in open
    /\ open' = open \ {r}
    /\ delivered' = ResponseTo(r)
    /\ UNCHANGED asked

Forget(S) ==
    /\ S # {} /\ S \subseteq open
    /\ open' = open \ S
    /\ UNCHANGED <<asked, delivered>>

Init == asked = {} /\ open = {} /\ delivered = NoResponse

Next ==
    \/ \E r \in Requests : Accept(r) \/ Answer(r)
    \/ \E S \in SUBSET open : Forget(S)

Spec == Init /\ [][Next]_<<asked, open, delivered>>

=============================================================================
