----------------------------- MODULE RequestIDs -----------------------------
(* Request IDs of one direction of a session (session.go, request.go): the   *)
(* peer takes them from its own counter, +2 each; the requests ride separate *)
(* streams, so they are delivered in any order, and CheckPeerRequestID tells *)
(* a late one from a duplicate by the gaps it keeps below its high-water     *)
(* mark. Both ends are modelled; the network holds the requests in flight.   *)
EXTENDS Integers, FiniteSets

CONSTANTS
    MaxTracked, \* maxTrackedRequestIDGaps
    MaxID       \* bound: the largest Request ID of the instance

ASSUME MaxTrackedAssumption == MaxTracked \in Nat

VARIABLES
    role,      \* the checking side's role: the peer's IDs are even to a server
    next,      \* the peer's nextRequestID
    flight,    \* IDs of the requests the peer sent, not yet read
    seen,      \* peerRequestIDSeen
    max,       \* peerRequestIDMax
    gaps,      \* peerRequestIDGaps
    closed,    \* "open", or the violation the session was closed with
    accepted,  \* history: IDs that passed the check
    again,     \* history: IDs that passed it a second time
    faulty,    \* history: the peer sent an ID out of turn
    dropped    \* history: the cap made a gap unclaimable

vars == <<role, next, flight, seen, max, gaps, closed, accepted, again, faulty, dropped>>

IDs == 0..MaxID

PeerBase == IF role = "server" THEN 0 ELSE 1

TypeOK ==
    /\ role \in {"client", "server"}
    /\ next \in Nat
    /\ flight \subseteq Nat /\ gaps \subseteq Nat /\ accepted \subseteq Nat
    /\ again \subseteq accepted
    /\ max \in Nat
    /\ seen \in BOOLEAN /\ faulty \in BOOLEAN /\ dropped \in BOOLEAN
    /\ closed \in {"open", "parity", "duplicate"}

Init ==
    /\ role \in {"client", "server"}
    /\ next = PeerBase
    /\ flight = {} /\ gaps = {} /\ accepted = {} /\ again = {}
    /\ max = 0 /\ seen = FALSE
    /\ closed = "open"
    /\ faulty = FALSE /\ dropped = FALSE

(* The peer opens a request, or sends a REQUEST_UPDATE. *)
AllocRequestID ==
    /\ closed = "open"
    /\ next + 2 <= MaxID
    /\ next' = next + 2
    /\ flight' = flight \union {next}
    /\ UNCHANGED <<role, seen, max, gaps, closed, accepted, again, faulty, dropped>>

LoAfterFirst == IF seen THEN max + 2 ELSE PeerBase + 2
Lo == IF seen THEN max + 2 ELSE PeerBase

Skipped(rid) == IF rid > Lo THEN (rid - Lo) \div 2 ELSE 0

NewGapCount(rid) == IF Skipped(rid) < MaxTracked THEN Skipped(rid) ELSE MaxTracked

NewGaps(rid) == {rid - 2 * k : k \in 1..NewGapCount(rid)}

Below(id) == {g \in gaps : g < id}

(* The gaps left once the n lowest are deleted. *)
evictLowest(n) == {g \in gaps : Cardinality(Below(g)) >= n}

Excess(rid) == Cardinality(gaps) + NewGapCount(rid) - MaxTracked

recordRequestIDGaps(rid) ==
    /\ gaps' = evictLowest(Excess(rid)) \union NewGaps(rid)
    /\ dropped' = (dropped \/ Excess(rid) > 0 \/ NewGapCount(rid) < Skipped(rid))

Accept(rid) ==
    /\ accepted' = accepted \union {rid}
    /\ again' = IF rid \in accepted THEN again \union {rid} ELSE again
    /\ UNCHANGED closed

Refuse(code) ==
    /\ closed' = code
    /\ UNCHANGED <<seen, max, gaps, accepted, again, dropped>>

Advance(rid) ==
    /\ recordRequestIDGaps(rid)
    /\ seen' = TRUE
    /\ max' = rid
    /\ Accept(rid)

\* Fault: a claimed gap stays claimable.
ClaimGapKept(rid) ==
    /\ Accept(rid)
    /\ UNCHANGED <<seen, max, gaps, dropped>>

ClaimGap(rid) ==
    /\ gaps' = gaps \ {rid}
    /\ Accept(rid)
    /\ UNCHANGED <<seen, max, dropped>>

WrongParity(rid) == rid % 2 # PeerBase

CheckPeerRequestID(rid) ==
    \/ WrongParity(rid) /\ Refuse("parity")
    \/ ~WrongParity(rid) /\ (~seen \/ rid > max) /\ Advance(rid)
    \/ ~WrongParity(rid) /\ seen /\ rid <= max /\ rid \in gaps /\ ClaimGap(rid)
    \/ ~WrongParity(rid) /\ seen /\ rid <= max /\ rid \notin gaps /\ Refuse("duplicate")

(* A request the peer sent is read, in any order. *)
Receive(rid) ==
    /\ closed = "open"
    /\ rid \in flight
    /\ flight' = flight \ {rid}
    /\ CheckPeerRequestID(rid)
    /\ UNCHANGED <<role, next, faulty>>

(* A peer that does not take its IDs from the counter. *)
ReceiveStray(rid) ==
    /\ closed = "open"
    /\ faulty' = TRUE
    /\ CheckPeerRequestID(rid)
    /\ UNCHANGED <<role, next, flight>>

Next ==
    \/ AllocRequestID
    \/ \E rid \in flight : Receive(rid)
    \/ \E rid \in IDs : ReceiveStray(rid)

Spec == Init /\ [][Next]_vars
-----------------------------------------------------------------------------
(* IDs of the peer's sequence below the mark that never passed the check. *)
Missing == {id \in 0..max : seen /\ ~WrongParity(id) /\ id \notin accepted}

(* "each unseen ID below the mark stays claimable exactly once" (request.go): *)
(* no Request ID, however late or repeated, passes CheckPeerRequestID twice,  *)
(* so no request is served twice.                                             *)
ClaimedOnce == again = {}

(* A peer that takes its IDs in turn is never refused for the order in which  *)
(* the network delivers them, as long as the gaps it causes fit the cap.      *)
ReorderTolerated == closed # "open" => faulty \/ dropped

(* When the cap forces a choice the lowest gaps go first: every unseen ID     *)
(* that can no longer be claimed is older than every one that can.            *)
NewestClaimable == \A e \in Missing \ gaps, g \in gaps : e < g

(* However far the peer jumps ahead, at most the cap of gaps is remembered. *)
GapsBounded == Cardinality(gaps) <= MaxTracked
=============================================================================
