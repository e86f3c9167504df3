--------------------------- MODULE MCSubscription ---------------------------
(* What a subscriber is owed: the lifecycle of its subscription, the datagrams *)
(* sent to it, the publication that opens, counts and ends its streams, and    *)
(* the answer of a TRACK_STATUS.                                               *)
EXTENDS DownstreamSub, OutboundProofs

VARIABLES
    part,
    rq, round, shared, away, subs

(* A client's request, and two of a publisher that may route the relay's own   *)
(* question back to it.                                                        *)
AskedBy(r) == IF r \in {"r2", "r3"} THEN "p1" ELSE "c"

T == INSTANCE TrackStatus WITH
    Requests <- {"r1", "r2", "r3"}, Publishers <- {"p1", "p2"},
    SessionOf <- AskedBy, RoutedBack <- {"r3"}, MaxSubs <- 1

datagramVars == <<came, loop, dgClaimed, dgCached, dgLargest, on, dgSub, queue,
                  stopped, sessDone, worker, hand, letGo, dgSent>>
publishVars == <<st, attributed, reset, pubWriter, next, datagram, pubLargest,
                 sent, paused, ended, cancelled, open, count, ender, taken,
                 streamCount>>
statusVars == <<rq, round, shared, away, subs>>

all == <<part, vars, datagramVars, publishVars, statusVars>>

(* One part of the system at a time; the others stay in an initial state. *)
PartsInit ==
    /\ part \in {"subscription", "datagram", "publish", "status"}
    /\ Init /\ (part = "subscription" \/ (~okSent))
    /\ G!Init
    /\ P!Init /\ (part = "publish" \/ (~paused))
    /\ T!Init

PartsNext ==
    \/ /\ part = "subscription" /\ Next
       /\ UNCHANGED <<part, datagramVars, publishVars, statusVars>>
    \/ /\ part = "datagram" /\ G!Next
       /\ UNCHANGED <<part, vars, publishVars, statusVars>>
    \/ /\ part = "publish" /\ P!Next
       /\ UNCHANGED <<part, vars, datagramVars, statusVars>>
    \/ /\ part = "status" /\ T!Next
       /\ UNCHANGED <<part, vars, datagramVars, publishVars>>

PartsSpec ==
    /\ PartsInit /\ [][PartsNext]_all
    /\ Fairness
    /\ T!Fairness
-----------------------------------------------------------------------------
(* Every forwarded TRACK_STATUS is answered without a timeout, one that        *)
(* is routed back to the relay included.                                       *)
ForwardSettles == T!ForwardSettles
=============================================================================
