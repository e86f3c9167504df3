------------------------------ MODULE MCRequests ----------------------------
(* How the requests for a track are met: its registry, the forwarding of its   *)
(* PUBLISH to a SUBSCRIBE_TRACKS holder, the error of a SUBSCRIBE no candidate *)
(* serves, the tokens requests carry, and the answers on a request's stream.   *)
EXTENDS TrackRegistry, TLC

CONSTANTS p1, p2, p3, qp, s1, s2, h, a1, a2, w, v1, v2, NoValue

VARIABLES
    part,
    holder, covers, moves, forwardUp, gen, epoch, forwardSub, dst, held,
    claimed, skipped, off, fwd, owed,
    last, seen,
    foreign, setup, phase, limit, entries, used, tokensClosed, resolved,
    tokensHeld, view, open, stream, queue, await, answers, ops, lost, misread,
    call, waiters, routing, result, brokerClosed, updated, serve, violation,
    nsPrefix, namespaces, nsPrefixLost, toPeer, toUs, peerPrefix, peerNames,
    peerDone, announced, rude, gaveUp

(* No cast has every session: p1 and p2 stay, p3 may leave, qp PUBLISHes, h is *)
(* held for a publisher.                                                       *)
MCCasts == {{p1, p2, s1, s2}, {p3, s1, s2}, {p3, qp, s1}, {p1, p2, qp, s1},
            {p3, s1, h}, {p1, p3, h}, {qp, p3, h}}

(* The parts share model values: p1 and p2 are tokens' aliases too, s1 and s2  *)
(* the SUBSCRIBEs a PUBLISH is forwarded beside and the requests with tokens.  *)
Symmetry == Permutations({p1, p2}) \cup Permutations({s1, s2})

(* Two publishers; a publisher and a SUBSCRIBE; two SUBSCRIBEs; the subscriber *)
(* publishing the track itself.                                                *)
ForwardCasts == {{a1, a2}, {a1, s1}, {s1, s2}, {a1, w}}

F == INSTANCE TrackForward WITH
    Feeds <- {a1, a2, w}, Own <- {w}, Subs <- {s1, s2}, MaxFwd <- 2,
    MaxMoves <- 1, Casts <- ForwardCasts, up <- forwardUp, sub <- forwardSub
E == INSTANCE CandidateErrors WITH
    Retries <- {0, 1, 2, 3}, GoingAwayRetry <- 2, LoadRetry <- 2,
    MaxSeen <- 3

(* The second REQUEST_UPDATE goes back to the first prefix, the third keeps it. *)
PrefixOf == "u1" :> "p2" @@ "u2" :> "p1" @@ "u3" :> "none"

T == INSTANCE Tokens WITH
    Aliases <- {p1, p2}, Values <- {v1, v2}, Reqs <- {s1, s2},
    Cost <- v1 :> 1 @@ v2 :> 2, Limits <- {0, 3}, None <- NoValue, MaxOps <- 4,
    closed <- tokensClosed, held <- tokensHeld
B == INSTANCE RequestBroker WITH
    Updates <- {"u1", "u2", "u3"}, NSPrefixes <- {"p1", "p2"},
    Names <- {"x"}, PrefixOf <- PrefixOf, FirstPrefix <- "p1",
    MaxNames <- 2, None <- "none", closed <- brokerClosed

forwardVars == <<holder, covers, moves, forwardUp, gen, epoch, forwardSub,
                 dst, held, claimed, skipped, off, fwd, owed>>
errorsVars == <<last, seen>>
tokensVars == <<foreign, setup, phase, limit, entries, used, tokensClosed,
                resolved, tokensHeld, view, open, stream, queue, await,
                answers, ops, lost, misread>>
brokerVars == <<call, waiters, routing, result, brokerClosed, updated,
                serve, violation, nsPrefix, namespaces, nsPrefixLost,
                toPeer, toUs, peerPrefix, peerNames, peerDone, announced,
                rude, gaveUp>>

all == <<part, vars, forwardVars, errorsVars, tokensVars, brokerVars>>

(* One part of the system at a time; the others stay in an initial state. *)
PartsInit ==
    /\ part \in {"registry", "forward", "errors", "tokens", "broker"}
    /\ Init /\ (part = "registry" \/ (pubSeq[p1] = 0 /\ sub[s1].pc = "idle" /\ sub[s2].pc = "idle"))
    /\ F!Init /\ (part = "forward" \/ (covers /\ off[a2].pc = "idle"))
    /\ E!Init
    /\ T!Init /\ (part = "tokens" \/ (~foreign /\ setup = <<>> /\ limit = 3))
    /\ B!Init

PartsNext ==
    \/ /\ part = "registry" /\ Next
       /\ UNCHANGED <<part, forwardVars, errorsVars, tokensVars, brokerVars>>
    \/ /\ part = "forward" /\ F!Next
       /\ UNCHANGED <<part, vars, errorsVars, tokensVars, brokerVars>>
    \/ /\ part = "errors" /\ E!Next
       /\ UNCHANGED <<part, vars, forwardVars, tokensVars, brokerVars>>
    \/ /\ part = "tokens" /\ T!Next
       /\ UNCHANGED <<part, vars, forwardVars, errorsVars, brokerVars>>
    \/ /\ part = "broker" /\ B!Next
       /\ UNCHANGED <<part, vars, forwardVars, errorsVars, tokensVars>>

PartsSpec == PartsInit /\ [][PartsNext]_all
-----------------------------------------------------------------------------
(* A SUBSCRIBE_TRACKS holder is offered a track exactly once: not twice, not   *)
(* beside its own SUBSCRIBE, and not never (forwardTrack).                     *)
OfferedExactlyOnce == part = "forward" => F!TypeOK /\ F!OfferedExactlyOnce

(* What the candidates' errors decide is what all of them said: the answer, in *)
(* whatever order they came, and whether to go on waiting (preferCandidateErr).*)
CandidatesAgree == part = "errors" => E!TypeOK /\ E!CandidatesAgree

(* Both sides' ideas of the token cache agree, from SETUP on, and the cache's  *)
(* own accounting is exact (token_verify.go, token_cache.go).                  *)
CachesAgree == part = "tokens" => T!TypeOK /\ T!CachesAgree

(* Each answer on a request's stream is for the update it is given to, no      *)
(* update waits without a reader, and the names read are the peer's.           *)
UpdatesInStep == part = "broker" => B!TypeOK /\ B!UpdatesInStep
=============================================================================
