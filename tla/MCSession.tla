----------------------------- MODULE MCSession ------------------------------
(* A session: the Request IDs it checks, the data streams it places, the       *)
(* aliases that tell their track, the rendezvous of a FETCH with its stream    *)
(* and, each with the fairness of its own module, request streams, the         *)
(* control streams and the close, and the handshake.                           *)
EXTENDS RequestIDsProofs, InboundProofs, TLC

VARIABLES
    part,
    what, up, down, streamReq, ctx, early, streamSeen, peerDone, acc, resp, sent,
    finished, overtaken, streamClosed,
    out, wire, reset, conn, sendLoop, recvLoop, ending, cause, err, goaway,
    lapsed, rude,
    arriving, setupNext, setupCtx, group, sender, receiver, after, result,
    held, refused, given

MCDataStreams == 1..4
MCAliasTrack == "s1" :> "t1" @@ "s2" :> "t1" @@ "s3" :> "t2"

Ask(k, f, c) == [kind |-> k, first |-> f, careless |-> c]

SubscribeAndStatus == "r1" :> Ask("subscribe", "valid", FALSE) @@ "r2" :> Ask("status", "valid", FALSE)

(* A SUBSCRIBE beside a TRACK_STATUS; a request for a reserved namespace       *)
(* beside a careless responder's; a bad one.                                   *)
Cases ==
    {SubscribeAndStatus,
     "r1" :> Ask("namespace", "valid", TRUE) @@ "r2" :> Ask("status", "reserved", FALSE),
     "r1" :> Ask("fetch", "valid", TRUE) @@ "r2" :> Ask("status", "bad", FALSE)}

R == INSTANCE RequestStream WITH
    Requests <- {"r1", "r2"}, Cases <- Cases, seen <- streamSeen, req <- streamReq,
    closed <- streamClosed
C == INSTANCE SessionControl WITH
    Ends <- {"e1", "e2"}, Closers <- {"e1", "e2"}, Drainers <- {"e1"},
    MaxHandlers <- 2
H == INSTANCE Handshake WITH
    MaxStreams <- 3, MaxEarly <- 1, next <- setupNext, ctx <- setupCtx

streamVars == <<what, up, down, streamReq, ctx, early, streamSeen, peerDone, acc,
                resp, sent, finished, overtaken, streamClosed>>
controlVars == <<out, wire, reset, conn, sendLoop, recvLoop, ending, cause,
                 err, goaway, lapsed, rude>>
setupVars == <<arriving, setupNext, setupCtx, group, sender, receiver,
               after, result, held, refused, given>>
demuxVars == <<key, handled, fetch, parked, parkedN, retired, run, acceptedN,
               handing, handed, cancels>>
aliasVars == <<aliasSub, alias, aliasEnder, released, bound, refs, tableClosed,
               carries, pc, woken, earlyN>>
routerVars == <<pending, box, req, del, timers, fate>>

all == <<part, vars, streamVars, controlVars, setupVars, demuxVars, aliasVars,
         routerVars>>

(* The two aliases data streams come with are alike: x1 comes first. *)
FirstAliasFirst ==
    \A s \in DataStreams : key[s] = "x2" => \E r \in DataStreams : r < s /\ key[r] = "x1"

(* One part of the system at a time; the others stay in an initial state. *)
PartsInit ==
    /\ part \in {"ids", "stream", "control", "setup", "demux", "alias", "router"}
    /\ Init /\ (part = "ids" \/ (role = "client"))
    /\ R!Init /\ (part = "stream" \/ (what = SubscribeAndStatus))
    /\ C!Init
    /\ H!Init /\ (part = "setup" \/ (arriving = <<>>))
    /\ D!Init /\ (part = "demux" \/ (key = [s \in DataStreams |-> "x1"])) /\ FirstAliasFirst
    /\ A!Init
    /\ Q!Init

PartsNext ==
    \/ /\ part = "ids" /\ Next
       /\ UNCHANGED <<part, streamVars, controlVars, setupVars, demuxVars, aliasVars, routerVars>>
    \/ /\ part = "stream" /\ R!Next
       /\ UNCHANGED <<part, vars, controlVars, setupVars, demuxVars, aliasVars, routerVars>>
    \/ /\ part = "control" /\ C!Next
       /\ UNCHANGED <<part, vars, streamVars, setupVars, demuxVars, aliasVars, routerVars>>
    \/ /\ part = "setup" /\ H!Next
       /\ UNCHANGED <<part, vars, streamVars, controlVars, demuxVars, aliasVars, routerVars>>
    \/ /\ part = "demux" /\ D!Next
       /\ UNCHANGED <<part, vars, streamVars, controlVars, setupVars, aliasVars, routerVars>>
    \/ /\ part = "alias" /\ A!Next
       /\ UNCHANGED <<part, vars, streamVars, controlVars, setupVars, demuxVars, routerVars>>
    \/ /\ part = "router" /\ Q!Next
       /\ UNCHANGED <<part, vars, streamVars, controlVars, setupVars, demuxVars, aliasVars>>

PartsSpec ==
    /\ PartsInit /\ [][PartsNext]_all
    /\ R!Fairness
    /\ C!Fairness
-----------------------------------------------------------------------------
(* One request costs neither the session nor the accept loop, and what is      *)
(* written on its stream is read (request.go).                                 *)
RequestsHonoured == part = "stream" => R!TypeOK /\ R!RequestsHonoured

(* Both directions of a finished request's stream end at the responder,        *)
(* so the peer gets the stream credit back.                                    *)
CreditReturned == R!CreditReturned

(* The cause a session reports is the true one: the peer's code although the   *)
(* control streams break first, and no code the peer did not use (lossCause).  *)
TrueCause == part = "control" => C!TypeOK /\ C!TrueCause

(* A session ended on one side ends on the other, and the control loops        *)
(* of both exit.                                                               *)
EndSpreads == C!EndSpreads

(* The handshake keeps the streams it meets, all but early data streams past   *)
(* the limit, and hands on no control stream its cancellation touched.         *)
SetupKeepsStreams == part = "setup" => H!TypeOK /\ H!SetupKeepsStreams
=============================================================================
