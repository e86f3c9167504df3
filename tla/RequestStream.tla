--------------------------- MODULE RequestStream ---------------------------
(* A request stream from both ends (session/request.go, fetch.go, namespace.go, *)
(* track_status.go, requestmux.go): the requester opens it, writes its request  *)
(* and awaits the response, under a context that may end; the responder's one   *)
(* accept loop reads first messages, and its handler answers, rejects, sends    *)
(* follow-ups and ends the request. A direction loses what was in it when it is *)
(* reset, and may lose it when its reader stops reading.                        *)
EXTENDS Naturals, Sequences, SequencesExt

CONSTANTS
    Requests,
    Cases         \* what the requests may be: functions to [kind, first, careless]

NoRequest == "none"

(* What a request is: the responder of a careless one may send GOAWAY where    *)
(* §9.2 forbids it; a reserved one is for a namespace the session owns.        *)
Request == [kind : {"subscribe", "fetch", "status", "namespace"},
            first : {"valid", "reserved", "bad"}, careless : BOOLEAN]

VARIABLES
    what,         \* the case at hand
    up, down,     \* request -> direction [q, fin, reset, stopped] to and from the responder
    req,          \* request -> where its requester is
    ctx,          \* request -> its context is done
    early,        \* request -> a GOAWAY read ahead of the response, to be replayed
    seen,         \* request -> follow-ups the handle's reader got
    peerDone,     \* request -> the publisher's FIN was read
    acc,          \* what the accept loop is parsing, NoRequest, or "ended"
    resp,         \* request -> where its responder is
    sent,         \* request -> messages sent besides the response
    finished,     \* request -> how far writeThenClose is, "stored" once it recorded its FIN
    overtaken,    \* history: request -> the handle's Close began before writeThenClose returned
    closed        \* "open", or who closed the session

vars == <<what, up, down, req, ctx, early, seen, peerDone, acc, resp, sent, finished, overtaken, closed>>
requester == <<req, ctx, early, seen, peerDone>>
responder == <<acc, resp, sent, finished, overtaken>>
final == <<finished, overtaken>>

KindOf(r) == what[r].kind

Messages == {"valid", "reserved", "bad", "goaway", "ok", "okbad", "err", "note", "done"}
Direction == [q : Seq(Messages), fin : BOOLEAN, reset : BOOLEAN, stopped : BOOLEAN]

TypeOK ==
    /\ what \in Cases /\ what \in [Requests -> Request]
    /\ up \in [Requests -> Direction] /\ down \in [Requests -> Direction]
    /\ \A r \in Requests : Len(up[r].q) <= 1 /\ Len(down[r].q) <= 4
    /\ req \in [Requests -> {"new", "opened", "await", "again", "ok", "rejected", "failed", "closed"}]
    /\ ctx \in [Requests -> BOOLEAN] /\ early \in [Requests -> BOOLEAN]
    /\ seen \in [Requests -> Seq(Messages)] /\ sent \in [Requests -> Seq(Messages)]
    /\ peerDone \in [Requests -> BOOLEAN] /\ overtaken \in [Requests -> BOOLEAN]
    /\ finished \in [Requests -> {"idle", "wrote", "fin", "stored", "failed"}]
    /\ acc \in Requests \cup {NoRequest, "ended"}
    /\ resp \in [Requests -> {"none", "decide", "accepted", "closing", "draining", "followups", "gone"}]
    /\ closed \in {"open", "requester", "responder"}

Empty == [q |-> <<>>, fin |-> FALSE, reset |-> FALSE, stopped |-> FALSE]

Init ==
    /\ what \in Cases
    /\ up = [r \in Requests |-> Empty] /\ down = [r \in Requests |-> Empty]
    /\ req = [r \in Requests |-> "new"] /\ ctx = [r \in Requests |-> FALSE]
    /\ early = [r \in Requests |-> FALSE] /\ seen = [r \in Requests |-> <<>>]
    /\ peerDone = [r \in Requests |-> FALSE]
    /\ acc = NoRequest /\ resp = [r \in Requests |-> "none"]
    /\ sent = [r \in Requests |-> <<>>] /\ finished = [r \in Requests |-> "idle"]
    /\ overtaken = [r \in Requests |-> FALSE] /\ closed = "open"
-----------------------------------------------------------------------------
(* The transport, as session.Stream presents it. *)
Put(d, m) == [d EXCEPT !.q = Append(@, m)]
Take(d) == [d EXCEPT !.q = Tail(@)]
FIN(d) == IF d.reset THEN d ELSE [d EXCEPT !.fin = TRUE]
CancelWrite(d) == IF d.fin /\ d.q = <<>> THEN d ELSE [d EXCEPT !.reset = TRUE, !.q = <<>>, !.fin = FALSE]
CancelRead(d) == [d EXCEPT !.stopped = TRUE]
Ended(d) == d.reset \/ d.stopped \/ (d.fin /\ d.q = <<>>)
Writable(d) == ~d.stopped /\ ~d.reset /\ ~d.fin

(* resetStream and cancelRequest, which differ only in the code they carry, as *)
(* called by the requester and by the responder.                               *)
CancelRequest(r) ==
    up' = [up EXCEPT ![r] = CancelWrite(@)] /\ down' = [down EXCEPT ![r] = CancelRead(@)]
ResetStream(r) ==
    down' = [down EXCEPT ![r] = CancelWrite(@)] /\ up' = [up EXCEPT ![r] = CancelRead(@)]

responseFirst(k) == k = "namespace"
-----------------------------------------------------------------------------
(* The requester: openAllocRequest, then awaitRequestResponse. *)
OpenStream(r) ==
    /\ closed = "open" /\ req[r] = "new"
    /\ req' = [req EXCEPT ![r] = "opened"]
    /\ UNCHANGED <<up, down, ctx, early, seen, peerDone, responder, closed>>

writeFirst(r) ==
    /\ closed = "open" /\ req[r] = "opened" /\ Writable(up[r])
    /\ up' = [up EXCEPT ![r] = Put(@, what[r].first)]
    /\ req' = [req EXCEPT ![r] = "await"]
    /\ UNCHANGED <<down, ctx, early, seen, peerDone, responder, closed>>

writeFirstFails(r) ==
    /\ closed = "open" /\ req[r] = "opened"
    /\ CancelRequest(r)
    /\ req' = [req EXCEPT ![r] = "failed"]
    /\ UNCHANGED <<ctx, early, seen, peerDone, responder, closed>>

Cancel(r) ==
    /\ closed = "open" /\ req[r] \in {"await", "again"} /\ ~ctx[r]
    /\ ctx' = [ctx EXCEPT ![r] = TRUE]
    /\ UNCHANGED <<up, down, req, early, seen, peerDone, responder, closed>>

(* readResponse's AfterFunc. A response parsed before it fires is returned    *)
(* all the same, its stream then no longer readable.                          *)
AfterFires(r) ==
    /\ closed = "open" /\ req[r] \in {"await", "again"} /\ ctx[r] /\ ~down[r].stopped
    /\ down' = [down EXCEPT ![r] = CancelRead(@)]
    /\ UNCHANGED <<up, req, ctx, early, seen, peerDone, responder, closed>>

readResponseFails(r) ==
    /\ closed = "open" /\ req[r] \in {"await", "again"} /\ Ended(down[r])
    /\ up' = [up EXCEPT ![r] = FIN(@)]
    /\ req' = [req EXCEPT ![r] = "failed"]
    /\ UNCHANGED <<down, ctx, early, seen, peerDone, responder, closed>>

Response(r, m) == closed = "open" /\ req[r] \in {"await", "again"} /\ down[r].q # <<>> /\ Head(down[r].q) = m

(* One GOAWAY ahead of the response is read past, and put back by             *)
(* replayMessage for the handle's reader.                                     *)
EarlyGoaway(r) ==
    /\ Response(r, "goaway") /\ req[r] = "await" /\ ~responseFirst(KindOf(r))
    /\ down' = [down EXCEPT ![r] = Take(@)]
    /\ req' = [req EXCEPT ![r] = "again"]
    /\ early' = [early EXCEPT ![r] = TRUE]
    /\ UNCHANGED <<up, ctx, seen, peerDone, responder, closed>>

(* A second GOAWAY, or one where the response must come first.                *)
WrongGoaway(r) ==
    /\ Response(r, "goaway") /\ (req[r] = "again" \/ responseFirst(KindOf(r)))
    /\ req' = [req EXCEPT ![r] = "failed"]
    /\ closed' = "requester"
    /\ UNCHANGED <<up, down, ctx, early, seen, peerDone, responder>>

ResponseOK(r) ==
    /\ Response(r, "ok")
    /\ down' = [down EXCEPT ![r] = Take(@)]
    /\ up' = [up EXCEPT ![r] = IF KindOf(r) = "status" THEN FIN(@) ELSE @]
    /\ req' = [req EXCEPT ![r] = "ok"]
    /\ UNCHANGED <<ctx, early, seen, peerDone, responder, closed>>

(* Track Properties the requester does not support: it ends what it asked for. *)
ResponseUnusable(r) ==
    /\ Response(r, "okbad")
    /\ IF KindOf(r) = "status" THEN up' = [up EXCEPT ![r] = FIN(@)] /\ down' = [down EXCEPT ![r] = Take(@)]
       ELSE CancelRequest(r)
    /\ req' = [req EXCEPT ![r] = "failed"]
    /\ UNCHANGED <<ctx, early, seen, peerDone, responder, closed>>

\* Fault: the requester leaves its side of a rejected request open.
RejectedUnclosed(r) ==
    /\ Response(r, "err")
    /\ down' = [down EXCEPT ![r] = Take(@)]
    /\ req' = [req EXCEPT ![r] = "rejected"]
    /\ UNCHANGED <<up, ctx, early, seen, peerDone, responder, closed>>

Rejected(r) ==
    /\ Response(r, "err")
    /\ down' = [down EXCEPT ![r] = Take(@)]
    /\ up' = [up EXCEPT ![r] = FIN(@)]
    /\ req' = [req EXCEPT ![r] = "rejected"]
    /\ UNCHANGED <<ctx, early, seen, peerDone, responder, closed>>

(* The handle's reader. A handle counts its own GOAWAYs, so that a replayed   *)
(* one is its first.                                                          *)
ReadReplayed(r) ==
    /\ closed = "open" /\ req[r] = "ok" /\ early[r]
    /\ early' = [early EXCEPT ![r] = FALSE]
    /\ seen' = [seen EXCEPT ![r] = Append(@, "goaway")]
    /\ UNCHANGED <<up, down, req, ctx, peerDone, responder, closed>>

ReadFollowup(r) ==
    /\ closed = "open" /\ req[r] = "ok" /\ ~early[r] /\ KindOf(r) # "status" /\ down[r].q # <<>> /\ ~down[r].stopped
    /\ LET m == Head(down[r].q) IN
       IF m = "goaway" /\ Contains(seen[r], "goaway")
       THEN closed' = "requester" /\ UNCHANGED <<down, seen>>
       ELSE /\ down' = [down EXCEPT ![r] = Take(@)]
            /\ seen' = [seen EXCEPT ![r] = Append(@, m)]
            /\ UNCHANGED closed
    /\ UNCHANGED <<up, req, ctx, early, peerDone, responder>>

ReadEOF(r) ==
    /\ closed = "open" /\ req[r] = "ok" /\ ~early[r] /\ KindOf(r) = "subscribe"
    /\ down[r].fin /\ down[r].q = <<>> /\ ~down[r].stopped /\ ~peerDone[r]
    /\ peerDone' = [peerDone EXCEPT ![r] = TRUE]
    /\ UNCHANGED <<up, down, req, ctx, early, seen, responder, closed>>

(* Close of the handle, or of a TrackStatusRequest. *)
HandleClose(r) ==
    /\ closed = "open" /\ req[r] = "ok"
    /\ IF KindOf(r) = "status" THEN down' = [down EXCEPT ![r] = CancelRead(@)] /\ UNCHANGED up
       ELSE IF peerDone[r] THEN up' = [up EXCEPT ![r] = FIN(@)] /\ UNCHANGED down
       ELSE CancelRequest(r)
    /\ req' = [req EXCEPT ![r] = "closed"]
    /\ UNCHANGED <<ctx, early, seen, peerDone, responder, closed>>
-----------------------------------------------------------------------------
(* The responder's accept loop: one stream at a time, its first message read   *)
(* under the loop's context.                                                   *)
AcceptStream(r) ==
    /\ closed = "open" /\ acc = NoRequest /\ resp[r] = "none" /\ req[r] # "new"
    /\ acc' = r
    /\ UNCHANGED <<up, down, requester, resp, sent, final, closed>>

AcceptRequest(r) ==
    /\ closed = "open" /\ acc = r /\ up[r].q # <<>> /\ Head(up[r].q) = "valid"
    /\ up' = [up EXCEPT ![r] = Take(@)]
    /\ acc' = NoRequest /\ resp' = [resp EXCEPT ![r] = "decide"]
    /\ UNCHANGED <<down, requester, sent, final, closed>>

\* Fault: the rejection is followed by a reset, not a FIN.
RejectReset(r) ==
    /\ down' = [down EXCEPT ![r] = CancelWrite(@)] /\ resp' = [resp EXCEPT ![r] = "draining"]

(* Reject: REQUEST_ERROR and FIN, or a reset when it cannot be written.        *)
Reject(r) ==
    IF Writable(down[r])
    THEN down' = [down EXCEPT ![r] = FIN(Put(@, "err"))] /\ resp' = [resp EXCEPT ![r] = "draining"]
    ELSE down' = [down EXCEPT ![r] = CancelWrite(@)] /\ resp' = [resp EXCEPT ![r] = "gone"]

(* What a write that failed also stops reading: resetStream.                   *)
StopAfterReject(r, d) == IF Writable(down[r]) THEN d ELSE CancelRead(d)

AcceptReserved(r) ==
    /\ closed = "open" /\ acc = r /\ up[r].q # <<>> /\ Head(up[r].q) = "reserved"
    /\ up' = [up EXCEPT ![r] = StopAfterReject(r, Take(@))]
    /\ acc' = NoRequest
    /\ Reject(r)
    /\ UNCHANGED <<requester, sent, final, closed>>

(* Not a request opener, parameters out of scope, a Request ID or token fault: *)
(* each resets the stream and closes the session.                              *)
AcceptViolation(r) ==
    /\ closed = "open" /\ acc = r /\ up[r].q # <<>> /\ Head(up[r].q) = "bad"
    /\ ResetStream(r)
    /\ acc' = "ended" /\ resp' = [resp EXCEPT ![r] = "gone"]
    /\ closed' = "responder"
    /\ UNCHANGED <<requester, sent, final>>

(* A stream that ends before its first message fails that request only.        *)
AcceptCut(r) ==
    /\ closed = "open" /\ acc = r /\ up[r].q = <<>> /\ Ended(up[r])
    /\ ResetStream(r)
    /\ acc' = NoRequest /\ resp' = [resp EXCEPT ![r] = "gone"]
    /\ UNCHANGED <<requester, sent, final, closed>>
-----------------------------------------------------------------------------

(* The handler: Reply and the Accept* helpers, RejectError, follow-ups, Done.  *)
MayGoaway(r) ==
    what[r].careless \/ (~Contains(sent[r], "goaway") /\ (resp[r] = "decide" => ~responseFirst(KindOf(r))))

SendGoaway(r) ==
    /\ closed = "open" /\ resp[r] \in {"decide", "accepted"} /\ Writable(down[r])
    /\ finished[r] = "idle" /\ Len(sent[r]) < 2 /\ MayGoaway(r)
    /\ down' = [down EXCEPT ![r] = Put(@, "goaway")]
    /\ sent' = [sent EXCEPT ![r] = Append(@, "goaway")]
    /\ UNCHANGED <<up, requester, acc, resp, final, closed>>

Answer(r, m) ==
    /\ closed = "open" /\ resp[r] = "decide" /\ Writable(down[r])
    /\ down' = [down EXCEPT ![r] = IF KindOf(r) = "status" THEN FIN(Put(@, m)) ELSE Put(@, m)]
    /\ resp' = [resp EXCEPT ![r] = IF KindOf(r) = "status" THEN "followups" ELSE "accepted"]
    /\ UNCHANGED <<up, requester, acc, sent, final, closed>>

(* The response cannot be written: AcceptTrackStatus resets the stream, the    *)
(* other helpers return the error to a handler that does.                      *)
AnswerFails(r) ==
    /\ closed = "open" /\ resp[r] = "decide" /\ ~Writable(down[r])
    /\ ResetStream(r)
    /\ resp' = [resp EXCEPT ![r] = "gone"]
    /\ UNCHANGED <<requester, acc, sent, final, closed>>

RejectError(r) ==
    /\ closed = "open" /\ resp[r] = "decide"
    /\ Reject(r)
    /\ up' = [up EXCEPT ![r] = StopAfterReject(r, @)]
    /\ UNCHANGED <<requester, acc, sent, final, closed>>

(* WritePublishSkipped and its like, on the stream of a namespace request.     *)
SendNote(r) ==
    /\ closed = "open" /\ resp[r] = "accepted" /\ KindOf(r) = "namespace"
    /\ Writable(down[r]) /\ Len(sent[r]) < 2
    /\ down' = [down EXCEPT ![r] = Put(@, "note")]
    /\ sent' = [sent EXCEPT ![r] = Append(@, "note")]
    /\ UNCHANGED <<up, requester, acc, resp, final, closed>>

(* writeThenClose in its three steps: the message and the FIN, under the      *)
(* broker's write lock, and then finished. The handle's Close may run between *)
(* them: Done is also called by the broker's own goroutine (onUpdateFailed).  *)
writeFinal(r) ==
    /\ closed = "open" /\ resp[r] \in {"accepted", "closing"} /\ finished[r] = "idle"
    /\ KindOf(r) = "subscribe" /\ Writable(down[r])
    /\ down' = [down EXCEPT ![r] = Put(@, "done")]
    /\ sent' = [sent EXCEPT ![r] = Append(@, "done")]
    /\ finished' = [finished EXCEPT ![r] = "wrote"]
    /\ UNCHANGED <<up, requester, acc, resp, overtaken, closed>>

closeFinal(r) ==
    /\ closed = "open" /\ finished[r] = "wrote"
    /\ \/ ~down[r].reset /\ finished' = [finished EXCEPT ![r] = "fin"]
       \/ (down[r].reset \/ down[r].stopped) /\ finished' = [finished EXCEPT ![r] = "failed"]
    /\ down' = [down EXCEPT ![r] = IF finished'[r] = "fin" THEN FIN(@) ELSE @]
    /\ UNCHANGED <<up, requester, acc, resp, sent, overtaken, closed>>

storeFinished(r) ==
    /\ closed = "open" /\ finished[r] = "fin"
    /\ finished' = [finished EXCEPT ![r] = "stored"]
    /\ UNCHANGED <<up, down, requester, acc, resp, sent, overtaken, closed>>

(* Close of the responder's handle: where it loads finished as set, only      *)
(* reading is stopped; otherwise both directions are reset, a step later.     *)
CloseHandle(r) ==
    /\ closed = "open" /\ resp[r] = "accepted"
    /\ \/ /\ finished[r] = "stored" /\ up' = [up EXCEPT ![r] = CancelRead(@)]
          /\ resp' = [resp EXCEPT ![r] = "gone"]
       \/ /\ finished[r] # "stored" /\ resp' = [resp EXCEPT ![r] = "closing"]
          /\ UNCHANGED up
    /\ overtaken' = [overtaken EXCEPT ![r] = finished[r] # "stored"]
    /\ UNCHANGED <<down, requester, acc, sent, finished, closed>>

CloseResets(r) ==
    /\ closed = "open" /\ resp[r] = "closing"
    /\ ResetStream(r)
    /\ resp' = [resp EXCEPT ![r] = "gone"]
    /\ UNCHANGED <<requester, acc, sent, final, closed>>

(* The handler reads the requester's end of the request and completes its own. *)
HandlerSeesEnd(r) ==
    /\ closed = "open" /\ resp[r] = "accepted" /\ Ended(up[r])
    /\ down' = [down EXCEPT ![r] = FIN(@)]
    /\ resp' = [resp EXCEPT ![r] = "gone"]
    /\ UNCHANGED <<up, requester, acc, sent, final, closed>>

(* drainRejected and rejectTrackStatusFollowups end with the requester's half. *)
Drained(r) ==
    /\ closed = "open" /\ resp[r] \in {"draining", "followups"} /\ Ended(up[r])
    /\ resp' = [resp EXCEPT ![r] = "gone"]
    /\ UNCHANGED <<up, down, requester, acc, sent, final, closed>>
-----------------------------------------------------------------------------
RequesterReads(r) ==
    \/ readResponseFails(r) \/ EarlyGoaway(r) \/ WrongGoaway(r)
    \/ ResponseOK(r) \/ ResponseUnusable(r) \/ Rejected(r)

AcceptLoop(r) == AcceptStream(r) \/ AcceptRequest(r) \/ AcceptReserved(r) \/ AcceptViolation(r) \/ AcceptCut(r)

HandlerEnds(r) == HandlerSeesEnd(r) \/ Drained(r) \/ AnswerFails(r) \/ CloseResets(r)

Next ==
    /\ UNCHANGED what
    /\ \E r \in Requests :
        \/ OpenStream(r) \/ writeFirst(r) \/ writeFirstFails(r) \/ Cancel(r) \/ AfterFires(r)
        \/ RequesterReads(r) \/ ReadReplayed(r) \/ ReadFollowup(r) \/ ReadEOF(r) \/ HandleClose(r)
        \/ AcceptLoop(r) \/ HandlerEnds(r)
        \/ SendGoaway(r) \/ Answer(r, "ok") \/ Answer(r, "okbad") \/ RejectError(r)
        \/ SendNote(r) \/ writeFinal(r) \/ closeFinal(r) \/ storeFinished(r) \/ CloseHandle(r)

(* The loop and both ends' blocked reads run, a write ends, and a handler      *)
(* answers in the end; all else the applications choose to do is left open.    *)
Fairness ==
    \A r \in Requests :
        /\ WF_vars(UNCHANGED what /\ RequesterReads(r))
        /\ WF_vars(UNCHANGED what /\ HandlerEnds(r))
        /\ SF_vars(UNCHANGED what /\ AcceptLoop(r))
        /\ WF_vars(UNCHANGED what /\ (writeFirst(r) \/ writeFirstFails(r)))
        /\ WF_vars(UNCHANGED what /\ (Answer(r, "ok") \/ RejectError(r)))

Spec == Init /\ [][Next]_vars /\ Fairness
-----------------------------------------------------------------------------
Over(r) == req[r] \in {"rejected", "failed", "closed"}

(* Two endpoints of this library that keep to the rules never close the        *)
(* session on each other, whatever is cancelled, rejected or reset when.       *)
PeersKeepSession ==
    closed # "open" => \E r \in Requests : what[r].first = "bad" \/ what[r].careless

(* RequestMux.Run: "Any but ctx's means the session has ended" - the loop      *)
(* stops on no request's own failure.                                          *)
LoopOutlivesRequests == acc = "ended" => closed # "open"

(* A REQUEST_ERROR that was written reaches its requester: no reset or         *)
(* STOP_SENDING that follows it makes the requester lose it, short of the      *)
(* requester's own cancellation.                                               *)
RejectionArrives ==
    \A r \in Requests :
        resp[r] = "draining" /\ req[r] = "failed" => ctx[r] \/ closed # "open"

(* What the handle's reader gets is what the responder sent besides the        *)
(* response, in order, a GOAWAY ahead of it included: none is dropped between  *)
(* awaitRequestResponse and the handle.                                        *)
FollowupsInOrder == \A r \in Requests : IsPrefix(seen[r], sent[r])

(* "Close must not reset" the final message: a Close that begins once         *)
(* writeThenClose returned leaves the requester the rest of the stream,        *)
(* unless it gave up itself.                                                   *)
FinalMessageKept ==
    \A r \in Requests : finished[r] = "stored" /\ ~overtaken[r] => down[r].fin \/ down[r].stopped \/ Over(r)

(* The comment of Close says more, of any FIN that was sent: "If this side     *)
(* already sent its final message and FIN, only reading is stopped, so that    *)
(* message is not lost". That is false of a Close that begins before the FIN   *)
(* or before it is recorded.                                                   *)
FinalNeverReset ==
    \A r \in Requests : finished[r] \in {"fin", "stored"} => down[r].fin \/ down[r].stopped \/ Over(r)

(* A stream whose request is over holds no credit at the responder: both       *)
(* directions of it end there.                                                 *)
CreditReturned ==
    []<>(\A r \in Requests : Over(r) /\ what[r].first # "bad" /\ closed = "open" =>
            resp[r] = "gone" /\ Ended(up[r]) /\ (down[r].fin \/ down[r].reset \/ down[r].stopped))

(* One request, whatever becomes of it, costs neither the session nor the      *)
(* accept loop, and what was written on its stream is read (request.go).       *)
RequestsHonoured ==
    /\ PeersKeepSession /\ LoopOutlivesRequests
    /\ RejectionArrives /\ FollowupsInOrder /\ FinalMessageKept
=============================================================================
