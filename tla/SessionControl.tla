--------------------------- MODULE SessionControl ---------------------------
(* Two endpoints of a session past SETUP: the control send and receive loops, *)
(* GOAWAY and its handler, and how the session ends on both sides             *)
(* (session/control.go, goaway.go, peerclose.go, terminate of session.go).    *)
(* The transport resets streams before it delivers the connection's close.    *)
EXTENDS Integers, Sequences, FiniteSets

CONSTANTS
    Ends,         \* the two endpoints
    Closers,      \* those whose application closes the session by itself
    Drainers,     \* those that send GOAWAY
    MaxHandlers   \* bound on OnGoaway calls per endpoint

Peer(e) == CHOOSE f \in Ends : f # e

(* Close causes: Err's nil, and codes with whose they are. *)
NoErr == [code |-> "none", remote |-> FALSE]
Cause(c, r) == [code |-> c, remote |-> r]

VARIABLES
    out,        \* endpoint -> controlOut
    wire,       \* endpoint -> control messages on their way to it
    reset,      \* endpoint -> its control streams were reset by the peer
    conn,       \* endpoint -> "up", "peer" closed by the peer, "closed"
    sendLoop,   \* endpoint -> "select", "loss", "exit"
    recvLoop,   \* endpoint -> "read", "loss", "exit"
    ending,     \* endpoint -> terminate: "no", "caused", "done", "reset", "closed"
    cause,      \* endpoint -> what it was called with
    err,        \* endpoint -> closeErr
    goaway,     \* endpoint -> [sent, received, fired, handler, calls]
    lapsed,     \* endpoints whose peerCloseGrace ran out
    rude        \* endpoints that sent a second GOAWAY

ctlVars == <<out, wire, sendLoop, recvLoop>>
endVars == <<reset, conn, ending, cause, err>>
vars == <<ctlVars, endVars, goaway, lapsed, rude>>

TypeOK ==
    /\ \A e \in Ends : Len(out[e]) <= 1 /\ Len(wire[e]) <= 2
    /\ reset \in [Ends -> BOOLEAN]
    /\ conn \in [Ends -> {"up", "peer", "closed"}]
    /\ sendLoop \in [Ends -> {"select", "loss", "exit"}]
    /\ recvLoop \in [Ends -> {"read", "loss", "exit"}]
    /\ ending \in [Ends -> {"no", "caused", "done", "reset", "closed"}]
    /\ goaway \in [Ends -> [sent : BOOLEAN, received : BOOLEAN, fired : 0..1,
                            handler : BOOLEAN, calls : 0..MaxHandlers]]
    /\ lapsed \subseteq Ends /\ rude \subseteq Ends

Init ==
    /\ out = [e \in Ends |-> <<>>] /\ wire = [e \in Ends |-> <<>>]
    /\ reset = [e \in Ends |-> FALSE] /\ conn = [e \in Ends |-> "up"]
    /\ sendLoop = [e \in Ends |-> "select"] /\ recvLoop = [e \in Ends |-> "read"]
    /\ ending = [e \in Ends |-> "no"]
    /\ cause = [e \in Ends |-> NoErr] /\ err = [e \in Ends |-> NoErr]
    /\ goaway = [e \in Ends |-> [sent |-> FALSE, received |-> FALSE, fired |-> 0,
                                 handler |-> FALSE, calls |-> 0]]
    /\ lapsed = {} /\ rude = {}

Done(e) == ending[e] \notin {"no", "caused"}
-----------------------------------------------------------------------------
(* terminate: closeOnce lets the first caller through. Its steps: the cause,  *)
(* done, the control streams' resets, and the connection's close.             *)
Begin(e, c) ==
    IF ending[e] = "no"
    THEN ending' = [ending EXCEPT ![e] = "caused"] /\ cause' = [cause EXCEPT ![e] = c]
    ELSE UNCHANGED <<ending, cause>>

PublishedErr(e) == IF cause[e] = Cause("noError", FALSE) THEN NoErr ELSE cause[e]

StoreCause(e) == err' = [err EXCEPT ![e] = PublishedErr(e)]

Terminate(e) ==
    /\ \/ ending[e] = "caused" /\ ending' = [ending EXCEPT ![e] = "done"] /\ StoreCause(e) /\ UNCHANGED <<reset, conn>>
       \/ /\ ending[e] = "done" /\ ending' = [ending EXCEPT ![e] = "reset"]
          /\ reset' = [reset EXCEPT ![Peer(e)] = TRUE] /\ UNCHANGED <<err, conn>>
       \/ /\ ending[e] = "reset" /\ ending' = [ending EXCEPT ![e] = "closed"]
          /\ conn' = [conn EXCEPT ![e] = IF @ = "up" THEN "closed" ELSE @] /\ UNCHANGED <<err, reset>>
    /\ UNCHANGED <<ctlVars, cause, goaway, lapsed, rude>>

(* The transport brings the close to the peer, unless it closed first. *)
CloseArrives(e) ==
    /\ conn[e] = "closed" /\ conn[Peer(e)] = "up"
    /\ conn' = [conn EXCEPT ![Peer(e)] = "peer"]
    /\ UNCHANGED <<ctlVars, reset, ending, cause, err, goaway, lapsed, rude>>

(* The application closes. *)
Close(e, code) ==
    /\ e \in Closers /\ ending[e] = "no"
    /\ Begin(e, Cause(code, FALSE))
    /\ UNCHANGED <<ctlVars, reset, conn, err, goaway, lapsed, rude>>
-----------------------------------------------------------------------------
(* closeOnControlLoss of a loop: the connection's close within the grace, the *)
(* grace's end, or the session ending meanwhile.                              *)
PeerCause(e) == Cause(cause[Peer(e)].code, TRUE)

\* Fault: a broken control stream ends the session before the close is seen.
LossNow(e) ==
    /\ Begin(e, IF conn[e] = "peer" THEN PeerCause(e) ELSE Cause("violation", FALSE))
    /\ UNCHANGED lapsed

LossEnds(e) ==
    \/ conn[e] = "peer" /\ Begin(e, PeerCause(e)) /\ UNCHANGED lapsed
    \/ /\ conn[e] = "up" /\ ~Done(e)
       /\ Begin(e, Cause("violation", FALSE)) /\ lapsed' = lapsed \union {e}
    \/ Done(e) /\ UNCHANGED <<ending, cause, lapsed>>

RecvLoss(e) ==
    /\ recvLoop[e] = "loss"
    /\ LossEnds(e)
    /\ recvLoop' = [recvLoop EXCEPT ![e] = "exit"]
    /\ UNCHANGED <<out, wire, sendLoop, reset, conn, err, goaway, rude>>

SendLoss(e) ==
    /\ sendLoop[e] = "loss"
    /\ LossEnds(e)
    /\ sendLoop' = [sendLoop EXCEPT ![e] = "exit"]
    /\ UNCHANGED <<out, wire, recvLoop, reset, conn, err, goaway, rude>>

Broken(e) == reset[e] \/ conn[e] # "up"

(* controlSendLoop. *)
SendWrites(e) ==
    /\ sendLoop[e] = "select" /\ out[e] # <<>> /\ ~Done(e) /\ ~Broken(e)
    /\ out' = [out EXCEPT ![e] = Tail(@)]
    /\ wire' = [wire EXCEPT ![Peer(e)] = Append(@, Head(out[e]))]
    /\ UNCHANGED <<sendLoop, recvLoop, endVars, goaway, lapsed, rude>>

SendFails(e) ==
    /\ sendLoop[e] = "select" /\ out[e] # <<>> /\ (Done(e) \/ Broken(e))
    /\ out' = [out EXCEPT ![e] = Tail(@)]
    /\ sendLoop' = [sendLoop EXCEPT ![e] = IF Done(e) THEN "exit" ELSE "loss"]
    /\ UNCHANGED <<wire, recvLoop, endVars, goaway, lapsed, rude>>

SendDone(e) ==
    /\ sendLoop[e] = "select" /\ Done(e)
    /\ sendLoop' = [sendLoop EXCEPT ![e] = "exit"]
    /\ UNCHANGED <<out, wire, recvLoop, endVars, goaway, lapsed, rude>>

(* controlRecvLoop: a message, dispatched, or the stream's failure. *)
handleGoaway(e) ==
    goaway' = [goaway EXCEPT ![e].received = TRUE,
                             ![e].fired = IF goaway[e].handler /\ @ = 0 THEN 1 ELSE @]

RecvMessage(e) ==
    /\ recvLoop[e] = "read" /\ wire[e] # <<>> /\ ~Done(e) /\ ~Broken(e)
    /\ wire' = [wire EXCEPT ![e] = Tail(@)]
    /\ IF goaway[e].received
       THEN /\ recvLoop' = [recvLoop EXCEPT ![e] = "exit"]
            /\ Begin(e, Cause("violation", FALSE)) /\ UNCHANGED goaway
       ELSE handleGoaway(e) /\ UNCHANGED <<recvLoop, ending, cause>>
    /\ UNCHANGED <<out, sendLoop, reset, conn, err, lapsed, rude>>

\* Fault: a failed read is tried again.
RecvFailsRetrying(e) ==
    /\ recvLoop[e] = "read" /\ (Broken(e) \/ Done(e))
    /\ recvLoop' = [recvLoop EXCEPT ![e] = IF Done(e) THEN "exit" ELSE "read"]
    /\ UNCHANGED <<out, wire, sendLoop, endVars, goaway, lapsed, rude>>

RecvFails(e) ==
    /\ recvLoop[e] = "read" /\ (Broken(e) \/ Done(e))
    /\ recvLoop' = [recvLoop EXCEPT ![e] = IF Done(e) THEN "exit" ELSE "loss"]
    /\ UNCHANGED <<out, wire, sendLoop, endVars, goaway, lapsed, rude>>
-----------------------------------------------------------------------------
(* SendGoaway, and a peer's GOAWAY the code never sends. *)
SendGoaway(e) ==
    /\ e \in Drainers /\ ~goaway[e].sent
    /\ goaway' = [goaway EXCEPT ![e].sent = TRUE]
    /\ out' = IF Done(e) THEN out ELSE [out EXCEPT ![e] = Append(@, "goaway")]
    /\ UNCHANGED <<wire, sendLoop, recvLoop, endVars, lapsed, rude>>

SendAnother(e) ==
    /\ goaway[e].sent /\ e \notin rude /\ out[e] = <<>> /\ ~Done(e) /\ ~Broken(e)
    /\ rude' = rude \union {e}
    /\ wire' = [wire EXCEPT ![Peer(e)] = Append(@, "goaway")]
    /\ UNCHANGED <<out, sendLoop, recvLoop, endVars, goaway, lapsed>>

(* OnGoaway registers a handler, and fires it if a GOAWAY came unheard (at an *)
(* endpoint that may be sent one).                                            *)
OnGoaway(e) ==
    /\ Peer(e) \in Drainers /\ goaway[e].calls < MaxHandlers
    /\ goaway' = [goaway EXCEPT ![e] =
         IF @.received /\ @.fired = 0
         THEN [@ EXCEPT !.calls = @ + 1, !.fired = 1]
         ELSE [@ EXCEPT !.calls = @ + 1, !.handler = TRUE]]
    /\ UNCHANGED <<ctlVars, endVars, lapsed, rude>>

Next ==
    \E e \in Ends :
        \/ Terminate(e) \/ CloseArrives(e)
        \/ \E code \in {"noError", "app"} : Close(e, code)
        \/ RecvLoss(e) \/ SendLoss(e)
        \/ SendWrites(e) \/ SendFails(e) \/ SendDone(e)
        \/ RecvMessage(e) \/ RecvFails(e)
        \/ SendGoaway(e) \/ SendAnother(e) \/ OnGoaway(e)

(* The loops and terminate run; the transport is reliable until it closes. *)
Fairness ==
    \A e \in Ends : /\ WF_vars(Terminate(e)) /\ WF_vars(CloseArrives(e))
                    /\ WF_vars(SendDone(e)) /\ WF_vars(RecvFails(e))
                    /\ WF_vars(RecvLoss(e)) /\ WF_vars(SendLoss(e))

Spec == Init /\ [][Next]_vars /\ Fairness
-----------------------------------------------------------------------------

(* A session the peer closed ends with the peer's code, though its control    *)
(* streams break before the close arrives: it blames the peer for a protocol  *)
(* violation only for a second GOAWAY, or when the close did not come within  *)
(* peerCloseGrace.                                                            *)
PeerCodeReported ==
    \A e \in Ends : cause[e].code = "violation" /\ ~cause[e].remote
                    => Peer(e) \in rude \/ e \in lapsed

(* The cause a side reports as the peer's is one the peer closed with.        *)
RemoteIsPeers ==
    \A e \in Ends : cause[e].remote => Done(Peer(e)) /\ cause[e].code = cause[Peer(e)].code

(* A session ended on one side ends on the other, and its loops exit.         *)
EndSpreads ==
    []<>(\A e \in Ends : Done(e) => Done(Peer(e)) /\ recvLoop[e] = "exit" /\ sendLoop[e] = "exit")

(* OnGoaway's comment: a handler registered after the GOAWAY "has already     *)
(* fired the previously registered one will itself fire (once) on             *)
(* registration".                                                             *)
LaterHandlerFires ==
    \A e \in Ends : goaway[e].received => ~(goaway[e].handler /\ goaway[e].calls > goaway[e].fired)

(* The cause a session reports is the true one (lossCause, Session.terminate). *)
TrueCause == PeerCodeReported /\ RemoteIsPeers
=============================================================================
