----------------------------- MODULE TrackStatus -----------------------------
(* TRACK_STATUS for one track (handler_track_status.go): a request the relay  *)
(* cannot answer itself joins or starts the one round of upstream requests in *)
(* flight for the track, except when it may be the relay's own TRACK_STATUS   *)
(* routed back by the very publisher that round waits on.                     *)
EXTENDS Integers, FiniteSets, FiniteSetsExt

CONSTANTS
    Requests,        \* the TRACK_STATUSes the relay receives
    Publishers,      \* sessions that publish the namespace
    SessionOf(_),    \* request -> the session it came on, a publisher or not
    RoutedBack,      \* requests a publisher makes only while it is asked
    MaxSubs          \* the per-session cap a forwarded TRACK_STATUS counts in

None == "none"

VARIABLES
    rq,        \* request -> [st, on, why, code]: its state, its round, the
               \* round whose question a publisher routed back, its answer
    round,     \* request -> the round it started: [st, own, wait, ok]
    shared,    \* the round in rounds[key], or None
    away,      \* publishers that sent GOAWAY
    subs       \* session -> slots taken in its limiter

vars == <<rq, round, shared, away, subs>>

Sessions == Publishers \union {SessionOf(r) : r \in Requests}
NoRound == [st |-> "none", own |-> FALSE, wait |-> {}, ok |-> FALSE]

TypeOK ==
    /\ rq \in [Requests -> [st : {"new", "look", "wait", "own", "over", "done"},
                            on : Requests \union {None}, why : Requests \union {None},
                            code : {"none", "ok", "refused", "load", "left"}]]
    /\ \A x \in Requests :
          /\ round[x].st \in {"none", "starting", "asking", "deleted", "closed"}
          /\ round[x].wait \subseteq Publishers
          /\ round[x].own \in BOOLEAN /\ round[x].ok \in BOOLEAN
    /\ shared \in Requests \union {None}
    /\ away \subseteq Publishers
    /\ subs \in [Sessions -> 0..MaxSubs]

Init ==
    /\ rq = [r \in Requests |-> [st |-> "new", on |-> None, why |-> None, code |-> "none"]]
    /\ round = [r \in Requests |-> NoRound]
    /\ shared = None /\ away = {}
    /\ subs = [s \in Sessions |-> 0]

(* RequestPending: some round has asked s and not heard. *)
RequestPending(s) == \E x \in Requests : s \in round[x].wait

(* trackStatusUpstream: every publisher not draining is asked at once, and    *)
(* the requester's own session not while a request to it is in flight.        *)
Candidates(s) == {p \in Publishers \ away : ~(p = s /\ RequestPending(p))}

Settled(r, c) == rq' = [rq EXCEPT ![r].st = "done", ![r].code = c]
-----------------------------------------------------------------------------
(* handleTrackStatus: an established track is answered from the registry; a   *)
(* forward takes a subscription slot or is refused. y: the round whose        *)
(* question it is, routed back.                                               *)
Arrives(r, y, established) ==
    /\ rq[r].st = "new"
    /\ y = None <=> r \notin RoutedBack
    /\ y # None => SessionOf(r) \in round[y].wait
    /\ IF established THEN Settled(r, "ok") /\ UNCHANGED subs
       ELSE IF subs[SessionOf(r)] = MaxSubs THEN Settled(r, "load") /\ UNCHANGED subs
       ELSE /\ rq' = [rq EXCEPT ![r].st = "look", ![r].why = y]
            /\ subs' = [subs EXCEPT ![SessionOf(r)] = @ + 1]
    /\ UNCHANGED <<round, shared, away>>

(* forwardTrackStatus: a round of its own, or the shared one, joined or       *)
(* started under rounds.mu.                                                   *)
Starting(x, own) == round' = [round EXCEPT ![x].st = "starting", ![x].own = own]

JoinOrStart(r) ==
    IF shared # None
    THEN rq' = [rq EXCEPT ![r].st = "wait", ![r].on = shared] /\ UNCHANGED <<round, shared>>
    ELSE rq' = [rq EXCEPT ![r].st = "wait", ![r].on = r] /\ Starting(r, FALSE) /\ shared' = r

\* Fault: a request routed back joins the round that waits on it.
ForwardUnguarded(r) ==
    /\ rq[r].st = "look"
    /\ JoinOrStart(r)
    /\ UNCHANGED <<away, subs>>

Forward(r) ==
    /\ rq[r].st = "look"
    /\ \/ /\ RequestPending(SessionOf(r))
          /\ rq' = [rq EXCEPT ![r].st = "own", ![r].on = r]
          /\ Starting(r, TRUE)
          /\ UNCHANGED shared
       \/ ~RequestPending(SessionOf(r)) /\ JoinOrStart(r)
    /\ UNCHANGED <<away, subs>>

(* trackStatusUpstream begins, on the round's goroutine. *)
Begin(x) ==
    /\ round[x].st = "starting"
    /\ round' = [round EXCEPT ![x].st = "asking", ![x].wait = Candidates(SessionOf(x))]
    /\ UNCHANGED <<rq, shared, away, subs>>

(* A candidate answers. One that routed the request back answers after it has *)
(* the relay's answer.                                                        *)
Answer(x, p) ==
    /\ p \in round[x].wait
    /\ \A r \in Requests : SessionOf(r) = p /\ rq[r].why = x => rq[r].st = "done"
    /\ \E accepts \in BOOLEAN :
          round' = [round EXCEPT ![x].wait = @ \ {p}, ![x].ok = @ \/ accepts]
    /\ UNCHANGED <<rq, shared, away, subs>>

(* Its stream or session fails, the round times out, or the round's context   *)
(* ends: its requester left a round of its own, or the relay stopped.         *)
Fails(x, p) ==
    /\ p \in round[x].wait
    /\ round' = [round EXCEPT ![x].wait = @ \ {p}]
    /\ UNCHANGED <<rq, shared, away, subs>>

(* wg.Wait returned: the map forgets the shared round, then its waiters hear. *)
RoundEnds(x) ==
    /\ round[x].st = "asking" /\ round[x].wait = {}
    /\ IF shared = x
       THEN round' = [round EXCEPT ![x].st = "deleted"] /\ shared' = None
       ELSE round' = [round EXCEPT ![x].st = "closed"] /\ UNCHANGED shared
    /\ UNCHANGED <<rq, away, subs>>

RoundCloses(x) ==
    /\ round[x].st = "deleted"
    /\ round' = [round EXCEPT ![x].st = "closed"]
    /\ UNCHANGED <<rq, shared, away, subs>>

(* The requester wakes with the round's result, or stops waiting. A round of  *)
(* its own it leaves ends with it.                                            *)
Woken(r) ==
    /\ rq[r].st \in {"wait", "own"} /\ round[rq[r].on].st = "closed"
    /\ rq' = [rq EXCEPT ![r].st = "over", ![r].on = None,
                        ![r].code = IF round[rq[r].on].ok THEN "ok" ELSE "refused"]
    /\ UNCHANGED <<round, shared, away, subs>>

Leaves(r) ==
    /\ rq[r].st = "wait"
    /\ rq' = [rq EXCEPT ![r].st = "over", ![r].on = None, ![r].code = "left"]
    /\ UNCHANGED <<round, shared, away, subs>>

(* releaseSub, then TRACK_STATUS_OK or the refusal. *)
Reply(r) ==
    /\ rq[r].st = "over"
    /\ rq' = [rq EXCEPT ![r].st = "done"]
    /\ subs' = [subs EXCEPT ![SessionOf(r)] = @ - 1]
    /\ UNCHANGED <<round, shared, away>>

(* A publisher sends GOAWAY. *)
Drains(p) ==
    /\ p \notin away
    /\ away' = away \union {p}
    /\ UNCHANGED <<rq, round, shared, subs>>

Next ==
    \/ \E r \in Requests : \/ \E y \in Requests \union {None}, established \in BOOLEAN :
                               Arrives(r, y, established)
                           \/ Forward(r) \/ Woken(r) \/ Leaves(r) \/ Reply(r)
                           \/ Begin(r) \/ RoundEnds(r) \/ RoundCloses(r)
                           \/ \E p \in Publishers : Answer(r, p) \/ Fails(r, p)
    \/ \E p \in Publishers : Drains(p)

(* Every goroutine runs, and a publisher asked answers once what it asks in   *)
(* turn is answered. Timeouts and failures are owed to nobody: the guard has  *)
(* to break the loop before the timeout does.                                 *)
Fairness ==
    /\ \A r \in Requests : /\ WF_vars(Forward(r)) /\ WF_vars(Begin(r)) /\ WF_vars(RoundEnds(r))
                           /\ WF_vars(RoundCloses(r)) /\ WF_vars(Woken(r)) /\ WF_vars(Reply(r))
                           /\ \A p \in Publishers : WF_vars(Answer(r, p))

Spec == Init /\ [][Next]_vars /\ Fairness
-----------------------------------------------------------------------------

(* Every forwarded request is answered without waiting for a timeout, also    *)
(* one that a publisher routes back to the relay while the relay waits on it. *)
ForwardSettles ==
    []<>(\A r \in Requests : rq[r].st \in {"new", "done"})
=============================================================================
