--------------------------- MODULE RequestBroker ---------------------------
(* A RequestBroker (broker.go) on a SUBSCRIBE_NAMESPACE's stream: goroutines  *)
(* pipeline REQUEST_UPDATEs, one reader routes the answers back to them by    *)
(* order and follows the NAMESPACEs, whose suffixes are relative to the       *)
(* prefix the last answered update set. Updates give up, the peer coalesces   *)
(* errors, and the stream ends at any point.                                  *)
EXTENDS Integers, Sequences, SequencesExt, FiniteSets

CONSTANTS
    Updates,       \* the REQUEST_UPDATEs callers may send
    NSPrefixes,      \* prefixes, none of them below another
    Names,
    PrefixOf,      \* update -> the prefix it sets, or None
    FirstPrefix,   \* the SUBSCRIBE_NAMESPACE's
    MaxNames,      \* bound on NAMESPACEs the peer announces
    None

VARIABLES
    call,          \* update -> "idle", "waiting", or what Update returned
    waiters,       \* the queue of updates awaiting an answer
    routing,       \* recipients route has taken and not yet answered
    result,        \* update -> its channel: an answer, or None
    closed,        \* updatesClosed
    updated,       \* an Update was sent
    serve,         \* Serve: "reading", "routing", "exiting", "done"
    violation,     \* Serve closed the session with PROTOCOL_VIOLATION
    nsPrefix, namespaces, nsPrefixLost,
    toPeer, toUs,  \* the two directions of the stream
    peerPrefix, peerNames, peerDone, announced,
    rude,          \* the peer answered before there was anything to answer
    gaveUp         \* some Update returned with its context

callVars == <<call, waiters, result, closed, updated, gaveUp>>
nsVars == <<nsPrefix, namespaces>>
peerVars == <<peerPrefix, peerNames, peerDone, announced, rude>>
vars == <<callVars, routing, serve, violation, nsVars, nsPrefixLost, toPeer, toUs, peerVars>>

Answers == {"ok", "error", "closed"}
Full(p, suffixes) == {<<p, s>> : s \in suffixes}

TypeOK ==
    /\ call \in [Updates -> {"idle", "waiting", "gaveUp"} \union Answers]
    /\ waiters \in BoundedSeq(Updates, Cardinality(Updates))
    /\ routing \in {<<>>} \union (Answers \X BoundedSeq(Updates, Cardinality(Updates)))
    /\ result \in [Updates -> Answers \union {None}]
    /\ {closed, updated, violation, nsPrefixLost, peerDone, rude, gaveUp} \subseteq BOOLEAN
    /\ serve \in {"reading", "routing", "exiting", "done"}
    /\ {nsPrefix, peerPrefix} \subseteq NSPrefixes
    /\ namespaces \subseteq NSPrefixes \X Names
    /\ peerNames \subseteq Names /\ announced \in 0..MaxNames

Init ==
    /\ call = [u \in Updates |-> "idle"]
    /\ waiters = <<>> /\ routing = <<>>
    /\ result = [u \in Updates |-> None]
    /\ closed = FALSE /\ updated = FALSE /\ violation = FALSE
    /\ serve = "reading"
    /\ nsPrefix = FirstPrefix /\ namespaces = {} /\ nsPrefixLost = FALSE
    /\ toPeer = <<>> /\ toUs = <<>>
    /\ peerPrefix = FirstPrefix /\ peerNames = {} /\ peerDone = FALSE /\ announced = 0
    /\ gaveUp = FALSE /\ rude = FALSE
-----------------------------------------------------------------------------
(* Update. The write and the waiter go under one lock. *)
Update(u) ==
    /\ call[u] = "idle"
    /\ IF closed
       THEN /\ call' = [call EXCEPT ![u] = "closed"]
            /\ UNCHANGED <<waiters, updated, toPeer>>
       ELSE /\ call' = [call EXCEPT ![u] = "waiting"]
            /\ waiters' = Append(waiters, u)
            /\ updated' = TRUE
            /\ toPeer' = Append(toPeer, u)
    /\ UNCHANGED <<routing, result, closed, gaveUp, serve, violation, nsVars, nsPrefixLost, toUs, peerVars>>

UpdateReturns(u) ==
    /\ call[u] = "waiting" /\ result[u] # None
    /\ call' = [call EXCEPT ![u] = result[u]]
    /\ UNCHANGED <<waiters, routing, result, closed, updated, gaveUp, serve, violation, nsVars, nsPrefixLost, toPeer, toUs, peerVars>>

(* Its context ends: the waiter leaves the queue, if route did not take it.   *)
UpdateGivesUp(u) ==
    /\ call[u] = "waiting"
    /\ call' = [call EXCEPT ![u] = "gaveUp"]
    /\ gaveUp' = TRUE
    /\ waiters' = Remove(waiters, u)
    /\ nsPrefixLost' = (nsPrefixLost \/ Contains(waiters, u))
    /\ UNCHANGED <<routing, result, closed, updated, serve, violation, nsVars, toPeer, toUs, peerVars>>
-----------------------------------------------------------------------------
(* Serve. *)
Reads(kind) == serve = "reading" /\ toUs # <<>> /\ Head(toUs).kind = kind

CloseUpdates(r) ==
    [u \in Updates |-> IF Contains(waiters, u) THEN r ELSE result[u]]

\* Fault: an answer goes to the newest update.
TakesNewest(kind) == IF kind = "ok" THEN <<Last(waiters)>> ELSE waiters

(* route, under the lock: an OK is the oldest waiter's, an error everyone's.  *)
Recipients(kind) == IF kind = "ok" THEN <<Head(waiters)>> ELSE waiters

ReadAnswer(kind) ==
    /\ Reads(kind)
    /\ toUs' = Tail(toUs)
    /\ IF ~updated
       THEN /\ violation' = TRUE /\ serve' = "exiting"
            /\ UNCHANGED <<routing, waiters>>
       ELSE IF waiters = <<>>
       THEN UNCHANGED <<violation, serve, routing, waiters>>
       ELSE /\ routing' = <<kind, Recipients(kind)>>
            /\ waiters' = SelectSeq(waiters, LAMBDA u : ~Contains(Recipients(kind), u))
            /\ serve' = "routing"
            /\ UNCHANGED violation
    /\ UNCHANGED <<call, result, closed, updated, gaveUp, nsVars, nsPrefixLost, toPeer, peerVars>>

(* and then the answer is delivered, switching the prefix an OK accepts. *)
Route ==
    /\ serve = "routing"
    /\ LET kind == routing[1]  rs == routing[2]  p == PrefixOf[Head(rs)] IN
       /\ nsPrefix' = IF kind = "ok" /\ p # None THEN p ELSE nsPrefix
       /\ result' = [u \in Updates |-> IF Contains(rs, u) THEN kind ELSE result[u]]
    /\ routing' = <<>>
    /\ serve' = "reading"
    /\ UNCHANGED <<call, waiters, closed, updated, gaveUp, violation, namespaces, nsPrefixLost, toPeer, toUs, peerVars>>

(* namespaceFollowup. *)
ReadNamespace ==
    /\ Reads("namespace")
    /\ toUs' = Tail(toUs)
    /\ namespaces' = IF nsPrefixLost THEN namespaces ELSE namespaces \union {<<nsPrefix, Head(toUs).suffix>>}
    /\ UNCHANGED <<callVars, routing, serve, violation, nsPrefix, nsPrefixLost, toPeer, peerVars>>

ReadNamespaceDone ==
    /\ Reads("done")
    /\ toUs' = Tail(toUs)
    /\ LET n == <<nsPrefix, Head(toUs).suffix>>  unknown == ~nsPrefixLost /\ n \notin namespaces IN
       /\ namespaces' = IF nsPrefixLost THEN namespaces ELSE namespaces \ {n}
       /\ violation' = (violation \/ unknown)
       /\ serve' = IF unknown THEN "exiting" ELSE serve
    /\ UNCHANGED <<callVars, routing, nsPrefix, nsPrefixLost, toPeer, peerVars>>

(* The peer's FIN, a read error, or the end of Serve's context. *)
ServeEnds ==
    /\ serve = "reading"
    /\ serve' = "exiting"
    /\ UNCHANGED <<callVars, routing, violation, nsVars, nsPrefixLost, toPeer, toUs, peerVars>>

(* closeUpdates, deferred: latched and emptied under one lock. *)
ServeExits ==
    /\ serve = "exiting"
    /\ serve' = "done"
    /\ closed' = TRUE
    /\ result' = CloseUpdates("closed")
    /\ waiters' = <<>>
    /\ UNCHANGED <<call, updated, gaveUp, routing, violation, nsVars, nsPrefixLost, toPeer, toUs, peerVars>>

(* Close, from another goroutine: it unblocks Serve by resetting the stream.  *)
Close ==
    /\ ~closed
    /\ closed' = TRUE
    /\ result' = CloseUpdates("closed")
    /\ waiters' = <<>>
    /\ toUs' = <<>> /\ toPeer' = <<>> /\ peerDone' = TRUE
    /\ UNCHANGED <<call, updated, gaveUp, routing, serve, violation, nsVars, nsPrefixLost, peerPrefix, peerNames, announced, rude>>
-----------------------------------------------------------------------------
(* The peer answers updates in order (receiveUpdate, answerUpdate): it takes  *)
(* the names of the old prefix back before the OK that switches the prefix.   *)
Msg(kind, s) == [kind |-> kind, suffix |-> s]
Dones(suffixes) == LET q == SetToSeq(suffixes) IN [i \in DOMAIN q |-> Msg("done", q[i])]

PeerAccepts ==
    /\ ~peerDone /\ toPeer # <<>>
    /\ LET p == PrefixOf[Head(toPeer)]  moves == p \notin {None, peerPrefix} IN
       /\ toUs' = toUs \o (IF moves THEN Dones(peerNames) ELSE <<>>) \o <<Msg("ok", None)>>
       /\ peerPrefix' = IF moves THEN p ELSE peerPrefix
       /\ peerNames' = IF moves THEN {} ELSE peerNames
    /\ toPeer' = Tail(toPeer)
    /\ UNCHANGED <<callVars, routing, serve, violation, nsVars, nsPrefixLost, peerDone, announced, rude>>

(* One refusal may stand for every update read so far, and ends the request.  *)
PeerRefuses ==
    /\ ~peerDone /\ toPeer # <<>>
    /\ toUs' = Append(toUs, Msg("error", None))
    /\ toPeer' = <<>>
    /\ peerDone' = TRUE
    /\ UNCHANGED <<callVars, routing, serve, violation, nsVars, nsPrefixLost, peerPrefix, peerNames, announced, rude>>

PeerAnnounces(s) ==
    /\ ~peerDone /\ s \notin peerNames /\ announced < MaxNames
    /\ announced' = announced + 1
    /\ peerNames' = peerNames \union {s}
    /\ toUs' = Append(toUs, Msg("namespace", s))
    /\ UNCHANGED <<callVars, routing, serve, violation, nsVars, nsPrefixLost, toPeer, peerPrefix, peerDone, rude>>

PeerWithdraws(s) ==
    /\ ~peerDone /\ s \in peerNames
    /\ peerNames' = peerNames \ {s}
    /\ toUs' = Append(toUs, Msg("done", s))
    /\ UNCHANGED <<callVars, routing, serve, violation, nsVars, nsPrefixLost, toPeer, peerPrefix, peerDone, announced, rude>>

PeerSpeaksUnasked ==
    /\ ~peerDone /\ ~rude /\ ~updated /\ announced = 0
    /\ rude' = TRUE /\ peerDone' = TRUE
    /\ toUs' = Append(toUs, Msg("ok", None))
    /\ UNCHANGED <<callVars, routing, serve, violation, nsVars, nsPrefixLost, toPeer, peerPrefix, peerNames, announced>>

Next ==
    \/ \E u \in Updates : Update(u) \/ UpdateReturns(u) \/ UpdateGivesUp(u)
    \/ ReadAnswer("ok") \/ ReadAnswer("error") \/ Route
    \/ ReadNamespace \/ ReadNamespaceDone \/ ServeEnds \/ ServeExits \/ Close
    \/ PeerAccepts \/ PeerRefuses \/ PeerSpeaksUnasked
    \/ \E s \in Names : PeerAnnounces(s) \/ PeerWithdraws(s)

Spec == Init /\ [][Next]_vars
-----------------------------------------------------------------------------

(* "the waiter queue order must match the write order" (broker.go): while no  *)
(* Update has given up, the updates waiting are the ones whose answers are    *)
(* still to be read, so each answer reaches the call it is for.               *)
AnswersPair ==
    ~gaveUp /\ ~closed /\ ~rude /\ serve # "done" =>
        LET coming == SelectSeq(toUs, LAMBDA m : m.kind \in {"ok", "error"}) IN
        /\ IsSuffix(toPeer, waiters) \/ peerDone
        /\ ~peerDone => Len(waiters) = Len(coming) + Len(toPeer)

(* No Update outlives its reader: once Serve has returned, every call still   *)
(* waiting has a result to wake up to, whenever it was sent.                  *)
NoUpdateStranded ==
    \A u \in Updates : call[u] = "waiting" =>
        \/ result[u] # None
        \/ ~closed /\ serve # "done" /\ Contains(waiters, u)
        \/ routing # <<>> /\ Contains(routing[2], u)

(* With everything read and no Update given up on, the broker knows the       *)
(* peer's prefix and exactly the namespaces it announced.                     *)
BrokerInStep ==
    serve = "reading" /\ toUs = <<>> /\ ~gaveUp /\ ~closed /\ ~rude =>
        nsPrefix = peerPrefix /\ namespaces = Full(peerPrefix, peerNames)

(* Updates and their answers stay in step: each answer is for the update it   *)
(* is given to, no update waits without a reader, and the names read are the  *)
(* peer's (broker.go).                                                        *)
UpdatesInStep == AnswersPair /\ NoUpdateStranded /\ BrokerInStep
=============================================================================
