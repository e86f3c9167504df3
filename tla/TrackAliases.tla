---------------------------- MODULE TrackAliases ----------------------------
(* Inbound Track Aliases of a session (trackalias.go): subscriptions register *)
(* the alias their SUBSCRIBE_OK (or PUBLISH) names, share it with others of   *)
(* the same track, and release it once, by whichever of several ends comes    *)
(* first (request.go). Subgroup streams may arrive before the message that    *)
(* names their alias and wait for it, briefly and in bounded number           *)
(* (handler_fanout.go).                                                       *)
EXTENDS Integers, FiniteSets

CONSTANTS
    Subs, Streams, Aliases, None,
    TrackOf,     \* subscription -> its track
    MaxEarly     \* maxEarlyStreams

VARIABLES
    sub,         \* "asked", "ok" (answer in flight), "live", "refused"
    alias,       \* subscription -> the alias its publisher assigned
    ender,       \* <<subscription, "close" | "fin">> -> "idle", "swapped", "done"
    released,    \* requestHandle.released
    bound,       \* inboundAliases: alias -> track or None
    refs,        \* inboundAliasRefs
    closed,      \* the session is closed
    carries,     \* stream -> the subscription whose Objects it carries
    pc,          \* stream -> where resolveInboundTrack is
    woken,       \* waiting streams whose aliasRegistered channel was closed
    early        \* earlyStreams

aliasVars == <<sub, alias, ender, released, bound, refs, closed>>
streamVars == <<carries, pc, early>>
vars == <<aliasVars, streamVars, woken>>

Tracks == {TrackOf[s] : s \in Subs}
Ends == {"close", "fin"}
Waiting == {d \in Streams : pc[d] = "waiting"}

TypeOK ==
    /\ sub \in [Subs -> {"asked", "ok", "live", "refused"}]
    /\ alias \in [Subs -> Aliases \union {None}]
    /\ ender \in [Subs \X Ends -> {"idle", "swapped", "done"}]
    /\ released \in [Subs -> BOOLEAN]
    /\ bound \in [Aliases -> Tracks \union {None}]
    /\ refs \in [Aliases -> 0..Cardinality(Subs)]
    /\ closed \in BOOLEAN
    /\ carries \in [Streams -> Subs \union {None}]
    /\ pc \in [Streams -> {"none", "arrived", "counted", "waiting", "settled"}]
    /\ woken \subseteq Streams
    /\ early \in 0..Cardinality(Streams)

Init ==
    /\ sub = [s \in Subs |-> "asked"]
    /\ alias = [s \in Subs |-> None]
    /\ ender = [e \in Subs \X Ends |-> "idle"]
    /\ released = [s \in Subs |-> FALSE]
    /\ bound = [a \in Aliases |-> None]
    /\ refs = [a \in Aliases |-> 0]
    /\ closed = FALSE
    /\ carries = [d \in Streams |-> None]
    /\ pc = [d \in Streams |-> "none"]
    /\ woken = {}
    /\ early = 0
-----------------------------------------------------------------------------
(* Subscriptions. *)
(* The publisher accepts: it may share an alias among subscriptions of one    *)
(* track, and gives it to no other track.                                     *)
PeerAccepts(s, a) ==
    /\ sub[s] = "asked"
    /\ \A t \in Subs : alias[t] = a => TrackOf[t] = TrackOf[s]
    /\ sub' = [sub EXCEPT ![s] = "ok"]
    /\ alias' = [alias EXCEPT ![s] = a]
    /\ UNCHANGED <<ender, released, bound, refs, closed, streamVars, woken>>

(* One that gives an alias in use to another track. *)
PeerMixesUp(s, a) ==
    /\ sub[s] = "asked"
    /\ bound[a] \notin {None, TrackOf[s]}
    /\ sub' = [sub EXCEPT ![s] = "refused"]
    /\ closed' = TRUE
    /\ UNCHANGED <<alias, ender, released, bound, refs, streamVars, woken>>

(* A new alias closes aliasRegistered, waking every waiter. *)
registerInboundTrack(s, a) ==
    /\ bound' = [bound EXCEPT ![a] = TrackOf[s]]
    /\ refs' = [refs EXCEPT ![a] = @ + 1]
    /\ woken' = IF bound[a] = None THEN woken \union Waiting ELSE woken

(* SUBSCRIBE_OK is read, or a PUBLISH accepted. *)
Established(s) ==
    /\ ~closed /\ sub[s] = "ok"
    /\ registerInboundTrack(s, alias[s])
    /\ sub' = [sub EXCEPT ![s] = "live"]
    /\ UNCHANGED <<alias, ender, released, closed, streamVars>>

\* Fault: each end of a subscription releases its alias.
TerminatedEach(s, e) ==
    /\ sub[s] = "live" /\ ender[<<s, e>>] = "idle"
    /\ ender' = [ender EXCEPT ![<<s, e>>] = "swapped"]
    /\ released' = [released EXCEPT ![s] = TRUE]
    /\ UNCHANGED <<sub, alias, bound, refs, closed, streamVars, woken>>

(* terminated: the application's Close and the reader of the FIN each try to   *)
(* swap released, and the winner unregisters the alias.                       *)
Terminated(s, e) ==
    /\ sub[s] = "live" /\ ender[<<s, e>>] = "idle"
    /\ ender' = [ender EXCEPT ![<<s, e>>] = IF released[s] THEN "done" ELSE "swapped"]
    /\ released' = [released EXCEPT ![s] = TRUE]
    /\ UNCHANGED <<sub, alias, bound, refs, closed, streamVars, woken>>

UnregisterInboundTrackAlias(s, e) ==
    /\ ender[<<s, e>>] = "swapped"
    /\ ender' = [ender EXCEPT ![<<s, e>>] = "done"]
    /\ LET a == alias[s]  last == refs[a] <= 1 IN
       /\ bound' = IF last THEN [bound EXCEPT ![a] = None] ELSE bound
       /\ refs' = [refs EXCEPT ![a] = IF last THEN 0 ELSE @ - 1]
    /\ UNCHANGED <<sub, alias, released, closed, streamVars, woken>>

-----------------------------------------------------------------------------
(* Data streams. The publisher may send them as soon as it has accepted. *)
StreamArrives(d, s) ==
    /\ ~closed
    /\ pc[d] = "none" /\ sub[s] \in {"ok", "live"}
    /\ carries' = [carries EXCEPT ![d] = s]
    /\ pc' = [pc EXCEPT ![d] = "arrived"]
    /\ UNCHANGED <<aliasVars, early, woken>>

(* resolveInboundTrack returns: the stream is forwarded, or reset. *)
Settle(d) ==
    /\ pc' = [pc EXCEPT ![d] = "settled"]
    /\ carries' = [carries EXCEPT ![d] = None]

AliasBound(d) == bound[alias[carries[d]]] # None

(* resolveInboundTrack: the lookup. *)
LookupHit(d) ==
    /\ pc[d] = "arrived" /\ AliasBound(d)
    /\ Settle(d)
    /\ UNCHANGED <<aliasVars, early, woken>>

(* A miss takes one of the places to wait, or finds none left and gives its   *)
(* own back; the stream is reset with EXCESSIVE_LOAD.                         *)
CountEarly(d) ==
    /\ pc[d] = "arrived" /\ ~AliasBound(d)
    /\ IF early < MaxEarly
       THEN /\ early' = early + 1
            /\ pc' = [pc EXCEPT ![d] = "counted"]
            /\ UNCHANGED carries
       ELSE Settle(d) /\ UNCHANGED early
    /\ UNCHANGED <<aliasVars, woken>>

(* awaitInboundTrack: under the lock, the alias is there, or the current      *)
(* channel is taken to wait on.                                               *)
AwaitCheck(d) ==
    /\ pc[d] = "counted" \/ (pc[d] = "waiting" /\ d \in woken)
    /\ woken' = woken \ {d}
    /\ IF AliasBound(d)
       THEN Settle(d) /\ early' = early - 1
       ELSE pc' = [pc EXCEPT ![d] = "waiting"] /\ UNCHANGED <<early, carries>>
    /\ UNCHANGED aliasVars

(* The wait ends by its timeout or with the session. *)
AwaitEnds(d) ==
    /\ pc[d] = "waiting"
    /\ Settle(d)
    /\ early' = early - 1
    /\ woken' = woken \ {d}
    /\ UNCHANGED aliasVars

StreamSteps(d) == LookupHit(d) \/ CountEarly(d) \/ AwaitCheck(d) \/ AwaitEnds(d)

Next ==
    \/ \E s \in Subs : Established(s)
    \/ \E s \in Subs, a \in Aliases : PeerAccepts(s, a) \/ PeerMixesUp(s, a)
    \/ \E s \in Subs, e \in Ends : Terminated(s, e) \/ UnregisterInboundTrackAlias(s, e)
    \/ \E d \in Streams, s \in Subs : StreamArrives(d, s)
    \/ \E d \in Streams : StreamSteps(d)

Spec == Init /\ [][Next]_vars
-----------------------------------------------------------------------------
(* "a second release would take a registration another subscription sharing   *)
(* the alias holds" (request.go): the alias of a subscription that has not    *)
(* ended resolves to its track, whoever else shared it and ended.             *)
LiveAliasResolves ==
    \A s \in Subs : sub[s] = "live" /\ ~released[s] => bound[alias[s]] = TrackOf[s]

(* Once every subscription that shared an alias has released it, it is gone:  *)
(* the count of registrations leaks none.                                     *)
ReleasedAliasGone ==
    \A a \in Aliases :
        (\A s \in Subs : sub[s] = "live" /\ alias[s] = a =>
            released[s] /\ \A e \in Ends : ender[<<s, e>>] # "swapped")
        => bound[a] = None /\ refs[a] = 0

(* A registration is never missed by a stream that looked just before it:     *)
(* a stream still asleep has no alias to wake up for.                         *)
NoMissedRegistration ==
    \A d \in Waiting : d \notin woken => ~AliasBound(d)

(* An alias is bound exactly while a subscription that uses it lives, and the *)
(* streams that wait for one learn of it (trackalias.go).                     *)
AliasWhileLive == LiveAliasResolves /\ ReleasedAliasGone /\ NoMissedRegistration
=============================================================================
