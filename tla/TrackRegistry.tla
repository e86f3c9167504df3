---------------------------- MODULE TrackRegistry ----------------------------
(***************************************************************************)
(* One track of the relay's registry, and the handlers that find it a      *)
(* publisher: handlePublish, handleSubscribe with acquireUpstream and its  *)
(* RENDEZVOUS_TIMEOUT hold, and the late-publisher SUBSCRIBEs              *)
(* (pkg/relay/internal/registry/track_registry.go, handler_subscribe.go,   *)
(* handler_publish.go, handler_namespace.go).                              *)
(*                                                                         *)
(* Every registry operation holds r.mu and the entry's mutex throughout,   *)
(* so it is one step; what handlers do between operations (round trips to  *)
(* publishers, notifications after unlock) is separate.  Tracks interact   *)
(* only through RemoveSession, which visits every entry.                   *)
(***************************************************************************)
EXTENDS Integers, FiniteSets

CONSTANTS
    Pubs,    \* sessions that may PUBLISH_NAMESPACE a namespace of the track
    Feeds,   \* sessions that may PUBLISH the track
    Subs,    \* SUBSCRIBEs for the track, each on a session of its own
    Held,    \* those with a RENDEZVOUS_TIMEOUT
    Steady,  \* the publishers that stay
    Casts    \* the sets of sessions that take part together

VARIABLES
    nsSeq,    \* NamespaceRegistry.seq
    pubSeq,   \* each publisher's Seq: 0 before it registers, -1 once gone
    exists,   \* the track has an entry
    up,       \* entry.Upstream
    down,     \* entry.Downstream
    refused,  \* entry.refusals
    objects,  \* the entry has a watermark or cached Objects
    disc,     \* Discovery holds the track's record
    claims,   \* sessions with an upstream SUBSCRIBE claimed
    feed,     \* handlePublish of each feed: its progress, createdEntry
    sub,      \* handleSubscribe of each SUBSCRIBE, see NewSub
    late,     \* subscribeLatePublisher tasks: their progress
    notify,   \* downstreams RemoveUpstream is about to terminate
    told      \* history: the publishers sent a SUBSCRIBE for the track

entryVars == <<exists, up, down, refused, objects, disc>>
nsVars == <<nsSeq, pubSeq>>
vars == <<nsVars, entryVars, claims, feed, sub, late, notify, told>>

\* The tasks that SUBSCRIBE a late publisher: its own registration's, and the
\* one a SUBSCRIBE spawns once its downstream is on the entry.
Tasks == (Subs \cup {"ns"}) \X Pubs

Upstream(kind, by, at) == [kind |-> kind, by |-> by, at |-> at]
OnDemand(u) == u.kind # "publish"

\* HasUpstreamOn
HasUpstreamOn(p) == \E u \in up : u.at = p

Registered == {p \in Pubs : pubSeq[p] > 0}

NewSub == [pc |-> "idle", tries |-> 0, todo |-> {}, at |-> "none",
           claimed |-> FALSE, created |-> FALSE, seen |-> 0, reused |-> FALSE,
           est |-> FALSE, err |-> "none", asked |-> {}, again |-> {},
           arrived |-> FALSE, cut |-> FALSE, answer |-> "none"]

Init ==
    /\ nsSeq = 0
    /\ \E cast \in Casts :
         /\ pubSeq = [p \in Pubs |-> IF p \in cast THEN 0 ELSE -1]
         /\ feed = [q \in Feeds |-> [pc |-> IF q \in cast THEN "idle" ELSE "gone",
                                     created |-> FALSE]]
         /\ sub = [s \in Subs |-> [NewSub EXCEPT !.pc = IF s \in cast THEN "idle" ELSE "gone"]]
    /\ exists = FALSE /\ up = {} /\ down = {} /\ refused = {}
    /\ objects = FALSE /\ disc = FALSE
    /\ claims = {}
    /\ late = [t \in Tasks |-> "none"]
    /\ notify = {}
    /\ told = {}

-----------------------------------------------------------------------------
(* The registry's operations.                                              *)

\* The entry after an operation that leaves u upstream and d downstream, and
\* deletes it when gone.  Discovery follows the first and the last upstream.
SetEntry(u, d, gone) ==
    /\ up' = u /\ down' = d
    /\ exists' = ~gone
    /\ refused' = IF gone THEN {} ELSE refused
    /\ objects' = (objects /\ ~gone)
    /\ disc' = IF (up = {}) = (u = {}) THEN disc ELSE u # {}

\* GetOrCreateNew
GetOrCreateNew ==
    /\ exists' = TRUE
    /\ UNCHANGED <<up, down, refused, objects, disc>>

\* DeleteIfUnused, called by the handler that created the entry.
DeleteIfUnused(created) ==
    LET unused == exists /\ ~objects /\ up = {} /\ down = {} IN
    IF created /\ unused THEN SetEntry({}, {}, TRUE) ELSE UNCHANGED entryVars

\* arrivals.notifyLocked: the held SUBSCRIBEs that are looking are woken.
Woken(subs) == [s \in Subs |->
    IF s \in Held /\ subs[s].pc \in {"look", "match", "ask", "asking", "hold"}
    THEN [subs[s] EXCEPT !.arrived = TRUE] ELSE subs[s]]

\* AddUpstream
AddUpstream(u) == SetEntry(up \cup {u}, down, FALSE)

\* RemoveUpstream: when the last upstream goes, the downstreams of that
\* moment are terminated once the locks are released.  For an upstream
\* already gone it does nothing.
RemoveUpstream(u) ==
    LET left == up \ {u} IN
    /\ SetEntry(left, down, left = {} /\ down = {})
    /\ notify' = IF left = {} THEN notify \cup down ELSE notify

\* stripOnDemandLocked
Strip(u) == {x \in u : ~OnDemand(x)}

\* RemoveDownstream: with the last downstream the on-demand upstreams go.
RemoveDownstream(s) ==
    LET d == down \ {s}
        u == IF d = {} THEN Strip(up) ELSE up
    IN IF s \notin down THEN UNCHANGED entryVars
       ELSE SetEntry(u, d, u = {} /\ d = {})

\* ReleaseIfUnsubscribed
ReleaseIfUnsubscribed(u) ==
    LET left == up \ {u} IN
    IF exists /\ down = {} /\ u \in up
    THEN SetEntry(left, {}, left = {}) ELSE UNCHANGED entryVars

\* RemoveSession, which also deletes an entry that was empty before it.
RemoveSession(x) ==
    LET u1 == {u \in up : u.at # x}
        d  == down \ {x}
        u2 == IF d # down /\ d = {} THEN Strip(u1) ELSE u1
    IN /\ SetEntry(u2, d, u2 = {} /\ d = {})
       /\ notify' = IF up # {} /\ u1 = {} THEN notify \cup d ELSE notify

-----------------------------------------------------------------------------
(* handlePublish.                                                          *)

\* The entry is created before the alias becomes routable.
PublishCreate(q) ==
    /\ feed[q].pc = "idle"
    /\ GetOrCreateNew
    /\ feed' = [feed EXCEPT ![q] = [pc |-> "created", created |-> ~exists]]
    /\ UNCHANGED <<nsVars, claims, sub, late, notify, told>>

\* RegisterInboundTrack: the alias is routable, or a duplicate.
PublishAlias(q) ==
    /\ feed[q].pc = "created"
    /\ \/ feed' = [feed EXCEPT ![q].pc = "routable"] /\ UNCHANGED entryVars
       \/ feed' = [feed EXCEPT ![q].pc = "gone"] /\ DeleteIfUnused(feed[q].created)
    /\ UNCHANGED <<nsVars, claims, sub, late, notify, told>>

\* An Object arrives before the PUBLISH_OK and finds the entry.
EarlyObject(q) ==
    /\ feed[q].pc = "routable" /\ exists
    /\ objects' = TRUE
    /\ UNCHANGED <<nsVars, exists, up, down, refused, disc, claims, feed, sub,
                   late, notify, told>>

\* AddUpstream under the broker's write lock, ahead of the REQUEST_OK.
PublishAdd(q) ==
    /\ feed[q].pc = "routable"
    /\ AddUpstream(Upstream("publish", q, q))
    /\ feed' = [feed EXCEPT ![q].pc = "serving"]
    /\ sub' = Woken(sub)
    /\ UNCHANGED <<nsVars, claims, late, notify, told>>

\* The REQUEST_OK was not written, or the publisher's stream ended.
PublishEnd(q) ==
    /\ feed[q].pc = "serving"
    /\ RemoveUpstream(Upstream("publish", q, q))
    /\ feed' = [feed EXCEPT ![q].pc = "gone"]
    /\ UNCHANGED <<nsVars, claims, sub, late, told>>

-----------------------------------------------------------------------------
(* handlePublishNamespace, as far as the track is concerned.               *)

\* RegisterPublisher; subscribeExistingTracks runs on its own goroutine.
RegisterPublisher(p) ==
    /\ pubSeq[p] = 0
    /\ nsSeq' = nsSeq + 1
    /\ pubSeq' = [pubSeq EXCEPT ![p] = nsSeq + 1]
    /\ late' = [late EXCEPT ![<<"ns", p>>] = "start"]
    /\ sub' = Woken(sub)
    /\ UNCHANGED <<entryVars, claims, feed, notify, told>>

UnregisterPublisher(p) ==
    /\ pubSeq[p] > 0 /\ p \notin Steady
    /\ pubSeq' = [pubSeq EXCEPT ![p] = -1]
    /\ UNCHANGED <<nsSeq, entryVars, claims, feed, sub, late, notify, told>>

\* A session ends: a publisher's, a subscriber's whose handler has not come to
\* its own cleanup, or one with nothing on this track.
SessionEnds(x) ==
    /\ exists
    /\ x \in Pubs => pubSeq[x] = -1
    /\ x \in Subs => sub[x].pc = "serving"
    /\ RemoveSession(x)
    /\ UNCHANGED <<nsVars, claims, feed, sub, late, told>>

\* serveUpstreamStream returned for an upstream the relay opened: its
\* publisher ended it.
UpstreamEnds(u) ==
    /\ OnDemand(u) /\ u.at \notin Steady
    /\ RemoveUpstream(u)
    /\ UNCHANGED <<nsVars, claims, feed, sub, late, told>>

-----------------------------------------------------------------------------
(* handleSubscribe.                                                        *)

Step(s, pc) == [sub[s] EXCEPT !.pc = pc]

Refuse(s, why) == [NewSub EXCEPT !.pc = "gone", !.answer = why]

\* A look for an upstream begins: a held SUBSCRIBE waits for arrivals from
\* here on (beginHoldLook), and the publishers' Seq is read.
BeginLook(s, r) ==
    [r EXCEPT !.pc = "look", !.arrived = FALSE, !.cut = FALSE, !.seen = nsSeq,
              !.est = FALSE, !.err = "none", !.again = {}, !.asked = IF s \in Held THEN @ ELSE {}]

Subscribe(s) ==
    /\ sub[s].pc = "idle"
    /\ sub' = [sub EXCEPT ![s] = BeginLook(s, sub[s])]
    /\ UNCHANGED <<nsVars, entryVars, claims, feed, late, notify, told>>

\* acquireUpstream finds an upstream to reuse, or goes to look for one.
LookEntry(s) ==
    /\ sub[s].pc = "look"
    /\ sub' = [sub EXCEPT ![s] =
                  IF up # {} THEN [Step(s, "register") EXCEPT !.reused = TRUE, !.seen = 0]
                             ELSE [Step(s, "match") EXCEPT !.reused = FALSE]]
    /\ UNCHANGED <<nsVars, entryVars, claims, feed, late, notify, told>>

\* subscribeUpstream: the publishers to ask are those not asked before.
MatchPublishers(s) ==
    /\ sub[s].pc = "match"
    /\ LET asked == sub[s].asked \cup {u.at : u \in up} IN
       sub' = [sub EXCEPT ![s] =
                 [Step(s, "ask") EXCEPT !.asked = asked, !.todo = Registered \ asked]]
    /\ UNCHANGED <<nsVars, entryVars, claims, feed, late, notify, told>>

\* The look's goroutine sees the arrival and cancels the look.
CutShort(s) ==
    /\ sub[s].pc \in {"ask", "asking"} /\ sub[s].arrived /\ ~sub[s].cut
    /\ sub' = [sub EXCEPT ![s].cut = TRUE]
    /\ UNCHANGED <<nsVars, entryVars, claims, feed, late, notify, told>>

\* establish, up to the upstream SUBSCRIBE: the claim is taken when free, and
\* the entry created before the round trip.
Ask(s) ==
    /\ sub[s].pc = "ask" /\ ~sub[s].cut
    /\ \E p \in sub[s].todo :
         LET free == p \notin claims /\ ~HasUpstreamOn(p) IN
         /\ sub' = [sub EXCEPT ![s] =
                [Step(s, "asking") EXCEPT !.todo = @ \ {p}, !.at = p, !.claimed = free,
                     !.created = ~exists, !.asked = @ \cup {p}]]
         /\ claims' = IF free THEN claims \cup {p} ELSE claims
         /\ told' = told \cup {p}
    /\ GetOrCreateNew
    /\ UNCHANGED <<nsVars, feed, late, notify>>

\* The round trip is over and the claim, if held, is released.
Asked(s, r) == [r EXCEPT !.pc = "ask", !.at = "none", !.claimed = FALSE, !.created = FALSE]
Unclaim(s) == claims' = IF sub[s].claimed THEN claims \ {sub[s].at} ELSE claims

\* SUBSCRIBE_OK: the upstream is registered.
Answered(s) ==
    /\ sub[s].pc = "asking"
    /\ AddUpstream(Upstream(IF sub[s].claimed THEN "look" ELSE "extra", s, sub[s].at))
    /\ sub' = Woken([sub EXCEPT ![s] = [Asked(s, sub[s]) EXCEPT !.est = TRUE]])
    /\ Unclaim(s)
    /\ UNCHANGED <<nsVars, feed, late, notify, told>>

\* The publisher has no such track, or none yet (await), refused for another
\* reason (hard), or was lost to the transport, to be asked again later.
Failed(s) ==
    /\ sub[s].pc = "asking" /\ ~sub[s].cut
    /\ DeleteIfUnused(sub[s].created)
    /\ \E why \in IF s \in Held THEN {"await", "hard", "lost"} ELSE {"hard"} :
         sub' = [sub EXCEPT ![s] =
            [Asked(s, sub[s]) EXCEPT
                !.err = IF why = "hard" \/ @ = "hard" THEN "hard" ELSE "await",
                !.again = IF why = "lost" THEN @ \cup {sub[s].at} ELSE @]]
    /\ Unclaim(s)
    /\ UNCHANGED <<nsVars, feed, late, notify, told>>

\* The round trip was cut short: the publisher is asked again next time.
Interrupted(s) ==
    /\ sub[s].pc = "asking" /\ sub[s].cut
    /\ DeleteIfUnused(sub[s].created)
    /\ sub' = [sub EXCEPT ![s] = [Asked(s, sub[s]) EXCEPT !.asked = @ \ {sub[s].at}]]
    /\ Unclaim(s)
    /\ UNCHANGED <<nsVars, feed, late, notify, told>>

\* subscribeUpstream returns: to register, to hold, or to refuse.
Settle(s) ==
    /\ sub[s].pc = "ask" /\ (sub[s].todo = {} \/ sub[s].cut)
    /\ LET r == [sub[s] EXCEPT !.todo = {}, !.asked = @ \ sub[s].again] IN
       sub' = [sub EXCEPT ![s] =
          CASE r.est -> [NewSub EXCEPT !.pc = "register", !.tries = r.tries, !.seen = r.seen,
                                       !.asked = IF s \in Held THEN r.asked ELSE {}]
            [] ~r.est /\ s \in Held /\ (r.err # "hard" \/ r.cut) -> [r EXCEPT !.pc = "hold"]
            [] OTHER -> Refuse(s, "refused")]
    /\ UNCHANGED <<nsVars, entryVars, claims, feed, late, notify, told>>

\* A publisher arrived: the held SUBSCRIBE looks again,
HoldWake(s) ==
    /\ sub[s].pc = "hold" /\ sub[s].arrived
    /\ sub' = [sub EXCEPT ![s] = BeginLook(s, sub[s])]
    /\ UNCHANGED <<nsVars, entryVars, claims, feed, late, notify, told>>

\* or none did: TIMEOUT, or the subscriber is gone.
HoldTimeout(s) ==
    /\ sub[s].pc = "hold" /\ ~sub[s].arrived
    /\ sub' = [sub EXCEPT ![s] = Refuse(s, "timeout")]
    /\ UNCHANGED <<nsVars, entryVars, claims, feed, late, notify, told>>

\* Fault: the downstream is added to an entry whatever its upstreams.
RegisterAnyway(s) ==
    /\ sub[s].pc = "register"
    /\ SetEntry(up, down \cup {s}, FALSE)
    /\ sub' = [sub EXCEPT ![s] = Step(s, "missing")]
    /\ UNCHANGED <<nsVars, claims, feed, late, notify, told>>

\* AddDownstreamSnapshotLargest, which never revives a sourceless entry; the
\* handler then tries once more.
Register(s) ==
    /\ sub[s].pc = "register"
    /\ IF up # {}
       THEN /\ SetEntry(up, down \cup {s}, FALSE)
            /\ sub' = [sub EXCEPT ![s] = Step(s, "missing")]
       ELSE /\ UNCHANGED entryVars
            /\ sub' = [sub EXCEPT ![s] =
                  IF sub[s].tries = 1 THEN Refuse(s, "refused")
                  ELSE BeginLook(s, [sub[s] EXCEPT !.tries = 1])]
    /\ UNCHANGED <<nsVars, claims, feed, late, notify, told>>

\* Fault: a fresh upstream set is taken to cover every publisher.
MissingReused(s) ==
    LET missing == {p \in Registered : sub[s].reused /\ ~HasUpstreamOn(p) /\ p \notin refused}
    IN /\ sub[s].pc = "missing"
       /\ late' = [t \in Tasks |-> IF t[1] = s /\ t[2] \in missing THEN "start" ELSE late[t]]
       /\ refused' = refused \cap Registered
       /\ sub' = [sub EXCEPT ![s] =
             [NewSub EXCEPT !.pc = "serving",
                            !.answer = IF sub[s].answer = "done" THEN "done" ELSE "ok"]]
       /\ UNCHANGED <<nsVars, exists, up, down, objects, disc, claims, feed, notify, told>>

\* subscribeMissingPublishers, then WriteSubscribeOK, which a termination
\* may have answered instead.
Missing(s) ==
    LET missing == {p \in Registered :
            /\ sub[s].reused \/ pubSeq[p] > sub[s].seen
            /\ ~HasUpstreamOn(p) /\ p \notin refused}
    IN /\ sub[s].pc = "missing"
       /\ late' = [t \in Tasks |-> IF t[1] = s /\ t[2] \in missing
                                   THEN "start" ELSE late[t]]
       /\ refused' = refused \cap Registered
       /\ sub' = [sub EXCEPT ![s] =
             [NewSub EXCEPT !.pc = "serving",
                            !.answer = IF sub[s].answer = "done" THEN "done" ELSE "ok"]]
       /\ UNCHANGED <<nsVars, exists, up, down, objects, disc, claims, feed, notify, told>>

\* RemoveUpstream's or RemoveSession's TerminateWithPublishDone.
Terminate(s) ==
    /\ s \in notify
    /\ notify' = notify \ {s}
    /\ sub' = [sub EXCEPT ![s].answer = "done"]
    /\ UNCHANGED <<nsVars, entryVars, claims, feed, late, told>>

\* The subscription ends.
Leave(s) ==
    /\ sub[s].pc = "serving"
    /\ RemoveDownstream(s)
    /\ sub' = [sub EXCEPT ![s].pc = "gone"]
    /\ UNCHANGED <<nsVars, claims, feed, late, notify, told>>

-----------------------------------------------------------------------------
(* subscribeLatePublisher.                                                 *)

\* Skipped without a subscriber, or when the publisher is being asked; the
\* round trip follows.
LateStart(t) ==
    LET p == t[2]
        skip == up = {} \/ down = {} \/ p \in refused \/ p \in claims \/ HasUpstreamOn(p)
    IN /\ late[t] = "start"
       /\ IF skip
          THEN /\ late' = [late EXCEPT ![t] = "none"]
               /\ UNCHANGED <<entryVars, claims, told>>
          ELSE /\ late' = [late EXCEPT ![t] = "asking"]
               /\ claims' = claims \cup {p}
               /\ told' = told \cup {p}
               /\ UNCHANGED entryVars
       /\ UNCHANGED <<nsVars, feed, sub, notify>>

LateAnswered(t) ==
    /\ late[t] = "asking"
    /\ AddUpstream(Upstream("late", t[1], t[2]))
    /\ late' = [late EXCEPT ![t] = "added"]
    /\ sub' = Woken(sub)
    /\ UNCHANGED <<nsVars, claims, feed, notify, told>>

\* A REQUEST_ERROR is remembered on the entry, a transport failure is not.
LateFailed(t) ==
    /\ late[t] = "asking"
    /\ \/ UNCHANGED entryVars
       \/ /\ exists /\ refused' = refused \cup {t[2]}
          /\ UNCHANGED <<exists, up, down, objects, disc>>
    /\ late' = [late EXCEPT ![t] = "none"]
    /\ claims' = claims \ {t[2]}
    /\ UNCHANGED <<nsVars, feed, sub, notify, told>>

\* The last downstream may have left during the round trip.
LateRelease(t) ==
    /\ late[t] = "added"
    /\ ReleaseIfUnsubscribed(Upstream("late", t[1], t[2]))
    /\ late' = [late EXCEPT ![t] = "none"]
    /\ claims' = claims \ {t[2]}
    /\ UNCHANGED <<nsVars, feed, sub, notify, told>>

\* The Retry Interval of a refusal passes.
RetryPasses(p) ==
    /\ p \in refused
    /\ refused' = refused \ {p}
    /\ UNCHANGED <<nsVars, exists, up, down, objects, disc, claims, feed, sub, late,
                   notify, told>>

-----------------------------------------------------------------------------
Next ==
    \/ \E q \in Feeds :
         \/ PublishCreate(q) \/ PublishAlias(q) \/ EarlyObject(q)
         \/ PublishAdd(q) \/ PublishEnd(q)
    \/ \E p \in Pubs : RegisterPublisher(p) \/ UnregisterPublisher(p) \/ RetryPasses(p)
    \/ \E x \in Pubs \cup Subs \cup {"bystander"} : SessionEnds(x)
    \/ \E u \in up : UpstreamEnds(u)
    \/ \E s \in Subs :
         \/ Subscribe(s) \/ LookEntry(s) \/ MatchPublishers(s) \/ CutShort(s)
         \/ Ask(s) \/ Answered(s) \/ Failed(s) \/ Interrupted(s) \/ Settle(s)
         \/ HoldWake(s) \/ HoldTimeout(s) \/ Register(s) \/ Missing(s)
         \/ Terminate(s) \/ Leave(s)
    \/ \E t \in Tasks :
         LateStart(t) \/ LateAnswered(t) \/ LateFailed(t) \/ LateRelease(t)

Spec == Init /\ [][Next]_vars

-----------------------------------------------------------------------------
TypeOK ==
    /\ nsSeq \in 0..Cardinality(Pubs) /\ pubSeq \in [Pubs -> -1..Cardinality(Pubs)]
    /\ exists \in BOOLEAN /\ objects \in BOOLEAN /\ disc \in BOOLEAN
    /\ up \subseteq [kind : {"publish", "look", "extra", "late"},
                     by : Feeds \cup Subs \cup {"ns"}, at : Feeds \cup Pubs]
    /\ down \subseteq Subs /\ notify \subseteq Subs
    /\ refused \subseteq Pubs /\ claims \subseteq Pubs
    /\ \A s \in Subs : sub[s].todo \cup sub[s].asked \cup sub[s].again \subseteq Pubs \cup Feeds
    /\ ~exists => up = {} /\ down = {} /\ refused = {} /\ ~objects

\* A registered subscriber whose track lost its last upstream is told so: it
\* is terminated, or about to be (the TOCTOU AddDownstreamSnapshotLargest
\* closes, and RemoveUpstream's snapshot of the downstreams to notify).
NoStrandedSubscriber ==
    \A s \in down : up = {} => s \in notify \/ sub[s].answer = "done"

\* An upstream opened on demand never outlives its subscribers: without a
\* downstream it belongs to a SUBSCRIBE about to register, or to a late task
\* about to release it.
NoOrphanUpstream ==
    (down = {} /\ \E u \in up : OnDemand(u)) =>
        \/ \E s \in Subs : sub[s].est \/ sub[s].pc = "register"
        \/ \E t \in Tasks : late[t] = "added"

\* No lost wakeup: a held SUBSCRIBE waits for an arrival only while the track
\* has no upstream and every registered publisher was asked (the waiters are
\* in place before the look, handler_subscribe.go:505).
NoMissedArrival ==
    \A s \in Subs : sub[s].pc = "hold" /\ ~sub[s].arrived =>
        up = {} /\ Registered \subseteq sub[s].asked \cup sub[s].again

\* Discovery holds the track's record exactly while it has an upstream: the
\* publish and unpublish calls happen under r.mu, in order.
DiscoveryInStep == disc <=> up # {}

\* Nothing is under way that could still ask a publisher.
Quiescent ==
    /\ \A s \in Subs : sub[s].pc \in {"idle", "serving", "gone"}
    /\ \A t \in Tasks : late[t] = "none"

\* Every publisher registered for a track with subscribers was sent a
\* SUBSCRIBE for it (subscribeMissingPublishers and subscribeExistingTracks
\* between them, handler_namespace.go:104).
EveryPublisherAsked ==
    Quiescent /\ (\E s \in down \ notify : sub[s].answer = "ok") =>
        \A p \in Registered : p \in told \/ HasUpstreamOn(p)

\* The same, for a track no held SUBSCRIBE found an upstream for: there, the
\* arrival of the first upstream cuts the look short.
PublishersAskedUnheld ==
    (\A s \in Held : sub[s].pc \in {"idle", "gone"}) => EveryPublisherAsked

\* While a publisher's alias is routable, its streams find an entry
\* (handlePublish creates it before RegisterInboundTrack).
RoutableHasEntry == \A q \in Feeds : feed[q].pc = "routable" => exists

\* A track's upstreams, its downstreams and its discovery record come and go
\* together (TrackRegistry under r.mu, against the handlers that run outside).
UpstreamsInStep == TypeOK /\ NoStrandedSubscriber /\ NoOrphanUpstream /\ DiscoveryInStep

\* No publisher of a track is overlooked: by a SUBSCRIBE that is held, nor once
\* the looks for a track that is not held are over (handler_subscribe.go).
PublishersAsked == NoMissedArrival /\ PublishersAskedUnheld
=============================================================================
