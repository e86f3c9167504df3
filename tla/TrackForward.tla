---------------------------- MODULE TrackForward ----------------------------
(***************************************************************************)
(* One track offered to one SUBSCRIBE_TRACKS holder of a session           *)
(* (pkg/relay/handler_forward.go, the forwarding claim of                  *)
(* internal/registry/namespace.go, and the callers of ForwardTrack in      *)
(* handler_publish.go, handler_subscribe.go and handler_namespace.go).     *)
(*                                                                         *)
(* An offer is one run of ForwardTrack; it runs in the goroutine of the    *)
(* upstream that arrived (Feeds), of a SUBSCRIBE of the holder's own       *)
(* session (Subs) or of the holder itself ("scan").  A forward is the      *)
(* PUBLISH an offer opens, served by a goroutine of its own.  The track's  *)
(* entry is deleted when it has neither upstream nor downstream and made   *)
(* anew later, so an offer keeps the generation of the entry it was        *)
(* handed.  Downstreams of other sessions are not modelled: an upstream    *)
(* subscribed on demand for them is a feed here.                           *)
(***************************************************************************)
EXTENDS Integers, FiniteSets

CONSTANTS
    Feeds,      \* upstreams added by others: a PUBLISH, or a SUBSCRIBE of another session
    Own,        \* the feeds published by the holder's own session
    Subs,       \* SUBSCRIBEs for the track on the holder's session
    MaxFwd,     \* bound: forwarded PUBLISHes
    MaxMoves,   \* bound: TRACK_NAMESPACE_PREFIX updates
    Casts       \* bound: the sets of feeds and SUBSCRIBEs that meet in one behaviour

VARIABLES
    holder,     \* the SUBSCRIBE_TRACKS: "none", "open", "away" (its session has a GOAWAY), "closed"
    covers,     \* its prefix covers the track's namespace
    moves,
    up,         \* the entry's upstreams, by the feed or SUBSCRIBE that added them
    gen,        \* generation of the track's entry
    epoch,      \* the latest upstream epoch of each entry generation
    sub,        \* each SUBSCRIBE: state, and whether it added the upstream
    dst,        \* each downstream of the session on the entry
    held,       \* the holder is recorded in inflightSubscribe.held
    claimed,    \* SubscriberEntry.forwarding holds the track
    skipped,    \* SubscriberEntry.skipped: epoch of the last PUBLISH_SKIPPED, 0 if none
    off,        \* the offers
    fwd,        \* the forwarded PUBLISHes
    owed        \* history: an offer of the track to the holder is due

vars == <<holder, covers, moves, up, gen, epoch, sub, dst, held, claimed, skipped, off, fwd, owed>>

Fwds == 1..MaxFwd
Offers == Feeds \cup Subs \cup {"scan"}
MaxGen == Cardinality(Feeds \cup Subs)
InFlight == {i \in Subs : sub[i].st \in {"asking", "register", "settle"}}
Downs == {x \in DOMAIN dst : dst[x] # "none"}
NoOffer == [pc |-> "idle", te |-> 0, ep |-> 0, late |-> {}]

(***************************************************************************)
(* The entry: AddUpstream makes it when it is missing and takes a new      *)
(* epoch; RemoveUpstream of the last upstream leaves its downstreams to be *)
(* terminated; RemoveDownstream of the last downstream drops the upstreams *)
(* subscribed on demand.                                                   *)
(***************************************************************************)
LastEpoch == LET used == {epoch[g] : g \in DOMAIN epoch}
             IN  CHOOSE e \in used : \A d \in used : d <= e
EntryGen == IF up = {} /\ Downs = {} THEN gen + 1 ELSE gen

AddUpstream(u) ==
    /\ up' = up \cup {u}
    /\ gen' = EntryGen
    /\ epoch' = [epoch EXCEPT ![EntryGen] = LastEpoch + 1]

Remaining(u) ==
    /\ up' = u
    /\ dst' = IF u = {} THEN [x \in DOMAIN dst |-> IF dst[x] = "live" THEN "dying" ELSE dst[x]] ELSE dst

RemoveDownstream(x) ==
    /\ dst' = [dst EXCEPT ![x] = "none"]
    /\ up' = IF Downs = {x} THEN up \ Subs ELSE up

\* The track is to be offered: the holder asks for it, does not publish it
\* and does not receive it.
Offerable(u) == u # {} /\ u \cap Own = {} /\ \A x \in DOMAIN dst : dst[x] # "live"
Owe(u) == owed' = IF holder = "open" /\ covers /\ Offerable(u) THEN "yes" ELSE "no"
Lapse(u) == owed' = IF u # {} /\ u \cap Own = {} THEN owed ELSE "no"

(***************************************************************************)
(* Feeds: handlePublish adds the upstream, offers the track to the         *)
(* matching holders in its own goroutine and removes the upstream when     *)
(* the publisher is done, which is after the offer.                        *)
(***************************************************************************)
FeedArrives(a) ==
    /\ off[a].pc = "idle"
    /\ AddUpstream(a)
    /\ off' = [off EXCEPT ![a] = [NoOffer EXCEPT !.pc = "match", !.te = EntryGen]]
    /\ Owe(up \cup {a})
    /\ UNCHANGED <<holder, covers, moves, sub, dst, held, claimed, skipped, fwd>>

FeedLeaves(a) ==
    /\ off[a].pc = "done"
    /\ off' = [off EXCEPT ![a] = [NoOffer EXCEPT !.pc = "gone"]]
    /\ Remaining(up \ {a})
    /\ Lapse(up \ {a})
    /\ UNCHANGED <<holder, covers, moves, gen, epoch, sub, held, claimed, skipped, fwd>>

(***************************************************************************)
(* The holder: handleSubscribeTracks registers it and offers it what       *)
(* exists; tracksUpdate moves its prefix and offers what newly matches;    *)
(* UnregisterSubscriber closes it; a GOAWAY in either direction ends the   *)
(* offers to its session.                                                  *)
(***************************************************************************)
ScanFree == off["scan"].pc \in {"idle", "done"}
Scan == off' = [off EXCEPT !["scan"] = [NoOffer EXCEPT !.pc = "look"]]

SubscribeTracks ==
    /\ holder = "none"
    /\ holder' = "open"
    /\ Scan
    /\ owed' = IF covers /\ Offerable(up) THEN "yes" ELSE "no"
    /\ UNCHANGED <<covers, moves, up, gen, epoch, sub, dst, held, claimed, skipped, fwd>>

UpdatePrefix ==
    /\ holder \in {"open", "away"} /\ ScanFree /\ moves < MaxMoves
    /\ covers' = ~covers
    /\ moves' = moves + 1
    /\ IF covers THEN UNCHANGED off ELSE Scan
    /\ owed' = IF holder = "open" /\ ~covers /\ Offerable(up) THEN "yes" ELSE "no"
    /\ UNCHANGED <<holder, up, gen, epoch, sub, dst, held, claimed, skipped, fwd>>

HolderEnds(st) ==
    /\ holder = "open" \/ (holder = "away" /\ st = "closed")
    /\ st = "closed" => ScanFree
    /\ holder' = st
    /\ owed' = "no"
    /\ UNCHANGED <<covers, moves, up, gen, epoch, sub, dst, held, claimed, skipped, off, fwd>>

\* MatchNamespace, then hasEstablishedUpstream, in the holder's goroutine.
Look ==
    /\ off["scan"].pc = "look"
    /\ off' = [off EXCEPT !["scan"] =
                  [NoOffer EXCEPT !.pc = IF covers /\ up # {} THEN "enter" ELSE "done", !.te = gen]]
    /\ UNCHANGED <<holder, covers, moves, up, gen, epoch, sub, dst, held, claimed, skipped, fwd, owed>>

(***************************************************************************)
(* SUBSCRIBEs of the session: in flight from beginSubscribe until their    *)
(* downstream is registered or they failed.  The last one to settle offers *)
(* the held track again; one that added the upstream then offers it too.   *)
(***************************************************************************)
BeginSubscribe(i) ==
    /\ sub[i].st = "idle"
    /\ sub' = [sub EXCEPT ![i].st = "asking"]
    /\ off' = [o \in Offers |-> IF off[o].pc \in {"epoch", "claim", "down", "open"}
                                THEN [off[o] EXCEPT !.late = @ \cup {i}] ELSE off[o]]
    /\ fwd' = [f \in Fwds |-> IF fwd[f].st # "none" THEN [fwd[f] EXCEPT !.late = @ \cup {i}] ELSE fwd[f]]
    /\ UNCHANGED <<holder, covers, moves, up, gen, epoch, dst, held, claimed, skipped, owed>>

\* acquireUpstream: reuse the track's upstream, subscribe to one, or fail.
Acquire(i) ==
    /\ sub[i].st = "asking"
    /\ \/ /\ up # {}
          /\ sub' = [sub EXCEPT ![i].st = "register"]
          /\ UNCHANGED <<up, gen, epoch, owed>>
       \/ /\ up = {}
          /\ AddUpstream(i)
          /\ sub' = [sub EXCEPT ![i] = [st |-> "register", fresh |-> TRUE]]
          /\ Owe({i})
       \/ /\ up = {}
          /\ sub' = [sub EXCEPT ![i].st = "settle"]
          /\ UNCHANGED <<up, gen, epoch, owed>>
    /\ UNCHANGED <<holder, covers, moves, dst, held, claimed, skipped, off, fwd>>

AddDownstream(i) ==
    /\ sub[i].st = "register"
    /\ dst' = [dst EXCEPT ![i] = IF up # {} THEN "live" ELSE "none"]
    /\ sub' = [sub EXCEPT ![i] = [st |-> "settle", fresh |-> @.fresh /\ up # {}]]
    /\ UNCHANGED <<holder, covers, moves, up, gen, epoch, held, claimed, skipped, off, fwd, owed>>

\* Fault: the held offers are dropped when the SUBSCRIBE has registered or failed.
SettleDropping(i) ==
    /\ sub[i].st = "settle"
    /\ sub' = [sub EXCEPT ![i].st = "after"]
    /\ held' = (held /\ InFlight # {i})
    /\ off' = [off EXCEPT ![i] = [NoOffer EXCEPT !.pc = "done"]]
    /\ UNCHANGED <<holder, covers, moves, up, gen, epoch, dst, claimed, skipped, fwd, owed>>

Settle(i) ==
    /\ sub[i].st = "settle"
    /\ sub' = [sub EXCEPT ![i].st = "after"]
    /\ held' = (held /\ InFlight # {i})
    /\ off' = [off EXCEPT ![i] = [NoOffer EXCEPT
                  !.pc = IF held /\ InFlight = {i} /\ up # {} THEN "enter" ELSE "done", !.te = gen]]
    /\ UNCHANGED <<holder, covers, moves, up, gen, epoch, dst, claimed, skipped, fwd, owed>>

OfferNew(i) ==
    /\ sub[i].st = "after" /\ off[i].pc = "done"
    /\ sub' = [sub EXCEPT ![i] = [st |-> "serving", fresh |-> FALSE]]
    /\ off' = [off EXCEPT ![i] = IF sub[i].fresh THEN [NoOffer EXCEPT !.pc = "match", !.te = gen] ELSE @]
    /\ UNCHANGED <<holder, covers, moves, up, gen, epoch, dst, held, claimed, skipped, fwd, owed>>

SubscribeEnds(i) ==
    /\ sub[i].st = "serving" /\ off[i].pc = "done" /\ dst[i] # "none"
    /\ sub' = [sub EXCEPT ![i].st = "gone"]
    /\ RemoveDownstream(i)
    /\ Lapse(up')
    /\ UNCHANGED <<holder, covers, moves, gen, epoch, held, claimed, skipped, off, fwd>>

\* The publisher ends an upstream subscribed on demand.
UpstreamEnds(i) ==
    /\ i \in up
    /\ Remaining(up \ {i})
    /\ Lapse(up \ {i})
    /\ UNCHANGED <<holder, covers, moves, gen, epoch, sub, held, claimed, skipped, off, fwd>>

\* TerminateWithPublishDone of a downstream RemoveUpstream returned.
Terminate(x) ==
    /\ dst[x] = "dying"
    /\ dst' = [dst EXCEPT ![x] = "terminated"]
    /\ UNCHANGED <<holder, covers, moves, up, gen, epoch, sub, held, claimed, skipped, off, fwd, owed>>

(***************************************************************************)
(* forwardTrack, statement by statement up to each lock it takes.          *)
(***************************************************************************)
Goto(o, pc) == off' = [off EXCEPT ![o] = IF pc = "done" THEN [NoOffer EXCEPT !.pc = pc] ELSE [@ EXCEPT !.pc = pc]]

\* forwardToTrackSubscribers: MatchSubscribers.
Match(o) ==
    /\ off[o].pc = "match"
    /\ Goto(o, IF holder \in {"open", "away"} /\ covers THEN "enter" ELSE "done")
    /\ UNCHANGED <<holder, covers, moves, up, gen, epoch, sub, dst, held, claimed, skipped, fwd, owed>>

Enter(o) ==
    /\ off[o].pc = "enter"
    /\ Goto(o, IF holder = "away" \/ ~covers \/ (off[o].te = gen /\ up \cap Own # {}) THEN "done" ELSE "hold")
    /\ UNCHANGED <<holder, covers, moves, up, gen, epoch, sub, dst, held, claimed, skipped, fwd, owed>>

HoldForward(o) ==
    /\ off[o].pc = "hold"
    /\ Goto(o, IF InFlight # {} THEN "done" ELSE "epoch")
    /\ held' = (held \/ InFlight # {})
    /\ UNCHANGED <<holder, covers, moves, up, gen, epoch, sub, dst, claimed, skipped, fwd, owed>>

ReadEpoch(o) ==
    /\ off[o].pc = "epoch"
    /\ off' = [off EXCEPT ![o].pc = "claim", ![o].ep = epoch[off[o].te]]
    /\ UNCHANGED <<holder, covers, moves, up, gen, epoch, sub, dst, held, claimed, skipped, fwd, owed>>

\* SubscriberEntry.ClaimForward.  A refused offer is covered by the forward
\* that holds the claim, unless that one is already over.
Spent(f) == fwd[f].st = "failed" \/ (fwd[f].st = "registered" /\ dst[f] # "live")

Refused(o) == claimed \/ holder = "closed" \/ (skipped # 0 /\ skipped >= off[o].ep)

Claim(o) ==
    /\ off[o].pc = "claim"
    /\ Goto(o, IF Refused(o) THEN "done" ELSE "down")
    /\ claimed' = (claimed \/ ~Refused(o))
    /\ owed' = IF ~Refused(o) \/ owed # "yes" THEN owed
               ELSE IF claimed THEN IF \E f \in Fwds : Spent(f) THEN "raced" ELSE owed
               ELSE "no"
    /\ UNCHANGED <<holder, covers, moves, up, gen, epoch, sub, dst, held, skipped, fwd>>

\* HasDownstreamOn, under the claim, on the entry the offer was handed.
HasDownstreamOn(o) == off[o].te = gen /\ \E x \in DOMAIN dst : dst[x] \in {"live", "dying"}

CheckDownstream(o) ==
    /\ off[o].pc = "down"
    /\ Goto(o, IF HasDownstreamOn(o) THEN "done" ELSE "open")
    /\ claimed' = ~HasDownstreamOn(o)
    /\ owed' = IF ~HasDownstreamOn(o) \/ owed # "yes" THEN owed
               ELSE IF \E x \in DOMAIN dst : dst[x] = "live" THEN "no" ELSE "raced"
    /\ UNCHANGED <<holder, covers, moves, up, gen, epoch, sub, dst, held, skipped, fwd>>

Spare == {f \in Fwds : fwd[f].st = "none"}
NextFwd == CHOOSE f \in Spare : \A g \in Spare : f <= g
NewForward(o) == [st |-> "opened", te |-> off[o].te, late |-> off[o].late]

\* OpenPublish: the PUBLISH is sent and served by its own goroutine; or there
\* is no stream credit, and a PUBLISH_SKIPPED is queued and noted while the
\* prefix still covers the track; or it fails.
OpenPublish(o) ==
    /\ off[o].pc = "open" /\ Spare # {}
    /\ fwd' = [fwd EXCEPT ![NextFwd] = NewForward(o)]
    /\ Goto(o, "done")
    /\ owed' = "no"
    /\ UNCHANGED <<holder, covers, moves, up, gen, epoch, sub, dst, held, claimed, skipped>>

NotOpened(o) ==
    /\ off[o].pc = "open"
    /\ skipped' \in {skipped} \cup (IF covers THEN {off[o].ep} ELSE {})
    /\ claimed' = FALSE
    /\ Goto(o, "done")
    /\ owed' = "no"
    /\ UNCHANGED <<holder, covers, moves, up, gen, epoch, sub, dst, held, fwd>>

(***************************************************************************)
(* serveForwardedPublish.                                                  *)
(***************************************************************************)
RegisterForward(f) ==
    /\ fwd[f].st = "opened"
    /\ fwd' = [fwd EXCEPT ![f].st = IF up # {} THEN "registered" ELSE "failed"]
    /\ dst' = [dst EXCEPT ![f] = IF up # {} THEN "live" ELSE "none"]
    /\ owed' = IF up # {} THEN "no" ELSE owed
    /\ UNCHANGED <<holder, covers, moves, up, gen, epoch, sub, held, claimed, skipped, off>>

\* registered() releases the claim; one that found no upstream ends there.
ReleaseForward(f) ==
    /\ fwd[f].st \in {"registered", "failed"}
    /\ claimed' = FALSE
    /\ fwd' = [fwd EXCEPT ![f] = IF @.st = "failed" THEN [st |-> "gone", te |-> 0, late |-> {}]
                                 ELSE [@ EXCEPT !.st = "serving"]]
    /\ UNCHANGED <<holder, covers, moves, up, gen, epoch, sub, dst, held, skipped, off, owed>>

\* The subscriber refuses the PUBLISH, cancels it or acknowledges its end.
ForwardEnds(f) ==
    /\ fwd[f].st = "serving"
    /\ fwd' = [fwd EXCEPT ![f] = [st |-> "gone", te |-> 0, late |-> {}]]
    /\ RemoveDownstream(f)
    /\ Lapse(up')
    /\ UNCHANGED <<holder, covers, moves, gen, epoch, sub, held, claimed, skipped, off>>

Init ==
    \E cast \in Casts, c \in BOOLEAN :
        /\ holder = "none" /\ covers = c /\ moves = 0
        /\ up = {} /\ gen = 0 /\ epoch = [g \in 0..MaxGen |-> 0]
        /\ sub = [i \in Subs |-> [st |-> IF i \in cast THEN "idle" ELSE "gone", fresh |-> FALSE]]
        /\ dst = [x \in Subs \cup Fwds |-> "none"]
        /\ held = FALSE /\ claimed = FALSE /\ skipped = 0
        /\ off = [o \in Offers |-> [NoOffer EXCEPT !.pc = IF o \in Feeds \ cast THEN "gone" ELSE "idle"]]
        /\ fwd = [f \in Fwds |-> [st |-> "none", te |-> 0, late |-> {}]]
        /\ owed = "no"

Next ==
    \/ \E a \in Feeds : FeedArrives(a) \/ FeedLeaves(a)
    \/ SubscribeTracks \/ UpdatePrefix \/ HolderEnds("away") \/ HolderEnds("closed") \/ Look
    \/ \E i \in Subs : \/ BeginSubscribe(i) \/ Acquire(i) \/ AddDownstream(i) \/ Settle(i)
                       \/ OfferNew(i) \/ SubscribeEnds(i) \/ UpstreamEnds(i)
    \/ \E x \in Subs \cup Fwds : Terminate(x)
    \/ \E o \in Offers : \/ Match(o) \/ Enter(o) \/ HoldForward(o) \/ ReadEpoch(o) \/ Claim(o)
                         \/ CheckDownstream(o) \/ OpenPublish(o) \/ NotOpened(o)
    \/ \E f \in Fwds : RegisterForward(f) \/ ReleaseForward(f) \/ ForwardEnds(f)

Spec == Init /\ [][Next]_vars

-----------------------------------------------------------------------------
\* Every variable has its type; a forward is recorded as held only while a
\* SUBSCRIBE is in flight (beginSubscribe deletes both together).
TypeOK ==
    /\ holder \in {"none", "open", "away", "closed"} /\ covers \in BOOLEAN /\ moves \in 0..MaxMoves
    /\ up \subseteq Feeds \cup Subs /\ gen \in 0..MaxGen /\ epoch \in [0..MaxGen -> 0..MaxGen]
    /\ sub \in [Subs -> [st : {"idle", "asking", "register", "settle", "after", "serving", "gone"}, fresh : BOOLEAN]]
    /\ dst \in [Subs \cup Fwds -> {"none", "live", "dying", "terminated"}]
    /\ claimed \in BOOLEAN /\ skipped \in 0..MaxGen
    /\ off \in [Offers -> [pc : {"idle", "look", "match", "enter", "hold", "epoch", "claim", "down", "open", "done", "gone"},
                           te : 0..MaxGen, ep : 0..MaxGen, late : SUBSET Subs]]
    /\ fwd \in [Fwds -> [st : {"none", "opened", "registered", "failed", "serving", "gone"},
                         te : 0..MaxGen, late : SUBSET Subs]]
    /\ owed \in {"no", "yes", "raced"}
    /\ held \in BOOLEAN /\ (held => InFlight # {})

\* The forwards that are a live PUBLISH to the subscriber: being opened, or
\* registered and not terminated.
LivePublishes == {f \in Fwds : fwd[f].st = "opened" \/ dst[f] \in {"live", "dying"}}

\* "At most one PUBLISH per track" of forwardTrack, for a forward decided on
\* the entry the track has now: the claim covers a forward until its
\* downstream is registered, and the downstream check under the claim then
\* stops the next one, whichever goroutines race.
OnePublishPerEntry ==
    \A f, g \in LivePublishes : f < g => fwd[g].te < gen

\* "At most one PUBLISH per track" as the comment states it: two forwards
\* are never live together.
AtMostOnePublish == \A f, g \in LivePublishes : f = g

\* forwardTrack offers none for a track the subscriber is SUBSCRIBing to: a
\* forward of the current entry coexists with a SUBSCRIBE's downstream only
\* when that SUBSCRIBE began after the forward's in-flight check.
NoForwardBesideSubscribe ==
    \A f \in LivePublishes, i \in Subs :
        (fwd[f].te = gen /\ dst[i] = "live") => i \in fwd[f].late

Quiescent ==
    /\ InFlight = {}
    /\ \A i \in Subs : sub[i].st # "after"
    /\ \A o \in Offers : off[o].pc \in {"idle", "done", "gone"}
    /\ \A f \in Fwds : fwd[f].st \in {"none", "serving", "gone"}
    /\ \A x \in DOMAIN dst : dst[x] # "dying"

\* No offer is lost among the goroutines that decline it for one another:
\* once none is running, a holder whose prefix covers the track was sent a
\* PUBLISH or a PUBLISH_SKIPPED for its latest upstream, or receives it
\* already.  The offers that meet a subscription which is just ending
\* ("raced") are excepted.
NoOfferLost == Quiescent => owed # "yes"

\* The same without the exception: handlePublish forwards to every matching
\* SUBSCRIBE_TRACKS holder.
EveryHolderOffered == Quiescent => owed = "no"

\* A SUBSCRIBE_TRACKS holder is offered a track exactly once: not twice, not
\* beside its own SUBSCRIBE, and not never (forwardTrack).
OfferedExactlyOnce == OnePublishPerEntry /\ NoForwardBesideSubscribe /\ NoOfferLost
=============================================================================
