---------------------------- MODULE ForwardState ----------------------------
(* The Forward State of a track's upstreams (handler_subscribe.go, pause.go): *)
(* downstreams join, leave and change their Forward State; publishers come    *)
(* paused or not; a delayed pause stops the ones nobody watches. All of them  *)
(* end in reconcileForwardUpstream, one at a time per track (ForwardMu), whose *)
(* REQUEST_UPDATEs take a round trip.                                         *)
EXTENDS Integers, FiniteSets

CONSTANTS
    Downs, Pubs,
    Timers,      \* goroutines of unwatchedPauser.schedule
    None,
    MaxFlips     \* bound on Forward changes and joins

VARIABLES
    down,        \* each downstream: out, looking for an upstream, found, or on
    fwd,         \* its Forward State
    resumes,     \* whether it had to resume the upstreams it watches
    up,          \* each upstream: none, added, established or gone
    rec, act,    \* its Forward State: the relay's record, and the publisher's own
    pc,          \* each goroutine's reconcileForwardUpstream: the argument it
                 \* waits with ("resume", "pause"), or where it is
    want, todo, cur,    \* its locals: the upstreams left, the one it updates
    mu,          \* ForwardMu
    due,         \* scheduled pauses whose delay runs
    flips,
    lapse        \* whether an Update was refused, or gave up

downVars == <<down, fwd, resumes>>
upVars == <<up, rec, act>>
runVars == <<pc, want, todo, cur>>
vars == <<downVars, upVars, runVars, mu, due, flips, lapse>>

\* A downstream's on-demand upstream carries its name.
Ups == Pubs \union Downs
OnDemand(u) == u \in Downs
Goroutines == Downs \union Pubs \union Timers

TypeOK ==
    /\ down \in [Downs -> {"out", "look", "found", "on"}]
    /\ fwd \in [Downs -> {0, 1}] /\ resumes \in [Downs -> BOOLEAN]
    /\ up \in [Ups -> {"none", "added", "est", "gone"}]
    /\ rec \in [Ups -> {0, 1}] /\ act \in [Ups -> {0, 1}]
    /\ pc \in [Goroutines -> {"idle", "resume", "pause", "loop", "sent", "applied", "refused"}]
    /\ want \in [Goroutines -> {0, 1}] /\ todo \in [Goroutines -> SUBSET Ups]
    /\ cur \in [Goroutines -> Ups \union {None}]
    /\ mu \in Goroutines \union {None}
    /\ due \in 0..Cardinality(Timers)
    /\ flips \in 0..MaxFlips
    /\ lapse \in {"none", "refused", "gaveUp"}

Init ==
    /\ down = [d \in Downs |-> "out"] /\ fwd = [d \in Downs |-> 0]
    /\ resumes = [d \in Downs |-> FALSE]
    /\ up = [u \in Ups |-> "none"]
    /\ rec = [u \in Ups |-> 0] /\ act = [u \in Ups |-> 0]
    /\ pc = [g \in Goroutines |-> "idle"] /\ want = [g \in Goroutines |-> 0]
    /\ todo = [g \in Goroutines |-> {}] /\ cur = [g \in Goroutines |-> None]
    /\ mu = None /\ due = 0 /\ flips = 0 /\ lapse = "none"

Established(u) == up[u] \in {"added", "est"}
anyDownstreamForwards == \E d \in Downs : down[d] = "on" /\ fwd[d] = 1
Schedule == due' = IF due < Cardinality(Timers) THEN due + 1 ELSE due
PropagateForward(g) == pc' = [pc EXCEPT ![g] = "resume"]

\* Upstreams and downstreams that end.
UpsGone(S) ==
    /\ up' = [u \in Ups |-> IF u \in S THEN "gone" ELSE up[u]]
    /\ rec' = [u \in Ups |-> IF u \in S THEN 0 ELSE rec[u]]
    /\ act' = [u \in Ups |-> IF u \in S THEN 0 ELSE act[u]]
DownsOut(S) ==
    /\ down' = [d \in Downs |-> IF d \in S THEN "out" ELSE down[d]]
    /\ fwd' = [d \in Downs |-> IF d \in S THEN 0 ELSE fwd[d]]
    /\ resumes' = [d \in Downs |-> IF d \in S THEN FALSE ELSE resumes[d]]
-----------------------------------------------------------------------------
(* A SUBSCRIBE: it reuses an established upstream or opens its own, with the   *)
(* Forward State wanted when it looked.                                       *)
Look(d, f) ==
    /\ down[d] = "out" /\ pc[d] = "idle" /\ flips < MaxFlips
    /\ flips' = flips + 1
    /\ fwd' = [fwd EXCEPT ![d] = f]
    /\ \/ /\ \E u \in Ups : Established(u)
          /\ down' = [down EXCEPT ![d] = "found"] /\ resumes' = [resumes EXCEPT ![d] = TRUE]
          /\ UNCHANGED rec
       \/ /\ \A u \in Ups : ~Established(u)
          /\ up[d] = "none"
          /\ down' = [down EXCEPT ![d] = "look"] /\ resumes' = [resumes EXCEPT ![d] = FALSE]
          /\ rec' = [rec EXCEPT ![d] = IF f = 1 \/ anyDownstreamForwards THEN 1 ELSE 0]
    /\ UNCHANGED <<up, act, runVars, mu, due, lapse>>

OpenUpstream(d) ==
    /\ down[d] = "look"
    /\ \/ /\ up' = [up EXCEPT ![d] = "est"] /\ act' = [act EXCEPT ![d] = rec[d]]
          /\ down' = [down EXCEPT ![d] = "found"]
       \/ /\ down' = [down EXCEPT ![d] = "out"]
          /\ UNCHANGED <<up, act>>
    /\ UNCHANGED <<fwd, resumes, rec, runVars, mu, due, flips, lapse>>

(* AddDownstream, and past SUBSCRIBE_OK the resume of a reused upstream. *)
Register(d) ==
    /\ down[d] = "found" /\ pc[d] = "idle"
    /\ \/ /\ \E u \in Ups : Established(u)
          /\ down' = [down EXCEPT ![d] = "on"]
          /\ IF resumes[d] /\ fwd[d] = 1 THEN PropagateForward(d) ELSE UNCHANGED pc
       \/ /\ \A u \in Ups : ~Established(u)
          /\ down' = [down EXCEPT ![d] = "out"]
          /\ UNCHANGED pc
    /\ UNCHANGED <<fwd, resumes, upVars, want, todo, cur, mu, due, flips, lapse>>

(* REQUEST_UPDATE, read by the handler once its last one is done. *)
ChangeForward(d) ==
    /\ down[d] = "on" /\ pc[d] = "idle" /\ flips < MaxFlips
    /\ flips' = flips + 1
    /\ \/ /\ fwd[d] = 0
          /\ fwd' = [fwd EXCEPT ![d] = 1] /\ resumes' = [resumes EXCEPT ![d] = TRUE]
          /\ PropagateForward(d)
          /\ UNCHANGED due
       \/ /\ fwd[d] = 1
          /\ fwd' = [fwd EXCEPT ![d] = 0]
          /\ Schedule
          /\ UNCHANGED <<resumes, pc>>
    /\ UNCHANGED <<down, upVars, want, todo, cur, mu, lapse>>

(* RemoveDownstream tears on-demand upstreams down with the last downstream;  *)
(* then pauseUnwatched.                                                       *)
Leave(d) ==
    /\ down[d] = "on" /\ pc[d] = "idle"
    /\ DownsOut({d})
    /\ UpsGone({u \in Ups : /\ OnDemand(u) /\ up[u] = "est"
                           /\ \A e \in Downs \ {d} : down[e] # "on"})
    /\ Schedule
    /\ UNCHANGED <<runVars, mu, flips, lapse>>

(* handlePublish: AddUpstream, then the resume or the pause it calls for. *)
Publish(p, f) ==
    /\ up[p] = "none"
    /\ up' = [up EXCEPT ![p] = "added"]
    /\ rec' = [rec EXCEPT ![p] = f] /\ act' = [act EXCEPT ![p] = f]
    /\ UNCHANGED <<downVars, runVars, mu, due, flips, lapse>>

PublishChecks(p) ==
    /\ up[p] = "added"
    /\ up' = [up EXCEPT ![p] = "est"]
    /\ IF rec[p] = 0 /\ anyDownstreamForwards THEN PropagateForward(p) ELSE UNCHANGED pc
    /\ IF rec[p] = 1 /\ ~anyDownstreamForwards THEN Schedule ELSE UNCHANGED due
    /\ UNCHANGED <<downVars, rec, act, want, todo, cur, mu, flips, lapse>>

(* RemoveUpstream: the track's downstreams end with its last upstream. *)
UpstreamEnds(u) ==
    /\ up[u] = "est"
    /\ UpsGone({u})
    /\ DownsOut({d \in Downs : /\ down[d] = "on"
                               /\ \A v \in Ups \ {u} : ~Established(v)})
    /\ UNCHANGED <<runVars, mu, due, flips, lapse>>

(* A scheduled pause is due. It decides afresh, in reconcileForwardUpstream.  *)
PauseDue(g) ==
    /\ due > 0 /\ pc[g] = "idle"
    /\ due' = due - 1
    /\ pc' = [pc EXCEPT ![g] = "pause"]
    /\ UNCHANGED <<downVars, upVars, want, todo, cur, mu, flips, lapse>>
-----------------------------------------------------------------------------
(* reconcileForwardUpstream. *)
Decide(g) ==
    IF ~anyDownstreamForwards /\ pc[g] = "resume"
    THEN pc' = [pc EXCEPT ![g] = "idle"] /\ UNCHANGED <<mu, want, todo>>
    ELSE /\ mu' = g
         /\ pc' = [pc EXCEPT ![g] = "loop"]
         /\ want' = [want EXCEPT ![g] = IF anyDownstreamForwards THEN 1 ELSE 0]
         /\ todo' = [todo EXCEPT ![g] = {u \in Ups : Established(u)}]

\* Fault: two reconciliations run at once.
LockUnheld(g) ==
    /\ pc[g] \in {"resume", "pause"}
    /\ Decide(g)
    /\ UNCHANGED <<downVars, upVars, cur, due, flips, lapse>>

Lock(g) ==
    /\ pc[g] \in {"resume", "pause"} /\ mu = None
    /\ Decide(g)
    /\ UNCHANGED <<downVars, upVars, cur, due, flips, lapse>>

Skipped(g, u) ==
    rec[u] = want[g] \/ ~Established(u) \/ (want[g] = 0 /\ OnDemand(u))

Visit(g, u) ==
    /\ pc[g] = "loop" /\ u \in todo[g]
    /\ todo' = [todo EXCEPT ![g] = todo[g] \ {u}]
    /\ IF Skipped(g, u) THEN UNCHANGED <<pc, cur>>
       ELSE pc' = [pc EXCEPT ![g] = "sent"] /\ cur' = [cur EXCEPT ![g] = u]
    /\ UNCHANGED <<downVars, upVars, want, mu, due, flips, lapse>>

(* The publisher applies the update, or refuses it. *)
PublisherAnswers(g) ==
    /\ pc[g] = "sent" /\ Established(cur[g])
    /\ \/ /\ act' = [act EXCEPT ![cur[g]] = want[g]]
          /\ pc' = [pc EXCEPT ![g] = "applied"]
       \/ pc' = [pc EXCEPT ![g] = "refused"] /\ UNCHANGED act
    /\ UNCHANGED <<downVars, up, rec, want, todo, cur, mu, due, flips, lapse>>

Continue(g) ==
    /\ pc' = [pc EXCEPT ![g] = "loop"] /\ cur' = [cur EXCEPT ![g] = None]
    /\ UNCHANGED <<want, todo>>

UpdateOK(g) ==
    /\ pc[g] = "applied"
    /\ rec' = IF Established(cur[g]) THEN [rec EXCEPT ![cur[g]] = want[g]] ELSE rec
    /\ Continue(g)
    /\ UNCHANGED <<downVars, up, act, mu, due, flips, lapse>>

(* The stream ended, the update was refused, or gave up after its timeout,    *)
(* whether or not the publisher applied it: the record stays.                 *)
UpdateFails(g) ==
    /\ \/ pc[g] = "sent" /\ ~Established(cur[g]) /\ UNCHANGED lapse
       \/ pc[g] = "refused" /\ lapse' = IF lapse = "none" THEN "refused" ELSE lapse
       \/ pc[g] \in {"sent", "applied"} /\ Established(cur[g]) /\ lapse' = "gaveUp"
    /\ Continue(g)
    /\ UNCHANGED <<downVars, upVars, mu, due, flips>>

Unlock(g) ==
    /\ pc[g] = "loop" /\ todo[g] = {}
    /\ mu' = None
    /\ pc' = [pc EXCEPT ![g] = "idle"] /\ want' = [want EXCEPT ![g] = 0]
    /\ UNCHANGED <<downVars, upVars, todo, cur, due, flips, lapse>>

Next ==
    \/ \E d \in Downs : \/ \E f \in {0, 1} : Look(d, f)
                        \/ OpenUpstream(d) \/ Register(d) \/ ChangeForward(d) \/ Leave(d)
    \/ \E p \in Pubs : PublishChecks(p) \/ \E f \in {0, 1} : Publish(p, f)
    \/ \E u \in Ups : UpstreamEnds(u)
    \/ \E g \in Timers : PauseDue(g)
    \/ \E g \in Goroutines : \/ Lock(g) \/ PublisherAnswers(g) \/ UpdateOK(g) \/ UpdateFails(g) \/ Unlock(g)
                             \/ \E u \in Ups : Visit(g, u)

Spec == Init /\ [][Next]_vars
-----------------------------------------------------------------------------
Settled ==
    /\ due = 0 /\ lapse = "none"
    /\ \A g \in Goroutines : pc[g] = "idle"
    /\ \A u \in Ups : up[u] # "added"

(* "a later §7.2 resume skips upstreams already at 1" (handler_subscribe.go): *)
(* so the relay's record must be the publisher's own state. It is, in every   *)
(* order of pauses, resumes and refusals, as long as no update gave up.       *)
RecordedIsActual ==
    lapse # "gaveUp" => \A u \in Ups : Established(u) /\ (\A g \in Goroutines : cur[g] # u)
                              => rec[u] = act[u]

(* A downstream that came to an existing upstream, or began forwarding, ends  *)
(* up with its own upstream and every publisher's PUBLISH resumed, whatever   *)
(* pauses and publishers it raced, unless an update failed.                   *)
ResumedWhenWatched ==
    Settled => \A d \in Downs : down[d] = "on" /\ fwd[d] = 1 /\ resumes[d]
        => \A u \in Pubs \union {d} : up[u] = "est" => rec[u] = 1

(* A track nobody watches any more ends up with its publishers paused. *)
PausedWhenUnwatched ==
    Settled /\ (\A d \in Downs : down[d] = "out")
        => \A p \in Pubs : up[p] = "est" => rec[p] = 0

(* "resume a paused upstream if any downstream forwards" (handler_publish.go), *)
(* for every downstream.                                                      *)
EveryWatcherResumes ==
    Settled /\ anyDownstreamForwards => \A u \in Ups : up[u] = "est" => rec[u] = 1

(* The Forward State asked of the upstreams follows the downstreams that      *)
(* watch, and is recorded as the publishers have it (handler_subscribe.go).   *)
ForwardFollowsWatchers == RecordedIsActual /\ ResumedWhenWatched /\ PausedWhenUnwatched
=============================================================================
