----------------------------- MODULE Namespaces -----------------------------
(***************************************************************************)
(* Namespace announcements from end to end: the Discovery store and its    *)
(* watch (pkg/relay/discovery/memory.go, relay_namespace_watch.go), the    *)
(* namespace registry's count of each subscriber's sources                 *)
(* (internal/registry/namespace.go, namespace_state.go), the queue and     *)
(* writer of each SUBSCRIBE_NAMESPACE stream, and what the subscriber      *)
(* makes of the messages it reads (handler_namespace.go).                  *)
(*                                                                         *)
(* Publishers are PUBLISH_NAMESPACEs on this relay, Peers other relays     *)
(* that advertise in the same store, Subs the SUBSCRIBE_NAMESPACEs of one  *)
(* session.  RemoveSession runs once the session's handlers have           *)
(* unregistered their entries, so it finds nothing left here.              *)
(***************************************************************************)
EXTENDS Integers, FiniteSets, Sequences, SequencesExt, FiniteSetsExt

CONSTANTS
    Names,      \* the namespaces, tuples of fields
    Requested,  \* the prefixes subscribers ask for
    Publishers, Peers, Subs,
    Me,         \* this relay's address
    MaxToggles, \* bound: changes the other relays make in the store
    MaxMoves,   \* bound: TRACK_NAMESPACE_PREFIX updates
    Buffer,     \* the watch's live headroom (defaultWatchBufferSize)
    MaxUnsent,  \* maxQueuedMessages
    Casts       \* bound: the publishers, peers and subscribers that meet in one behaviour,
                \* with Me where the relay is configured with Discovery

VARIABLES
    pub,        \* PUBLISH_NAMESPACEs: state and namespace
    store,      \* <<namespace, relay>> records of the Discovery store
    withdrawn,  \* relay addresses that called Withdraw
    watch,      \* the relay's watch: state, channel, capacity, synced, snapshot so far
    remote,     \* NamespaceRegistry.remote, as <<namespace, relay>>
    reserved,   \* prefixSet of the session
    sub,        \* SubscriberEntry of each SUBSCRIBE_NAMESPACE
    client,     \* the subscriber's view: prefix in force and announced namespaces
    toggles, moves

vars == <<pub, store, withdrawn, watch, remote, reserved, sub, client, toggles, moves>>
Under(prefix) == {n \in Names : IsPrefix(prefix, n)}
Overlap(p, q) == IsPrefix(p, q) \/ IsPrefix(q, p)
Suffix(n, prefix) == SubSeq(n, Len(prefix) + 1, Len(n))
Announced(n) == {p \in Publishers : pub[p].st = "announced" /\ pub[p].ns = n}
Sources(n) == Cardinality(Announced(n)) + Cardinality({x \in remote : x[1] = n})

(***************************************************************************)
(* A subscriber's queue.  push drops the message once the stream stopped   *)
(* and resets a stream with MaxUnsent messages unsent, the oldest for      *)
(* longer than maxUnsentWait (time passes as it likes); otherwise it       *)
(* appends and wakes the writer.  Several pushes in a row give one of the  *)
(* same results.  A map's order of announcements is not modelled.          *)
(***************************************************************************)
Msg(t, n, prefix) == [t |-> t, suffix |-> Suffix(n, prefix)]
Reply(t, prefix) == [t |-> t, suffix |-> prefix]
Unsent(s) == Len(s.q) + (IF s.w = "write" THEN 1 ELSE 0)

Push(s, ms) ==
    IF s.stopped \/ ms = <<>> THEN {s}
    ELSE {[s EXCEPT !.q = @ \o ms, !.ready = TRUE]}
         \cup {t \in {[s EXCEPT !.stopped = TRUE, !.q = <<>>, !.reset = TRUE, !.ready = @ \/ Unsent(s) < MaxUnsent]} :
                  Unsent(s) + Len(ms) > MaxUnsent}

Listening == {e \in Subs : sub[e].st \in {"open", "finishing"}}

\* addSourceLocked and removeSourceLocked: NAMESPACE on 0 -> 1 for every
\* subscriber covering n, NAMESPACE_DONE on 1 -> 0 for every one counting it.
WithSource(s, n) ==
    IF s.st \notin {"open", "finishing"} \/ n \notin Under(s.prefix) THEN {s}
    ELSE Push([s EXCEPT !.counts[n] = @ + 1],
              IF s.counts[n] = 0 THEN <<Msg("namespace", n, s.prefix)>> ELSE <<>>)

WithoutSource(s, n) ==
    IF s.st \notin {"open", "finishing"} \/ s.counts[n] = 0 THEN {s}
    ELSE Push([s EXCEPT !.counts[n] = @ - 1],
              IF s.counts[n] = 1 THEN <<Msg("done", n, s.prefix)>> ELSE <<>>)

AddSource(n) == sub' \in {f \in [Subs -> UNION {WithSource(sub[e], n) : e \in Subs}] :
                             \A e \in Subs : f[e] \in WithSource(sub[e], n)}
RemoveSource(n) == sub' \in {f \in [Subs -> UNION {WithoutSource(sub[e], n) : e \in Subs}] :
                                \A e \in Subs : f[e] \in WithoutSource(sub[e], n)}

(***************************************************************************)
(* The store: MemoryStore sends each change to the watch without blocking  *)
(* and ends a watch whose buffer is full.                                  *)
(***************************************************************************)
Event(op, x) == [op |-> op, ad |-> x]

Fanout(w, evs) ==
    IF w.st # "open" THEN w
    ELSE IF Len(w.ch) + Len(evs) > w.cap
         THEN [w EXCEPT !.st = "ended", !.ch = @ \o SubSeq(evs, 1, w.cap - Len(@))]
         ELSE [w EXCEPT !.ch = @ \o evs]

StorePublish(x) ==
    IF x[2] \in withdrawn THEN UNCHANGED <<store, watch>>
    ELSE /\ store' = store \cup {x}
         /\ watch' = Fanout(watch, <<Event("publish", x)>>)

StoreUnpublish(xs) ==
    /\ store' = store \ xs
    /\ watch' = Fanout(watch, SetToSeq({Event("unpublish", x) : x \in xs \cap store}))

\* Another relay publishes, unpublishes or withdraws.
PeerChanges(r) ==
    /\ toggles < MaxToggles
    /\ toggles' = toggles + 1
    /\ \/ \E n \in Names : StorePublish(<<n, r>>) /\ UNCHANGED withdrawn
       \/ \E n \in Names : <<n, r>> \in store /\ StoreUnpublish({<<n, r>>}) /\ UNCHANGED withdrawn
       \/ r \notin withdrawn /\ withdrawn' = withdrawn \cup {r} /\ StoreUnpublish(Names \X {r})
    /\ UNCHANGED <<pub, remote, reserved, sub, client, moves>>

\* Relay.Stop withdraws this relay.
Withdraw ==
    /\ Me \notin withdrawn
    /\ withdrawn' = withdrawn \cup {Me}
    /\ StoreUnpublish(Names \X {Me})
    /\ UNCHANGED <<pub, remote, reserved, sub, client, toggles, moves>>

(***************************************************************************)
(* runNamespaceWatch: the snapshot is applied as a whole at its end, later *)
(* events one by one; a watch the store ended is drained and restarted.    *)
(***************************************************************************)
NoWatch == [st |-> "none", ch |-> <<>>, cap |-> 0, synced |-> FALSE, snap |-> {}]

\* Fault: a watch the store ended is not started again.
StartWatchOnce ==
    /\ watch.st = "none"
    /\ watch' = [st |-> "open", cap |-> Cardinality(store) + 1 + Buffer, synced |-> FALSE, snap |-> {},
                 ch |-> SetToSeq({Event("publish", x) : x \in store}) \o <<[op |-> "snapshot", ad |-> <<>>]>>]
    /\ UNCHANGED <<pub, store, withdrawn, remote, reserved, sub, client, toggles, moves>>

StartWatch ==
    /\ watch.st = "none" \/ (watch.st = "ended" /\ watch.ch = <<>>)
    /\ watch' = [st |-> "open", cap |-> Cardinality(store) + 1 + Buffer, synced |-> FALSE, snap |-> {},
                 ch |-> SetToSeq({Event("publish", x) : x \in store}) \o <<[op |-> "snapshot", ad |-> <<>>]>>]
    /\ UNCHANGED <<pub, store, withdrawn, remote, reserved, sub, client, toggles, moves>>

\* ReplaceRemote: every missing source is added, then every stale one removed.
Added(s, xs) == LET new == {n \in Under(s.prefix) : s.counts[n] = 0 /\ \E x \in xs : x[1] = n}
                IN  Push([s EXCEPT !.counts = [n \in Names |->
                              @[n] + IF n \in Under(s.prefix) THEN Cardinality({x \in xs : x[1] = n}) ELSE 0]],
                         SetToSeq({Msg("namespace", n, s.prefix) : n \in new}))
Removed(s, xs) == LET left == [n \in Names |-> s.counts[n] -
                                  IF n \in Under(s.prefix) THEN Cardinality({x \in xs : x[1] = n}) ELSE 0]
                      over == {n \in Names : s.counts[n] > 0 /\ left[n] = 0}
                  IN  Push([s EXCEPT !.counts = left], SetToSeq({Msg("done", n, s.prefix) : n \in over}))
Replaced(s, snap) ==
    IF s.st \notin {"open", "finishing"} THEN {s}
    ELSE UNION {Removed(t, remote \ snap) : t \in Added(s, snap \ remote)}

ReplaceRemote(snap) ==
    /\ remote' = snap
    /\ sub' \in {f \in [Subs -> UNION {Replaced(sub[e], snap) : e \in Subs}] :
                    \A e \in Subs : f[e] \in Replaced(sub[e], snap)}

\* RemoteNamespace: a repeated report changes nothing.
RemoteNamespace(ev) ==
    IF ev.ad[2] = Me \/ (ev.op = "publish") = (ev.ad \in remote) THEN UNCHANGED <<remote, sub>>
    ELSE IF ev.op = "publish"
         THEN remote' = remote \cup {ev.ad} /\ AddSource(ev.ad[1])
         ELSE remote' = remote \ {ev.ad} /\ RemoveSource(ev.ad[1])

ConsumeWatch ==
    /\ watch.ch # <<>>
    /\ LET ev == Head(watch.ch)
           rest == [watch EXCEPT !.ch = Tail(@)]
       IN  \/ watch.synced /\ watch' = rest /\ RemoteNamespace(ev)
           \/ /\ ~watch.synced /\ ev.op = "snapshot"
              /\ watch' = [rest EXCEPT !.synced = TRUE, !.snap = {}]
              /\ ReplaceRemote(watch.snap)
           \/ /\ ~watch.synced /\ ev.op = "publish"
              /\ watch' = [rest EXCEPT !.snap = IF ev.ad[2] = Me THEN @ ELSE @ \cup {ev.ad}]
              /\ UNCHANGED <<remote, sub>>
    /\ UNCHANGED <<pub, store, withdrawn, reserved, client, toggles, moves>>

(***************************************************************************)
(* handlePublishNamespace: registered, and advertised in Discovery with    *)
(* the namespace's first publisher; announced to subscribers once its      *)
(* REQUEST_OK is written; unregistered when it ends.                       *)
(***************************************************************************)
Registered(n) == {p \in Publishers : pub[p].st \in {"registered", "announced"} /\ pub[p].ns = n}

RegisterPublisher(p, n) ==
    /\ pub[p].st = "idle"
    /\ pub' = [pub EXCEPT ![p] = [st |-> "registered", ns |-> n]]
    /\ IF Registered(n) = {} THEN StorePublish(<<n, Me>>) ELSE UNCHANGED <<store, watch>>
    /\ UNCHANGED <<withdrawn, remote, reserved, sub, client, toggles, moves>>

AnnouncePublisher(p) ==
    /\ pub[p].st = "registered"
    /\ pub' = [pub EXCEPT ![p].st = "announced"]
    /\ AddSource(pub[p].ns)
    /\ UNCHANGED <<store, withdrawn, watch, remote, reserved, client, toggles, moves>>

UnregisterPublisher(p) ==
    /\ pub[p].st \in {"registered", "announced"}
    /\ pub' = [pub EXCEPT ![p].st = "gone"]
    /\ IF pub[p].st = "announced" THEN RemoveSource(pub[p].ns) ELSE UNCHANGED sub
    /\ IF Registered(pub[p].ns) = {p} THEN StoreUnpublish({<<pub[p].ns, Me>>}) ELSE UNCHANGED <<store, watch>>
    /\ UNCHANGED <<withdrawn, remote, reserved, client, toggles, moves>>

(***************************************************************************)
(* handleSubscribeNamespace: the prefix is reserved, REQUEST_OK written    *)
(* and the entry registered with every namespace known under the prefix.   *)
(***************************************************************************)
NoSub == [st |-> "idle", prefix |-> <<>>, counts |-> [n \in Names |-> 0], q |-> <<>>, w |-> "wait",
          ready |-> FALSE, stopped |-> FALSE, reset |-> FALSE, cur |-> <<>>]

Reserve(e, prefix) ==
    /\ sub[e].st = "idle"
    /\ \/ /\ \A have \in reserved : ~Overlap(have, prefix)
          /\ reserved' = reserved \cup {prefix}
          /\ sub' = [sub EXCEPT ![e].st = "reserved", ![e].prefix = prefix]
       \/ /\ \E have \in reserved : Overlap(have, prefix)
          /\ sub' = [sub EXCEPT ![e].st = "gone"]
          /\ UNCHANGED reserved
    /\ UNCHANGED <<pub, store, withdrawn, watch, remote, client, toggles, moves>>

CountsUnder(prefix) == [n \in Names |-> IF n \in Under(prefix) THEN Sources(n) ELSE 0]
Known(counts) == {n \in Names : counts[n] > 0}

RegisterSubscriber(e) ==
    /\ sub[e].st = "reserved"
    /\ LET counts == CountsUnder(sub[e].prefix)
           open == [sub[e] EXCEPT !.st = "open", !.counts = counts]
       IN  \E s \in Push(open, SetToSeq({Msg("namespace", n, open.prefix) : n \in Known(counts)})) :
               sub' = [sub EXCEPT ![e] = s]
    /\ client' = [client EXCEPT ![e] = [prefix |-> sub[e].prefix, view |-> {}]]
    /\ UNCHANGED <<pub, store, withdrawn, watch, remote, reserved, toggles, moves>>

\* Fault: the REQUEST_OK is queued ahead of the namespaces it withdraws.
MovedOKFirst(s, prefix) ==
    LET counts == CountsUnder(prefix)
        gone == Known(s.counts) \ Known(counts)
        new == Known(counts) \ Known(s.counts)
    IN  Push([s EXCEPT !.prefix = prefix, !.counts = counts],
             <<Reply("ok", prefix)>> \o SetToSeq({Msg("done", n, s.prefix) : n \in gone})
                 \o SetToSeq({Msg("namespace", n, prefix) : n \in new}))

\* The REQUEST_UPDATEs of serveNamespaceFollowups.  A new prefix replaces the
\* reservation; namespaces it no longer covers are done before the REQUEST_OK
\* and the ones it newly covers announced after it.  One that overlaps another
\* subscription is refused and ends the request.
Moved(s, prefix) ==
    LET counts == CountsUnder(prefix)
        gone == Known(s.counts) \ Known(counts)
        new == Known(counts) \ Known(s.counts)
    IN  Push([s EXCEPT !.prefix = prefix, !.counts = counts],
             SetToSeq({Msg("done", n, s.prefix) : n \in gone}) \o <<Reply("ok", prefix)>>
                 \o SetToSeq({Msg("namespace", n, prefix) : n \in new}))

Finish(s) == {[t EXCEPT !.st = "finishing", !.stopped = TRUE,
                        !.q = IF s.stopped \/ t.reset THEN @ ELSE Append(@, Reply("fin", <<>>))] :
                 t \in Push(s, <<Reply("error", <<>>)>>)}

UpdatePrefix(e, prefix) ==
    /\ sub[e].st = "open" /\ moves < MaxMoves /\ prefix # sub[e].prefix
    /\ moves' = moves + 1
    /\ \/ /\ \A have \in reserved \ {sub[e].prefix} : ~Overlap(have, prefix)
          /\ reserved' = (reserved \ {sub[e].prefix}) \cup {prefix}
          /\ \E s \in Moved(sub[e], prefix) : sub' = [sub EXCEPT ![e] = s]
       \/ /\ \E have \in reserved \ {sub[e].prefix} : Overlap(have, prefix)
          /\ \E s \in Finish(sub[e]) : sub' = [sub EXCEPT ![e] = s]
          /\ UNCHANGED reserved
    /\ UNCHANGED <<pub, store, withdrawn, watch, remote, client, toggles>>

\* The request ends: the subscriber cancels, its stream failed, REQUEST_OK
\* could not be written, or the writer of a refused request is done.  The
\* entry is unregistered, which stops the writer, and the prefix released.
SubscriberEnds(e) ==
    /\ sub[e].st \in {"reserved", "open"} \/ (sub[e].st = "finishing" /\ sub[e].w = "done")
    /\ reserved' = reserved \ {sub[e].prefix}
    /\ sub' = [sub EXCEPT ![e] = [NoSub EXCEPT !.st = "gone", !.w = "done"]]
    /\ client' = [client EXCEPT ![e] = [prefix |-> <<>>, view |-> {}]]
    /\ UNCHANGED <<pub, store, withdrawn, watch, remote, toggles, moves>>

(***************************************************************************)
(* RunWriter: waits for outReady, then takes one message at a time.  A     *)
(* failed or reset write stops it.  The subscriber applies what it reads.  *)
(***************************************************************************)
Heard(c, m) ==
    CASE m.t = "namespace" -> [c EXCEPT !.view = @ \cup {c.prefix \o m.suffix}]
      [] m.t = "done" -> [c EXCEPT !.view = @ \ {c.prefix \o m.suffix}]
      [] m.t = "ok" -> [c EXCEPT !.prefix = m.suffix]
      [] OTHER -> c

WriterWakes(e) ==
    /\ sub[e].st \in {"open", "finishing"} /\ sub[e].w = "wait" /\ sub[e].ready
    /\ sub' = [sub EXCEPT ![e].w = "take", ![e].ready = FALSE]
    /\ UNCHANGED <<pub, store, withdrawn, watch, remote, reserved, client, toggles, moves>>

WriterTakes(e) ==
    /\ sub[e].st \in {"open", "finishing"} /\ sub[e].w = "take"
    /\ LET s == sub[e]
       IN  sub' = [sub EXCEPT ![e] =
                      IF s.q = <<>> THEN [s EXCEPT !.w = IF s.stopped THEN "done" ELSE "wait"]
                      ELSE IF Head(s.q).t = "fin" THEN [s EXCEPT !.w = "done", !.q = <<>>]
                      ELSE [s EXCEPT !.w = "write", !.cur = <<Head(s.q)>>, !.q = Tail(s.q)]]
    /\ UNCHANGED <<pub, store, withdrawn, watch, remote, reserved, client, toggles, moves>>

WriteReturns(e, ok) ==
    /\ sub[e].st \in {"open", "finishing"} /\ sub[e].w = "write"
    /\ ok => ~sub[e].reset
    /\ sub' = [sub EXCEPT ![e] =
                  IF ok THEN [@ EXCEPT !.w = "take", !.cur = <<>>]
                  ELSE [@ EXCEPT !.w = "done", !.cur = <<>>, !.q = <<>>, !.stopped = TRUE]]
    /\ client' = IF ok THEN [client EXCEPT ![e] = Heard(@, sub[e].cur[1])] ELSE client
    /\ UNCHANGED <<pub, store, withdrawn, watch, remote, reserved, toggles, moves>>

Init ==
    \E cast \in Casts :
        /\ pub = [p \in Publishers |-> [st |-> IF p \in cast THEN "idle" ELSE "gone", ns |-> <<>>]]
        /\ store = {} /\ withdrawn = (Peers \cup {Me}) \ cast /\ remote = {}
        /\ watch = [NoWatch EXCEPT !.st = IF Me \in cast THEN "none" ELSE "off"]
        /\ reserved = {}
        /\ sub = [e \in Subs |-> [NoSub EXCEPT !.st = IF e \in cast THEN "idle" ELSE "gone",
                                               !.w = IF e \in cast THEN "wait" ELSE "done"]]
        /\ client = [e \in Subs |-> [prefix |-> <<>>, view |-> {}]]
        /\ toggles = 0 /\ moves = 0

Next ==
    \/ \E r \in Peers : PeerChanges(r)
    \/ Withdraw \/ StartWatch \/ ConsumeWatch
    \/ \E p \in Publishers : (\E n \in Names : RegisterPublisher(p, n)) \/ AnnouncePublisher(p) \/ UnregisterPublisher(p)
    \/ \E e \in Subs : \/ \E prefix \in Requested : Reserve(e, prefix) \/ UpdatePrefix(e, prefix)
                       \/ RegisterSubscriber(e) \/ SubscriberEnds(e)
                       \/ WriterWakes(e) \/ WriterTakes(e) \/ WriteReturns(e, TRUE) \/ WriteReturns(e, FALSE)

\* The watch loop and each stream's writer run whenever they can: goroutines
\* of their own.  A write returns because the subscriber keeps reading, or
\* once the stream is reset.
Fairness ==
    /\ WF_vars(StartWatch) /\ WF_vars(ConsumeWatch)
    /\ \A e \in Subs : /\ WF_vars(WriterWakes(e)) /\ WF_vars(WriterTakes(e))
                       /\ WF_vars(WriteReturns(e, TRUE)) /\ WF_vars(sub[e].reset /\ WriteReturns(e, FALSE))
                       /\ WF_vars(sub[e].st = "finishing" /\ SubscriberEnds(e))

Spec == Init /\ [][Next]_vars /\ Fairness

-----------------------------------------------------------------------------
MsgType == [t : {"namespace", "done", "ok", "error", "fin"}, suffix : Names \cup Requested \cup {Suffix(n, p) : n \in Names, p \in Requested} \cup {<<>>}]

\* Every variable has its type; a watch's channel holds no more than its
\* capacity, and the session's reservations are its subscriptions' prefixes.
TypeOK ==
    /\ pub \in [Publishers -> [st : {"idle", "registered", "announced", "gone"}, ns : Names \cup {<<>>}]]
    /\ store \subseteq Names \X (Peers \cup {Me}) /\ withdrawn \subseteq Peers \cup {Me}
    /\ watch.st \in {"off", "none", "open", "ended"} /\ Len(watch.ch) <= watch.cap
    /\ remote \subseteq Names \X Peers
    /\ \A e \in Subs : /\ sub[e].st \in {"idle", "reserved", "open", "finishing", "gone"}
                       /\ sub[e].w \in {"wait", "take", "write", "done"}
                       /\ sub[e].counts \in [Names -> Nat]
                       /\ sub[e].q \in Seq(MsgType) /\ sub[e].cur \in Seq(MsgType)
    /\ reserved = {sub[e].prefix : e \in {d \in Subs : sub[d].st \in {"reserved", "open", "finishing"}}}

\* prefixSet keeps the prefixes of a session's namespace subscriptions
\* disjoint, through reservations, updates and releases.
PrefixesDisjoint ==
    \A d, e \in Subs :
        (d # e /\ {sub[d].st, sub[e].st} \subseteq {"reserved", "open", "finishing"})
            => ~Overlap(sub[d].prefix, sub[e].prefix)

\* namespace_state.go: each subscriber counts exactly the sources of each
\* namespace under its prefix, however publishers, remote relays, snapshots
\* and prefix updates interleave ("e.announced holds exactly the namespaces
\* with sources under old" of UpdatePrefix).
CountsMatchSources ==
    \A e \in Listening : sub[e].counts = CountsUnder(sub[e].prefix)

\* The messages still to reach the subscriber.
Unread(e) == sub[e].cur \o sub[e].q
RECURSIVE Hears(_, _)
Hears(c, ms) == IF ms = <<>> THEN c ELSE Hears(Heard(c, Head(ms)), Tail(ms))
RECURSIVE Sensible(_, _)
Sensible(c, ms) ==
    \/ ms = <<>>
    \/ /\ Head(ms).t = "namespace" => c.prefix \o Head(ms).suffix \notin c.view
       /\ Head(ms).t = "done" => c.prefix \o Head(ms).suffix \in c.view
       /\ Sensible(Heard(c, Head(ms)), Tail(ms))

\* What the stream tells the subscriber is what the registry counts: after
\* the messages written and queued, its suffixes read against the prefix in
\* force at each point of the stream, the subscriber knows exactly the
\* namespaces with a source, and no message repeats or withdraws what it was
\* not told (sections 4.2 and 9.17 as namespace_state.go implements them).
StreamTellsSources ==
    \A e \in Listening :
        ~sub[e].stopped => /\ Sensible(client[e], Unread(e))
                           /\ Hears(client[e], Unread(e)) = [prefix |-> sub[e].prefix, view |-> Known(sub[e].counts)]

Foreign(xs) == {x \in xs : x[2] # Me}
RECURSIVE Replay(_, _)
Replay(xs, evs) ==
    IF evs = <<>> THEN xs
    ELSE Replay(CASE Head(evs).op = "publish" -> xs \cup Foreign({Head(evs).ad})
                  [] Head(evs).op = "unpublish" -> xs \ {Head(evs).ad}
                  [] OTHER -> xs, Tail(evs))

\* The handoff from snapshot to live events has no gap (WatchNamespaces): a
\* watch that has not been ended holds in its channel exactly what brings the
\* relay's remote namespaces to the store's.
WatchHasNoGap ==
    watch.st = "open" => Replay(IF watch.synced THEN remote ELSE watch.snap, watch.ch) = Foreign(store)

\* The store advertises this relay for a namespace exactly while a publisher
\* of it is registered, unless the relay has withdrawn (pubCount, under r.mu).
AdvertisedWhilePublished ==
    \A n \in Names : <<n, Me>> \in store <=> (Registered(n) # {} /\ Me \notin withdrawn)

\* However often the watch falls behind and is restarted, the relay ends up
\* with the store's namespaces once the store is quiet.
RemoteConverges == <>[](remote = Foreign(store))

\* Every view of the namespaces is in step with the one it is taken from: the
\* store with the publishers, the watch with the store, each subscriber's
\* counts with the sources, its stream with the counts.
NamespacesInStep ==
    /\ TypeOK /\ PrefixesDisjoint
    /\ AdvertisedWhilePublished /\ WatchHasNoGap
    /\ CountsMatchSources /\ StreamTellsSources
=============================================================================
