------------------------------ MODULE Shutdown ------------------------------
(***************************************************************************)
(* The relay's lifecycle (pkg/relay/relay.go) with its pool of upstream    *)
(* sessions (relay_upstream_pool.go): connections accepted by Start or     *)
(* made by Connect, upstream sessions dialled on behalf of a request of    *)
(* one of them, and Stop draining all of them while both still arrive.     *)
(*                                                                         *)
(* Conns are accepted connections, Local the in-process ones of Connect,   *)
(* Dials the successive upstream sessions to one remote relay, Getters the *)
(* requests that call upstreamPool.get for it, each inside a connection's  *)
(* handler.                                                                *)
(***************************************************************************)
EXTENDS Integers, FiniteSets

CONSTANTS Conns, Local, Dials, Getters, Casts
    \* Casts bounds the connections and getters that meet in one behaviour

VARIABLES
    grace,      \* Config.GoawayTimeout > 0
    stop,       \* what Stop does next
    ctxDone,    \* Stop's ctx has ended
    timedOut,   \* the grace period of Stop's drain ran out
    snapshot,   \* the sessions beginShutdown returned
    warned,     \* Stop's sessions that SendGoaway has been tried on
    sess,       \* each session: state, handler, GOAWAY sent, its grace run out, close code
    strag,      \* drainStraggler of each session
    entry,      \* upstreamPool.entries of the remote relay
    dial,       \* each poolEntry: "none", "dialing", "ok", "failed"
    get         \* each getter: step and the entry it found

vars == <<grace, stop, ctxDone, timedOut, snapshot, warned, sess, strag, entry, dial, get>>
stopVars == <<stop, timedOut, snapshot, warned>>
poolVars == <<entry, dial, get>>

Sessions == Conns \cup Local \cup Dials
Nobody == "none"
Steps == <<"running", "withdraw", "listener", "dialing", "snapshot", "goaway", "drain", "upstreams", "close", "wait", "returned">>
At(s) == CHOOSE i \in DOMAIN Steps : Steps[i] = s
Past(s) == At(stop) > At(s)     \* Stop has done that step
NewSess == [st |-> "none", handler |-> "none", goaway |-> FALSE, expired |-> FALSE, code |-> "none"]
Open == {s \in Sessions : sess[s].st = "open"}
Registered == {s \in Sessions : sess[s].handler = "serving"}
BaseCancelled == Past("upstreams")

\* Session.Close: a no-op on a session already closed.
Close(s, code) == sess' = [sess EXCEPT ![s] = IF @.st = "open" THEN [@ EXCEPT !.st = "closed", !.code = code] ELSE @]
\* Session.SendGoaway: fails on a closed session.
SendGoaway(s) == sess' = [sess EXCEPT ![s].goaway = @ \/ sess[s].st = "open"]

\* The goroutines r.handlers counts: connections from handlers.Add on,
\* dialled sessions, stragglers.
Tracked == {s \in Sessions : sess[s].handler \in {"setup", "serving"}}
           \cup {s \in Sessions : strag[s] \notin {"none", "done"}}

(***************************************************************************)
(* Connections.  The accept loop and Connect check for shutdown first and  *)
(* count the handler after it; SETUP then makes the session or fails.      *)
(***************************************************************************)
Accept(c) ==
    /\ sess[c].handler = "none"
    /\ IF c \in Local THEN stop = "running" ELSE ~Past("listener")
    /\ sess' = [sess EXCEPT ![c].handler = "accepted"]
    /\ UNCHANGED <<grace, stopVars, ctxDone, strag, poolVars>>

AddHandler(c) ==
    /\ sess[c].handler = "accepted"
    /\ sess' = [sess EXCEPT ![c].handler = "setup"]
    /\ UNCHANGED <<grace, stopVars, ctxDone, strag, poolVars>>

\* Fault: a session registered after the snapshot is left to itself.
AddSessionUnwatched(s) ==
    /\ sess' = [sess EXCEPT ![s].handler = "serving", ![s].st = IF @ = "none" THEN "open" ELSE @]
    /\ UNCHANGED strag

\* serveSession: addSession registers the session, and when Stop has taken
\* its snapshot starts the session's own drain.
AddSession(s) ==
    /\ sess' = [sess EXCEPT ![s].handler = "serving", ![s].st = IF @ = "none" THEN "open" ELSE @]
    /\ strag' = [strag EXCEPT ![s] = IF Past("snapshot") THEN "goaway" ELSE @]

Setup(c) ==
    /\ c \in Conns \cup Local
    /\ sess[c].handler = "setup"
    /\ \/ AddSession(c)
       \/ sess' = [sess EXCEPT ![c].handler = "gone"] /\ UNCHANGED strag
    /\ UNCHANGED <<grace, stopVars, ctxDone, poolVars>>

ServeUpstream(u) ==
    /\ u \in Dials
    /\ sess[u].handler = "setup"
    /\ AddSession(u)
    /\ UNCHANGED <<grace, stopVars, ctxDone, poolVars>>

PeerCloses(s) ==
    /\ s \in Open
    /\ Close(s, "peer")
    /\ UNCHANGED <<grace, stopVars, ctxDone, strag, poolVars>>

\* handler.run returns when the session ended, for an upstream session also
\* when the pool's base context is cancelled; its request handlers are joined
\* first.  serveUpstreamSession's onClose then evicts the pool entry.
HandlerEnds(s) ==
    /\ sess[s].handler = "serving"
    /\ sess[s].st = "closed" \/ (s \in Dials /\ BaseCancelled)
    /\ \A g \in Getters : get[g].by = s => get[g].pc \in {"idle", "done"}
    /\ sess' = [sess EXCEPT ![s].handler = "gone"]
    /\ entry' = IF entry = s THEN Nobody ELSE entry
    /\ UNCHANGED <<grace, stopVars, ctxDone, strag, dial, get>>

(***************************************************************************)
(* upstreamPool.get.  The first caller publishes the entry and dials, the  *)
(* others wait for it; a dead session's entry is dropped and dialled anew. *)
(***************************************************************************)
Goto(g, pc, e) == get' = [get EXCEPT ![g].pc = pc, ![g].e = e]
Fresh == {u \in Dials : dial[u] = "none"}
NextDial == CHOOSE u \in Fresh : TRUE

Get(g) ==
    /\ get[g].pc = "idle" /\ get[g].by \in Open \cap Registered
    /\ \/ /\ entry # Nobody
          /\ Goto(g, "wait", entry)
          /\ UNCHANGED <<entry, dial>>
       \/ /\ entry = Nobody /\ Past("dialing")
          /\ Goto(g, "done", Nobody)
          /\ UNCHANGED <<entry, dial>>
       \/ /\ entry = Nobody /\ ~Past("dialing") /\ Fresh # {}
          /\ entry' = NextDial
          /\ dial' = [dial EXCEPT ![NextDial] = "dialing"]
          /\ Goto(g, "dial", NextDial)
    /\ UNCHANGED <<grace, stopVars, ctxDone, sess, strag>>

\* The dial, bounded by upstreamDialTimeout and the base context, ends: the
\* outcome is set and the waiters released.
DialReturns(g) ==
    /\ get[g].pc = "dial"
    /\ LET u == get[g].e
       IN  \/ /\ ~BaseCancelled
              /\ dial' = [dial EXCEPT ![u] = "ok"]
              /\ sess' = [sess EXCEPT ![u].st = "open"]
              /\ Goto(g, "serve", u)
           \/ /\ dial' = [dial EXCEPT ![u] = "failed"]
              /\ Goto(g, "drop", u)
              /\ UNCHANGED sess
    /\ UNCHANGED <<grace, stopVars, ctxDone, strag, entry>>

\* Fault: a caller waiting for another's dial is not released when it fails.
GetWaitsServed(g) ==
    /\ get[g].pc = "wait"
    /\ LET u == get[g].e
       IN  \/ /\ dial[u] = "ok" /\ sess[u].st = "open"
              /\ Goto(g, "done", Nobody)
              /\ UNCHANGED entry
           \/ /\ dial[u] = "ok" /\ sess[u].st = "closed"
              /\ entry' = IF entry = u THEN Nobody ELSE entry
              /\ Goto(g, "idle", Nobody)
    /\ UNCHANGED <<grace, stopVars, ctxDone, sess, strag, dial>>

\* A failed dial's entry is dropped; a live one is served by the relay.
DialDropped(g) ==
    /\ get[g].pc = "drop"
    /\ entry' = IF entry = get[g].e THEN Nobody ELSE entry
    /\ Goto(g, "done", Nobody)
    /\ UNCHANGED <<grace, stopVars, ctxDone, sess, strag, dial>>

DialServed(g) ==
    /\ get[g].pc = "serve"
    /\ sess' = [sess EXCEPT ![get[g].e].handler = "setup"]
    /\ Goto(g, "done", Nobody)
    /\ UNCHANGED <<grace, stopVars, ctxDone, strag, entry, dial>>

GetWaits(g) ==
    /\ get[g].pc = "wait"
    /\ LET u == get[g].e
       IN  \/ /\ dial[u] = "failed" \/ (dial[u] = "ok" /\ sess[u].st = "open")
              /\ Goto(g, "done", Nobody)
              /\ UNCHANGED entry
           \/ /\ dial[u] = "ok" /\ sess[u].st = "closed"
              /\ entry' = IF entry = u THEN Nobody ELSE entry
              /\ Goto(g, "idle", Nobody)
    /\ UNCHANGED <<grace, stopVars, ctxDone, sess, strag, dial>>

(***************************************************************************)
(* Stop.                                                                   *)
(***************************************************************************)
Step(from, to) == stop = from /\ stop' = to

\* stopCh is closed and the relay withdrawn from Discovery; then the
\* listener is closed; then dialling stopped.
StopBegins ==
    /\ \/ Step("running", "withdraw") \/ Step("withdraw", "listener")
       \/ Step("listener", "dialing") \/ Step("dialing", "snapshot")
    /\ UNCHANGED <<grace, timedOut, snapshot, warned, ctxDone, sess, strag, poolVars>>

BeginShutdown ==
    /\ Step("snapshot", IF grace THEN "goaway" ELSE "drain")
    /\ snapshot' = Registered
    /\ UNCHANGED <<grace, timedOut, warned, ctxDone, sess, strag, poolVars>>

StopGoaway(s) ==
    /\ stop = "goaway" /\ s \in snapshot \ warned
    /\ SendGoaway(s)
    /\ warned' = warned \cup {s}
    /\ UNCHANGED <<grace, stop, timedOut, snapshot, ctxDone, strag, poolVars>>

StopWarned ==
    /\ warned = snapshot /\ Step("goaway", "drain")
    /\ UNCHANGED <<grace, timedOut, snapshot, warned, ctxDone, sess, strag, poolVars>>

\* The drain ends when every session of the snapshot is done, the grace
\* period runs out (at once without one), or ctx ends.
DrainEnds ==
    /\ Step("drain", "upstreams")
    /\ \/ snapshot \cap Open = {} /\ UNCHANGED <<timedOut, sess>>
       \/ /\ timedOut' = TRUE
          /\ sess' = [s \in Sessions |-> [sess[s] EXCEPT !.expired = @ \/ (s \in snapshot /\ sess[s].goaway)]]
       \/ ctxDone /\ UNCHANGED <<timedOut, sess>>
    /\ UNCHANGED <<grace, snapshot, warned, ctxDone, strag, poolVars>>

\* upstreams.close and statusRounds.end.
CloseUpstreams ==
    /\ Step("upstreams", "close")
    /\ UNCHANGED <<grace, timedOut, snapshot, warned, ctxDone, sess, strag, poolVars>>

\* shutdownCloseCode.  goawaySent is what SendGoaway reported.
CloseCode(expired) == IF expired THEN "goaway_timeout" ELSE "no_error"

ForceClose(s) ==
    /\ stop = "close" /\ s \in snapshot \cap Open
    /\ Close(s, CloseCode(sess[s].goaway /\ timedOut))
    /\ UNCHANGED <<grace, stopVars, ctxDone, strag, poolVars>>

ClosedAll ==
    /\ snapshot \cap Open = {} /\ Step("close", "wait")
    /\ UNCHANGED <<grace, timedOut, snapshot, warned, ctxDone, sess, strag, poolVars>>

StopJoins ==
    /\ Tracked = {} /\ Step("wait", "returned")
    /\ UNCHANGED <<grace, timedOut, snapshot, warned, ctxDone, sess, strag, poolVars>>

CtxEnds ==
    /\ stop # "running" /\ ~ctxDone
    /\ ctxDone' = TRUE
    /\ UNCHANGED <<grace, stopVars, sess, strag, poolVars>>

(***************************************************************************)
(* drainStraggler.                                                         *)
(***************************************************************************)
StragglerGoaway(s) ==
    /\ strag[s] = "goaway"
    /\ strag' = [strag EXCEPT ![s] = IF grace THEN "wait" ELSE "close"]
    /\ IF grace THEN SendGoaway(s) ELSE UNCHANGED sess
    /\ UNCHANGED <<grace, stopVars, ctxDone, poolVars>>

StragglerWaits(s) ==
    /\ strag[s] = "wait"
    /\ \/ /\ strag' = [strag EXCEPT ![s] = "close"]
          /\ sess' = [sess EXCEPT ![s].expired = sess[s].goaway]
       \/ sess[s].st = "closed" /\ strag' = [strag EXCEPT ![s] = "done"] /\ UNCHANGED sess
       \/ ctxDone /\ strag' = [strag EXCEPT ![s] = "close"] /\ UNCHANGED sess
    /\ UNCHANGED <<grace, stopVars, ctxDone, poolVars>>

StragglerCloses(s) ==
    /\ strag[s] = "close"
    /\ strag' = [strag EXCEPT ![s] = "done"]
    /\ Close(s, CloseCode(sess[s].expired))
    /\ UNCHANGED <<grace, stopVars, ctxDone, poolVars>>

Init ==
    /\ grace \in BOOLEAN /\ stop = "running" /\ ctxDone = FALSE /\ timedOut = FALSE
    /\ snapshot = {} /\ warned = {}
    /\ strag = [s \in Sessions |-> "none"] /\ entry = Nobody /\ dial = [u \in Dials |-> "none"]
    /\ \E cast \in Casts : LET c == CHOOSE d \in Conns \cap cast : TRUE IN
          /\ sess = [s \in Sessions |-> [NewSess EXCEPT !.handler = IF s \in cast \cup Dials THEN "none" ELSE "gone"]]
          /\ get = [g \in Getters |-> [pc |-> IF g \in cast THEN "idle" ELSE "done", e |-> Nobody, by |-> c]]

Next ==
    \/ \E c \in Conns \cup Local : Accept(c) \/ AddHandler(c) \/ Setup(c)
    \/ \E u \in Dials : ServeUpstream(u)
    \/ \E s \in Sessions : PeerCloses(s) \/ HandlerEnds(s)
    \/ \E g \in Getters : Get(g) \/ DialReturns(g) \/ DialDropped(g) \/ DialServed(g) \/ GetWaits(g)
    \/ StopBegins \/ BeginShutdown \/ StopWarned \/ DrainEnds \/ CloseUpstreams \/ ClosedAll \/ StopJoins \/ CtxEnds
    \/ \E s \in Sessions : \/ StopGoaway(s) \/ ForceClose(s)
                           \/ StragglerGoaway(s) \/ StragglerWaits(s) \/ StragglerCloses(s)

\* Goroutines run, timers fire, SETUP and dials are bounded by their
\* timeouts.  Peers need not close, and nothing obliges Stop to be called.
Fairness ==
    /\ WF_vars(stop # "running" /\ StopBegins)
    /\ WF_vars(BeginShutdown \/ StopWarned \/ DrainEnds \/ CloseUpstreams \/ ClosedAll \/ StopJoins)
    /\ \A c \in Conns \cup Local : WF_vars(AddHandler(c)) /\ WF_vars(Setup(c))
    /\ \A u \in Dials : WF_vars(ServeUpstream(u))
    /\ \A g \in Getters : WF_vars(DialReturns(g) \/ DialDropped(g) \/ DialServed(g) \/ GetWaits(g))
    /\ \A s \in Sessions : /\ WF_vars(HandlerEnds(s)) /\ WF_vars(StopGoaway(s)) /\ WF_vars(ForceClose(s))
                           /\ WF_vars(StragglerGoaway(s) \/ StragglerWaits(s) \/ StragglerCloses(s))

Spec == Init /\ [][Next]_vars /\ Fairness

-----------------------------------------------------------------------------
\* Every variable has its type; an entry of the pool is one being dialled or
\* dialled, and a getter waits only for an entry somebody dials.
TypeOK ==
    /\ grace \in BOOLEAN /\ ctxDone \in BOOLEAN /\ timedOut \in BOOLEAN
    /\ stop \in {Steps[i] : i \in DOMAIN Steps}
    /\ snapshot \subseteq Sessions /\ warned \subseteq snapshot
    /\ sess \in [Sessions -> [st : {"none", "open", "closed"}, handler : {"none", "accepted", "setup", "serving", "gone"},
                              goaway : BOOLEAN, expired : BOOLEAN, code : {"none", "peer", "no_error", "goaway_timeout"}]]
    /\ strag \in [Sessions -> {"none", "goaway", "wait", "close", "done"}]
    /\ entry \in Dials \cup {Nobody} /\ dial \in [Dials -> {"none", "dialing", "ok", "failed"}]
    /\ entry # Nobody => dial[entry] # "none"
    /\ \A g \in Getters : /\ get[g].pc \in {"idle", "wait", "dial", "drop", "serve", "done"}
                          /\ get[g].pc = "wait" => dial[get[g].e] # "none"

\* beginShutdown and addSession split the sessions "never both": once Stop
\* has its snapshot, every session being served is drained either by Stop or
\* by its own straggler, whatever was accepted, connected or dialled when.
OneOwner ==
    Past("snapshot") => \A s \in Registered : (s \in snapshot) # (strag[s] # "none")

\* upstreamPool.get dials once: the session being dialled, or alive with its
\* handler running, is the pool's entry, so nobody dials the relay again
\* beside it and the end of an older session does not evict it.
LiveSessionPooled ==
    \A u \in Dials : (dial[u] = "dialing" \/ (sess[u].st = "open" /\ sess[u].handler # "gone")) => entry = u

\* Stop returns, whatever the peers do and whatever arrives while it drains.
StopReturns == []<>(stop \in {"running", "returned"})

\* Every session open when Stop is called, or opened while it drains and
\* after, ends up closed.
SessionsEnd == <>[](stop = "running" \/ Open = {})

\* Step 8 of Stop: returning while handlers are still running would race with
\* what the caller does next.
StopJoinsHandlers == stop = "returned" => \A s \in Sessions : sess[s].handler \notin {"setup", "serving"}

\* Every session has one owner: one goroutine that will drain it, one place in
\* the pool (relay.go, relay_upstream_pool.go).
SessionsOwned == OneOwner /\ LiveSessionPooled

\* Stop returns and leaves no session open behind it (Relay.Stop).
StopCompletes == StopReturns /\ SessionsEnd
=============================================================================
