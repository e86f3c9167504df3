----------------------------- MODULE FetchRouter -----------------------------
(***************************************************************************)
(* The rendezvous between the handler that issued an upstream FETCH and    *)
(* the upstream session's data loop, which receives the response stream    *)
(* (pkg/relay/internal/registry/fetch_router.go).  Either may come first.  *)
(* Entries for different FETCHes do not interact: this is one of them.     *)
(* r.mu covers the map only; the channel operations come after it.         *)
(***************************************************************************)
EXTENDS Integers, Sequences

CONSTANT Streams  \* response streams that carry the FETCH's Request ID

None == "none"

VARIABLES
    pending,  \* the channel in the map, or 0
    box,      \* what each channel made so far holds: a stream or None
    req,      \* the requester's progress, and its channel
    del,      \* each stream's Deliver: its progress, channel and created
    timers,   \* grace timers: their channel, and whether they deleted it
    fate      \* each stream: none yet, read by the requester, or reset

vars == <<pending, box, req, del, timers, fate>>

NoDelivery == [pc |-> "absent", ch |-> 0, created |-> FALSE]

Init ==
    /\ pending = 0
    /\ box = <<>>
    /\ req = [pc |-> "issued", ch |-> 0]
    /\ del = [s \in Streams |-> NoDelivery]
    /\ timers = {}
    /\ fate = [s \in Streams |-> None]

\* chanLocked: the rendezvous channel, made if there is none.
created == pending = 0
chanLocked ==
    IF created THEN /\ box' = Append(box, None) /\ pending' = Len(box) + 1
               ELSE UNCHANGED <<box, pending>>

\* Session.Fetch returned and fetchUpstreamRange registers.
Register ==
    /\ req.pc = "issued"
    /\ chanLocked
    /\ req' = [pc |-> "waiting", ch |-> pending']
    /\ UNCHANGED <<del, timers, fate>>

\* Session.Fetch failed, though a response stream may still come.
FetchFailed ==
    /\ req.pc = "issued"
    /\ req' = [req EXCEPT !.pc = "done"]
    /\ UNCHANGED <<pending, box, del, timers, fate>>

\* The requester receives from its channel,
Take ==
    /\ req.pc = "waiting" /\ box[req.ch] # None
    /\ fate' = [fate EXCEPT ![box[req.ch]] = "read"]
    /\ box' = [box EXCEPT ![req.ch] = None]
    /\ req' = [req EXCEPT !.pc = "taken"]
    /\ UNCHANGED <<pending, del, timers>>

\* or gives up when its context ends.
GiveUp ==
    /\ req.pc = "waiting"
    /\ req' = [req EXCEPT !.pc = "gaveUp"]
    /\ UNCHANGED <<pending, box, del, timers, fate>>

\* cleanup, first half: the map entry goes, if it is still this one.
CleanupRemove ==
    /\ req.pc \in {"taken", "gaveUp"}
    /\ pending' = IF pending = req.ch THEN 0 ELSE pending
    /\ req' = [req EXCEPT !.pc = "removed"]
    /\ UNCHANGED <<box, del, timers, fate>>

\* What is left in channel ch is reset.
Drain(ch) ==
    /\ fate' = IF box[ch] = None THEN fate ELSE [fate EXCEPT ![box[ch]] = "reset"]
    /\ box' = [box EXCEPT ![ch] = None]

CleanupDrain ==
    /\ req.pc = "removed"
    /\ Drain(req.ch)
    /\ req' = [req EXCEPT !.pc = "done"]
    /\ UNCHANGED <<pending, del, timers>>

\* Deliver, under r.mu: a response stream looks its channel up.  The session's
\* data loop delivers one stream at a time,
DeliverLook(s) ==
    /\ del[s].pc = "absent" /\ \A d \in Streams : del[d].pc # "looked"
    /\ chanLocked
    /\ del' = [del EXCEPT ![s] = [pc |-> "looked", ch |-> pending', created |-> created]]
    /\ UNCHANGED <<req, timers, fate>>

\* Fault: the grace timer runs whoever made the rendezvous.
ArmAlways(s) == timers' = timers \cup {[ch |-> del[s].ch, deleted |-> FALSE]}

Arm(s) == timers' = IF del[s].created
                    THEN timers \cup {[ch |-> del[s].ch, deleted |-> FALSE]}
                    ELSE timers

\* and is sent on it, or, with one parked there, reset by the caller.
DeliverSend(s) ==
    LET ch == del[s].ch
    IN /\ del[s].pc = "looked"
       /\ del' = [del EXCEPT ![s].pc = "sent"]
       /\ \/ /\ box[ch] = None
             /\ box' = [box EXCEPT ![ch] = s]
             /\ Arm(s)
             /\ UNCHANGED fate
          \/ /\ box[ch] # None
             /\ fate' = [fate EXCEPT ![s] = "reset"]
             /\ UNCHANGED <<box, timers>>
       /\ UNCHANGED <<pending, req>>

\* The grace timer fires: nothing to do if the entry is gone,
TimerFires(t) ==
    /\ ~t.deleted
    /\ \/ /\ pending = t.ch
          /\ pending' = 0
          /\ timers' = (timers \ {t}) \cup {[t EXCEPT !.deleted = TRUE]}
       \/ /\ pending # t.ch
          /\ timers' = timers \ {t}
          /\ UNCHANGED pending
    /\ UNCHANGED <<box, req, del, fate>>

\* else what is parked is reset.
TimerDrains(t) ==
    /\ t.deleted
    /\ Drain(t.ch)
    /\ timers' = timers \ {t}
    /\ UNCHANGED <<pending, req, del>>

Next ==
    \/ Register \/ FetchFailed \/ Take \/ GiveUp \/ CleanupRemove \/ CleanupDrain
    \/ \E s \in Streams : DeliverLook(s) \/ DeliverSend(s)
    \/ \E t \in timers : TimerFires(t) \/ TimerDrains(t)

Spec == Init /\ [][Next]_vars
-----------------------------------------------------------------------------
\* The type invariant: what a channel holds was sent on it, and nobody has it.
TypeOK ==
    /\ pending \in 0..Len(box)
    /\ \A ch \in DOMAIN box : box[ch] # None =>
        LET s == box[ch]
        IN del[s].pc = "sent" /\ del[s].ch = ch /\ fate[s] = None
    /\ req.pc \in {"issued", "waiting", "taken", "gaveUp", "removed", "done"}
    /\ req.ch \in 0..Len(box)
    /\ \A s \in Streams : /\ del[s].pc \in {"absent", "looked", "sent"}
                          /\ del[s].ch \in 0..Len(box)
                          /\ fate[s] \in {None, "read", "reset"}
    /\ timers \subseteq [ch : 1..Len(box), deleted : BOOLEAN]

\* Nothing more will happen to the rendezvous.
Quiet ==
    /\ req.pc = "done" /\ timers = {}
    /\ \A s \in Streams : del[s].pc # "looked"

\* The map does not grow: once the requester and the timers are done, the
\* entry is gone, whichever side made it and in whatever order they came.
NoEntryLeak == Quiet => pending = 0

\* A response that finds the requester's rendezvous is not reset under a
\* requester still waiting for it, save a duplicate of one parked before.
WaiterKeepsStream ==
    \A s \in Streams :
        /\ req.pc = "waiting" /\ del[s].pc = "sent"
        /\ ~del[s].created /\ del[s].ch = req.ch
        /\ fate[s] = "reset"
        => \E d \in Streams \ {s} : del[d].pc = "sent" /\ del[d].ch = req.ch

\* Every response stream is read or reset in the end (Register: cleanup "resets
\* any stream that arrived but was never consumed"; Deliver: "so a stray
\* response can't leak").
NoStreamLeak ==
    Quiet => \A s \in Streams : del[s].pc = "sent" => fate[s] # None

\* A rendezvous keeps what was brought to it while it is awaited, and nothing
\* afterwards (FetchRouter).
RendezvousKept == WaiterKeepsStream /\ NoEntryLeak
-----------------------------------------------------------------------------
\* What the proof needs of the types.
Types ==
    /\ box \in Seq(Streams \cup {None})
    /\ pending \in 0..Len(box)
    /\ req \in [pc : {"issued", "waiting", "taken", "gaveUp", "removed", "done"}, ch : 0..Len(box)]
    /\ del \in [Streams -> [pc : {"absent", "looked", "sent"}, ch : 0..Len(box), created : BOOLEAN]]
    /\ timers \subseteq [ch : 1..Len(box), deleted : BOOLEAN]
    /\ fate \in [Streams -> {None, "read", "reset"}]

\* The channels of those who have one were made; the data loop is in one
\* Deliver at a time; what is parked, read or reset was sent.
Progress ==
    /\ req.pc = "issued" => req.ch = 0
    /\ req.pc \in {"waiting", "taken", "gaveUp", "removed"} => req.ch # 0
    /\ \A s \in Streams : /\ del[s].pc = "absent" <=> del[s].ch = 0
                          /\ fate[s] # None => del[s].pc = "sent"
    /\ \A s, d \in Streams : del[s].pc = "looked" /\ del[d].pc = "looked" => s = d
    /\ \A ch \in DOMAIN box : box[ch] # None =>
           /\ del[box[ch]].pc = "sent" /\ del[box[ch]].ch = ch
           /\ fate[box[ch]] = None

\* Whoever made the channel of the map answers for it: the requester until its
\* cleanup, a Deliver until it sends, which nothing parked there prevents, and
\* then the grace timer.
Owned ==
    /\ pending # 0 =>
         \/ req.ch = pending /\ req.pc \in {"waiting", "taken", "gaveUp"}
         \/ \E s \in Streams : del[s].pc = "looked" /\ del[s].created /\ del[s].ch = pending
         \/ \E t \in timers : ~t.deleted /\ t.ch = pending
    /\ \A s \in Streams : del[s].pc = "looked" /\ del[s].created => box[del[s].ch] = None

\* A timer runs only on a channel whose maker's stream was parked there; a
\* stream that found its channel is reset because of another one sent on it,
\* or once the requester is done with it.
ResetFor ==
    /\ \A t \in timers : \E d \in Streams : del[d].pc = "sent" /\ del[d].created /\ del[d].ch = t.ch
    /\ \A s \in Streams : fate[s] = "reset" /\ ~del[s].created =>
         \/ req.pc = "done"
         \/ \E d \in Streams \ {s} : del[d].pc = "sent" /\ del[d].ch = del[s].ch

RouterInv == Types /\ Progress /\ Owned /\ ResetFor

====
