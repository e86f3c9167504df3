--------------------------- MODULE DatagramFanout ---------------------------
(* Datagrams through the relay (handler_datagram.go, datagram_writer.go):     *)
(* receive loops of several publishers hand each Object once to the writer of *)
(* a subscriber's connection, whose one worker sends from a bounded queue     *)
(* while subscriptions end and the session closes. A subscription's           *)
(* PUBLISH_DONE waits for its reserved datagrams (subscription.go).           *)
EXTENDS Integers, Sequences, FiniteSets, Functions

CONSTANTS
    Publishers,   \* receive loops
    Objects,      \* datagrams of the track; each publisher may send each once
    Subs,         \* the track's subscriptions on one connection
    Size          \* sendQueueSize

VARIABLES
    came,         \* <<publisher, object>> received so far
    loop,         \* publisher -> [pc, obj, todo]
    claimed, cached, largest,   \* the track entry's ledger, cache and Largest
    on,           \* the subscriptions on the entry
    sub,          \* subscription -> [terminated, sending, done]
    queue, stopped, sessDone,
    worker,       \* "none", "select", "sending", "exit", "drain", "done"
    hand,         \* the datagram the worker holds, as a sequence
    letGo,        \* datagrams turned away, still to release their reserve
    sent          \* <<sub, object>> -> times handed to the transport

entryVars == <<came, loop, claimed, cached, largest, on>>
vars == <<entryVars, sub, queue, stopped, sessDone, worker, hand, letGo, sent>>

Copies == Subs \X Objects
Quiet == [pc |-> "idle", obj |-> 0, todo |-> {}]

TypeOK ==
    /\ came \subseteq Publishers \X Objects
    /\ \A p \in Publishers : loop[p].pc \in {"idle", "claimed", "cached", "fan"}
    /\ claimed \subseteq Objects /\ cached \subseteq Objects /\ largest \in {0} \union Objects
    /\ on \subseteq Subs
    /\ sub \in [Subs -> [terminated : BOOLEAN, sending : 0..Cardinality(Objects),
                         done : BOOLEAN]]
    /\ Len(queue) <= Size /\ Range(queue) \subseteq Copies
    /\ stopped \in BOOLEAN /\ sessDone \in BOOLEAN
    /\ worker \in {"none", "select", "sending", "exit", "drain", "done"}
    /\ Len(hand) <= 1 /\ letGo \subseteq Copies
    /\ sent \in [Copies -> 0..1]

Init ==
    /\ came = {} /\ loop = [p \in Publishers |-> Quiet]
    /\ claimed = {} /\ cached = {} /\ largest = 0
    /\ on = Subs
    /\ sub = [s \in Subs |-> [terminated |-> FALSE, sending |-> 0, done |-> FALSE]]
    /\ queue = <<>> /\ stopped = FALSE /\ sessDone = FALSE
    /\ worker = "none" /\ hand = <<>> /\ letGo = {}
    /\ sent = [d \in Copies |-> 0]

(* takeReadyDoneLocked: the pending PUBLISH_DONE goes with the last reserve.  *)
Ready(s) == [s EXCEPT !.done = s.terminated /\ s.sending = 0]
EndDatagram(s) == [sub EXCEPT ![s] = Ready([sub[s] EXCEPT !.sending = @ - 1])]
-----------------------------------------------------------------------------

(* handleDatagram: ClaimDelivered lets the first copy through. *)
Receive(p, o) ==
    /\ loop[p].pc = "idle" /\ <<p, o>> \notin came
    /\ came' = came \union {<<p, o>>}
    /\ claimed' = claimed \union {o}
    /\ loop' = IF o \in claimed THEN loop
               ELSE [loop EXCEPT ![p] = [pc |-> "claimed", obj |-> o, todo |-> {}]]
    /\ UNCHANGED <<cached, largest, on, sub, queue, stopped, sessDone, worker, hand, letGo, sent>>

PutDatagram(p) ==
    /\ loop[p].pc = "claimed"
    /\ cached' = cached \union {loop[p].obj}
    /\ loop' = [loop EXCEPT ![p].pc = "cached"]
    /\ UNCHANGED <<came, claimed, largest, on, sub, queue, stopped, sessDone, worker, hand, letGo, sent>>

(* UpdateLargest, then the downstreams of the moment (CopyDownstream). *)
UpdateLargest(p) ==
    /\ loop[p].pc = "cached"
    /\ largest' = IF loop[p].obj > largest THEN loop[p].obj ELSE largest
    /\ loop' = [loop EXCEPT ![p].pc = "fan", ![p].todo = on]
    /\ UNCHANGED <<came, claimed, cached, on, sub, queue, stopped, sessDone, worker, hand, letGo, sent>>

(* enqueue: under the writer's lock the datagram is reserved, and queued      *)
(* without waiting or turned away. The first starts the worker.               *)
Enqueue(p, s) ==
    /\ loop[p].pc = "fan" /\ s \in loop[p].todo
    /\ loop' = [loop EXCEPT ![p] = IF loop[p].todo = {s} THEN Quiet
                                   ELSE [loop[p] EXCEPT !.todo = @ \ {s}]]
    /\ IF stopped \/ sub[s].terminated
       THEN UNCHANGED <<sub, queue, letGo, worker>>
       ELSE /\ sub' = [sub EXCEPT ![s].sending = @ + 1]
            /\ worker' = IF worker = "none" THEN "select" ELSE worker
            /\ IF Len(queue) < Size
               THEN queue' = Append(queue, <<s, loop[p].obj>>) /\ UNCHANGED letGo
               ELSE letGo' = letGo \union {<<s, loop[p].obj>>} /\ UNCHANGED queue
    /\ UNCHANGED <<came, claimed, cached, largest, on, stopped, sessDone, hand, sent>>

NoSubscribers(p) ==
    /\ loop[p].pc = "fan" /\ loop[p].todo = {}
    /\ loop' = [loop EXCEPT ![p] = Quiet]
    /\ UNCHANGED <<came, claimed, cached, largest, on, sub, queue, stopped, sessDone, worker, hand, letGo, sent>>

\* Fault: a dropped datagram keeps its reserve.
LetGoKept(d) ==
    /\ d \in letGo
    /\ letGo' = letGo \ {d}
    /\ UNCHANGED <<sub, entryVars, queue, stopped, sessDone, worker, hand, sent>>

LetGo(d) ==
    /\ d \in letGo
    /\ letGo' = letGo \ {d}
    /\ sub' = EndDatagram(d[1])
    /\ UNCHANGED <<entryVars, queue, stopped, sessDone, worker, hand, sent>>
-----------------------------------------------------------------------------

(* A subscription terminates, leaving the entry. *)
Terminate(s) ==
    /\ ~sub[s].terminated
    /\ sub' = [sub EXCEPT ![s] = Ready([sub[s] EXCEPT !.terminated = TRUE])]
    /\ on' = on \ {s}
    /\ UNCHANGED <<came, loop, claimed, cached, largest, queue, stopped, sessDone, worker, hand, letGo, sent>>

(* stop, as the session's handler ends, and the end of the session itself. *)
Stop ==
    /\ ~stopped
    /\ stopped' = TRUE
    /\ UNCHANGED <<entryVars, sub, queue, sessDone, worker, hand, letGo, sent>>

SessionEnds ==
    /\ ~sessDone
    /\ sessDone' = TRUE
    /\ UNCHANGED <<entryVars, sub, queue, stopped, worker, hand, letGo, sent>>
-----------------------------------------------------------------------------
(* run: the select takes any ready case. *)
WorkerTakes ==
    /\ worker = "select" /\ queue # <<>>
    /\ hand' = <<Head(queue)>> /\ queue' = Tail(queue)
    /\ worker' = "sending"
    /\ UNCHANGED <<entryVars, sub, stopped, sessDone, letGo, sent>>

WorkerStops ==
    /\ worker = "select" /\ (stopped \/ sessDone)
    /\ worker' = "exit"
    /\ UNCHANGED <<entryVars, sub, queue, stopped, sessDone, hand, letGo, sent>>

(* send: a stopped writer's datagram is dropped, as is at any time that of a  *)
(* subscription just cancelled, or one older than maxLag. SendDatagram        *)
(* otherwise, which may block as long as the session lives.                   *)
Released(s) == hand' = <<>> /\ worker' = "select" /\ sub' = EndDatagram(s)

WorkerDrops ==
    /\ worker = "sending"
    /\ Released(hand[1][1])
    /\ UNCHANGED <<entryVars, queue, stopped, sessDone, letGo, sent>>

WorkerSends ==
    /\ worker = "sending" /\ ~stopped /\ ~sessDone
    /\ sent' = [sent EXCEPT ![hand[1]] = @ + 1]
    /\ Released(hand[1][1])
    /\ UNCHANGED <<entryVars, queue, stopped, sessDone, letGo>>

(* The deferred stop, and the drain behind it. *)
WorkerExits ==
    /\ worker = "exit"
    /\ stopped' = TRUE
    /\ worker' = "drain"
    /\ UNCHANGED <<entryVars, sub, queue, sessDone, hand, letGo, sent>>

WorkerDrains ==
    /\ worker = "drain"
    /\ IF queue = <<>>
       THEN worker' = "done" /\ UNCHANGED <<queue, sub>>
       ELSE queue' = Tail(queue) /\ sub' = EndDatagram(Head(queue)[1]) /\ UNCHANGED worker
    /\ UNCHANGED <<entryVars, stopped, sessDone, hand, letGo, sent>>

Run == WorkerTakes \/ WorkerStops \/ WorkerSends \/ WorkerExits \/ WorkerDrains

Next ==
    \/ \E p \in Publishers : \/ \E o \in Objects : Receive(p, o)
                             \/ PutDatagram(p) \/ UpdateLargest(p) \/ NoSubscribers(p)
                             \/ \E s \in Subs : Enqueue(p, s)
    \/ \E d \in Copies : LetGo(d)
    \/ \E s \in Subs : Terminate(s)
    \/ Stop \/ SessionEnds
    \/ Run \/ WorkerDrops

Spec == Init /\ [][Next]_vars
-----------------------------------------------------------------------------
Pending(s) ==
    {d \in Copies : d[1] = s /\ (d \in Range(queue) \/ d \in Range(hand) \/ d \in letGo)}

(* "Every drop releases its reserve" (datagram_writer.go): a subscription's   *)
(* reserve counts its datagrams queued, in hand or being dropped, exactly, so *)
(* that its PUBLISH_DONE neither overtakes one nor waits for none.            *)
ReservesExact == \A s \in Subs : sub[s].sending = Cardinality(Pending(s))

(* PUBLISH_DONE waits until the sender "has no further datagrams to send":    *)
(* past it nothing of the subscription reaches the transport.                 *)
NoDatagramPastDone ==
    \A s \in Subs : sub[s].done => Pending(s) = {}

(* "exclude concurrent enqueues before draining" (datagram_writer.go): a      *)
(* worker that has returned leaves nothing behind in its queue.               *)
NothingStranded == worker = "done" => queue = <<>>

(* Each Object is offered to a subscriber once, however many publishers sent  *)
(* it.                                                                        *)
OfferedOnce ==
    \A s \in Subs, o \in Objects :
        Cardinality({p \in Publishers : loop[p].obj = o /\ s \in loop[p].todo})
        + Cardinality(Pending(s) \intersect {<<s, o>>}) + sent[<<s, o>>] <= 1

(* Every datagram is accounted for from the moment it is offered: once per    *)
(* subscriber, reserved while pending, none past PUBLISH_DONE, none left in   *)
(* the queue of a worker that returned (datagram_writer.go).                  *)
DatagramsAccounted == OfferedOnce /\ ReservesExact /\ NoDatagramPastDone /\ NothingStranded
=============================================================================
