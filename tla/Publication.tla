---------------------------- MODULE Publication ----------------------------
(* A Publication (publish.go, datastream_out.go): the application opens       *)
(* subgroups, writes Objects and datagrams on several goroutines while the    *)
(* subscriber's REQUEST_UPDATEs pause it and Done, called by the application  *)
(* or after a declined update, ends it with PUBLISH_DONE.                     *)
EXTENDS Integers, FiniteSets

CONSTANTS
    Opens,        \* OpenSubgroup calls; a call names its stream
    Enders,       \* goroutines calling Done
    MaxObject,    \* bound on Object IDs written to a stream
    None

VARIABLES
    st,           \* open -> "idle", "opening", "written", "open", "fin", "failed"
    attributed,   \* streams whose whole header is on the wire
    reset,        \* streams whose send side was reset
    writer,       \* open -> "idle", "noting", "writing"
    next,         \* open -> the next Object ID
    datagram,     \* "idle", "begun", "noted", "sent"
    largest,      \* the Publication's Largest Object (-1: none)
    sent,         \* the largest Object with a byte on the wire (-1: none)
    paused, ended,
    cancelled,    \* endCtx
    open,         \* streams registered for Done, or None once it took them
    count,        \* subgroupCount
    ender,        \* goroutine -> "idle", "latched", "waiting", "resetting", "returned"
    taken,        \* the streams Done resets
    streamCount   \* the PUBLISH_DONE's, or None

vars == <<st, attributed, reset, writer, next, datagram, largest, sent, paused, ended,
          cancelled, open, count, ender, taken, streamCount>>
wire == <<attributed, sent, datagram>>

DatagramID == MaxObject

TypeOK ==
    /\ st \in [Opens -> {"idle", "opening", "written", "open", "fin", "failed"}]
    /\ attributed \subseteq Opens /\ reset \subseteq Opens
    /\ writer \in [Opens -> {"idle", "noting", "writing"}]
    /\ next \in [Opens -> 0..(MaxObject + 1)]
    /\ datagram \in {"idle", "begun", "noted", "sent"}
    /\ {largest, sent} \subseteq -1..MaxObject
    /\ {paused, ended, cancelled} \subseteq BOOLEAN
    /\ open = {None} \/ open \subseteq Opens
    /\ count \in 0..Cardinality(Opens)
    /\ ender \in [Enders -> {"idle", "latched", "waiting", "resetting", "returned"}]
    /\ taken \subseteq Opens
    /\ streamCount \in -1..Cardinality(Opens)

Init ==
    /\ st = [o \in Opens |-> "idle"]
    /\ attributed = {} /\ reset = {}
    /\ writer = [o \in Opens |-> "idle"] /\ next = [o \in Opens |-> 0]
    /\ datagram = "idle" /\ largest = -1 /\ sent = -1
    /\ paused \in BOOLEAN
    /\ ended = FALSE /\ cancelled = FALSE
    /\ open = {} /\ count = 0
    /\ ender = [e \in Enders |-> "idle"] /\ taken = {} /\ streamCount = -1

Larger(a, b) == IF a > b THEN a ELSE b
Opening == {o \in Opens : st[o] \in {"opening", "written"}}
InFlight == Opening # {} \/ datagram \in {"begun", "noted"}
-----------------------------------------------------------------------------
(* OpenSubgroup. *)
BeginOpen(o) ==
    /\ st[o] = "idle" /\ ~ended /\ ~paused
    /\ st' = [st EXCEPT ![o] = "opening"]
    /\ UNCHANGED <<attributed, reset, writer, next, datagram, largest, sent, paused, ended, cancelled, open, count, ender, taken, streamCount>>

(* endCtx's AfterFunc, until the open stops it. *)
OpenCancelled(o) ==
    /\ cancelled /\ o \in Opening \ reset
    /\ reset' = reset \union {o}
    /\ UNCHANGED <<st, attributed, writer, next, datagram, largest, sent, paused, ended, cancelled, open, count, ender, taken, streamCount>>

HeaderWritten(o) ==
    /\ st[o] = "opening" /\ o \notin reset
    /\ st' = [st EXCEPT ![o] = "written"]
    /\ attributed' = attributed \union {o}
    /\ UNCHANGED <<reset, writer, next, datagram, largest, sent, paused, ended, cancelled, open, count, ender, taken, streamCount>>

HeaderFails(o) ==
    /\ st[o] = "opening" /\ o \in reset
    /\ st' = [st EXCEPT ![o] = "failed"]
    /\ UNCHANGED <<attributed, reset, writer, next, datagram, largest, sent, paused, ended, cancelled, open, count, ender, taken, streamCount>>

\* Fault: a stream reset while it was opening is not counted.
CountOpenUnlessReset(o) ==
    /\ st[o] = "written"
    /\ st' = [st EXCEPT ![o] = IF o \in reset THEN "failed" ELSE "open"]
    /\ count' = IF o \in reset THEN count ELSE count + 1
    /\ open' = IF o \in reset THEN open ELSE open \union {o}
    /\ UNCHANGED <<attributed, reset, writer, next, datagram, largest, sent, paused, ended, cancelled, ender, taken, streamCount>>

(* A stream whose header was written counts, reset just after or not. *)
CountOpen(o) ==
    /\ st[o] = "written"
    /\ st' = [st EXCEPT ![o] = "open"]
    /\ count' = count + 1
    /\ open' = open \union {o}
    /\ UNCHANGED <<attributed, reset, writer, next, datagram, largest, sent, paused, ended, cancelled, ender, taken, streamCount>>

(* forget; a no-op once Done took the set. *)
Forget(o) == open' = IF open = {None} THEN open ELSE open \ {o}
-----------------------------------------------------------------------------
(* WriteObjectReceivedAt: an ended publication refuses, a paused one resets. *)
WriteObject(o) ==
    /\ st[o] = "open" /\ writer[o] = "idle" /\ next[o] <= MaxObject
    /\ ~ended
    /\ IF paused
       THEN /\ reset' = reset \union {o}
            /\ st' = [st EXCEPT ![o] = "fin"]
            /\ Forget(o)
            /\ UNCHANGED writer
       ELSE /\ writer' = [writer EXCEPT ![o] = "noting"]
            /\ UNCHANGED <<reset, st, open>>
    /\ UNCHANGED <<attributed, next, datagram, largest, sent, paused, ended, cancelled, count, ender, taken, streamCount>>

(* noteObject, before the first byte. *)
NoteObject(o) ==
    /\ writer[o] = "noting"
    /\ writer' = [writer EXCEPT ![o] = "writing"]
    /\ largest' = Larger(largest, next[o])
    /\ UNCHANGED <<st, attributed, reset, next, datagram, sent, paused, ended, cancelled, open, count, ender, taken, streamCount>>

(* The write goes through, or fails on a stream that was reset meanwhile. It  *)
(* may also block until then.                                                 *)
Written(o) ==
    /\ writer[o] = "writing"
    /\ writer' = [writer EXCEPT ![o] = "idle"]
    /\ IF o \in reset THEN UNCHANGED <<sent, next>>
       ELSE sent' = Larger(sent, next[o]) /\ next' = [next EXCEPT ![o] = @ + 1]
    /\ UNCHANGED <<st, attributed, reset, datagram, largest, paused, ended, cancelled, open, count, ender, taken, streamCount>>

(* Close, or the application's own Cancel. *)
CloseStream(o) ==
    /\ st[o] = "open" /\ writer[o] = "idle"
    /\ st' = [st EXCEPT ![o] = "fin"]
    /\ Forget(o)
    /\ UNCHANGED <<attributed, reset, writer, next, datagram, largest, sent, paused, ended, cancelled, count, ender, taken, streamCount>>

(* SendDatagram. *)
BeginDatagram ==
    /\ datagram = "idle" /\ ~ended /\ ~paused
    /\ datagram' = "begun"
    /\ UNCHANGED <<st, attributed, reset, writer, next, largest, sent, paused, ended, cancelled, open, count, ender, taken, streamCount>>

NoteDatagram ==
    /\ datagram = "begun"
    /\ datagram' = "noted"
    /\ largest' = Larger(largest, DatagramID)
    /\ UNCHANGED <<st, attributed, reset, writer, next, sent, paused, ended, cancelled, open, count, ender, taken, streamCount>>

DatagramSent ==
    /\ datagram = "noted"
    /\ datagram' = "sent"
    /\ sent' = Larger(sent, DatagramID)
    /\ UNCHANGED <<st, attributed, reset, writer, next, largest, paused, ended, cancelled, open, count, ender, taken, streamCount>>

(* ApplyUpdate: FORWARD. *)
ApplyUpdate ==
    /\ ~ended
    /\ paused' = ~paused
    /\ UNCHANGED <<st, attributed, reset, writer, next, datagram, largest, sent, ended, cancelled, open, count, ender, taken, streamCount>>
-----------------------------------------------------------------------------
(* Done. *)
DoneLatch(e) ==
    /\ ender[e] = "idle"
    /\ ended' = TRUE
    /\ ender' = [ender EXCEPT ![e] = IF ended THEN "returned" ELSE "latched"]
    /\ UNCHANGED <<st, attributed, reset, writer, next, datagram, largest, sent, paused, cancelled, open, count, taken, streamCount>>

DoneCancels(e) ==
    /\ ender[e] = "latched"
    /\ ender' = [ender EXCEPT ![e] = "waiting"]
    /\ cancelled' = TRUE
    /\ UNCHANGED <<st, attributed, reset, writer, next, datagram, largest, sent, paused, ended, open, count, taken, streamCount>>

(* opening.Wait, then the streams still open are Done's to reset. *)
DoneTakes(e) ==
    /\ ender[e] = "waiting" /\ ~InFlight
    /\ taken' = open
    /\ open' = {None}
    /\ ender' = [ender EXCEPT ![e] = "resetting"]
    /\ UNCHANGED <<st, attributed, reset, writer, next, datagram, largest, sent, paused, ended, cancelled, count, streamCount>>

DoneResets(e, o) ==
    /\ ender[e] = "resetting" /\ o \in taken
    /\ reset' = reset \union {o}
    /\ taken' = taken \ {o}
    /\ UNCHANGED <<st, attributed, writer, next, datagram, largest, sent, paused, ended, cancelled, open, count, ender, streamCount>>

DoneWrites(e) ==
    /\ ender[e] = "resetting" /\ taken = {}
    /\ streamCount' = count
    /\ ender' = [ender EXCEPT ![e] = "returned"]
    /\ UNCHANGED <<st, attributed, reset, writer, next, datagram, largest, sent, paused, ended, cancelled, open, count, taken>>

OpenSteps(o) == OpenCancelled(o) \/ HeaderFails(o) \/ CountOpen(o)
DatagramSteps == NoteDatagram \/ DatagramSent
DoneSteps(e) == DoneCancels(e) \/ DoneTakes(e) \/ DoneWrites(e) \/ \E o \in Opens : DoneResets(e, o)

Next ==
    \/ \E o \in Opens : \/ BeginOpen(o) \/ HeaderWritten(o) \/ OpenSteps(o)
                        \/ WriteObject(o) \/ NoteObject(o) \/ Written(o) \/ CloseStream(o)
    \/ BeginDatagram \/ DatagramSteps \/ ApplyUpdate
    \/ \E e \in Enders : DoneLatch(e) \/ DoneSteps(e)

Spec == Init /\ [][Next]_vars
-----------------------------------------------------------------------------
(* "The Stream Count is the number of subgroup streams opened ..., exact      *)
(* however those opens race Done" (publish.go): PUBLISH_DONE counts the       *)
(* streams the subscriber can attribute, no more and no fewer, for good.      *)
StreamCountExact == streamCount # -1 => streamCount = Cardinality(attributed)

(* "A sender MUST NOT send PUBLISH_DONE until it has closed all streams it    *)
(* will ever open": every stream the subscriber saw was FINished or reset     *)
(* first.                                                                     *)
AllClosedByDone ==
    streamCount # -1 => \A o \in attributed : o \in reset \/ st[o] = "fin"

(* "Done waits for a send in progress before PUBLISH_DONE" (SendDatagram): no *)
(* datagram of the publication leaves after it.                               *)
NoDatagramAfterDone == streamCount # -1 => datagram \in {"idle", "sent"}

(* PUBLISH_DONE is true when it is written: it comes after every datagram and *)
(* the end of every stream, with their exact number (Publication.Done).       *)
DoneIsTrue == StreamCountExact /\ AllClosedByDone /\ NoDatagramAfterDone
=============================================================================
