------------------------------- MODULE Demux -------------------------------
(* The session's Demux (demux.go): Run accepts data streams one at a time and *)
(* hands each to the handler of its Track Alias (or, a FETCH stream, of its   *)
(* Request ID); a subgroup stream with no handler yet is parked until         *)
(* HandleTrack, called from any goroutine, registers one.                     *)
EXTENDS Integers, Sequences, FiniteSets, Functions

CONSTANTS
    Aliases, FetchIDs,
    Streams,     \* 1..N, in the order Run accepts them
    Callers,     \* goroutines calling HandleTrack
    parkLimit, parkTotalLimit

VARIABLES
    key,         \* stream -> the alias or Request ID its header names
    handled,     \* aliases with a handler (subgroup)
    fetch,       \* Request IDs with a handler
    parked,      \* alias -> sequence of streams
    parkedN,     \* total across parked
    retired,     \* aliases registered and then unregistered
    run,         \* the stream Run is handing over, 0 or -1 (Run has returned)
    accepted,    \* how many streams Run has accepted
    held,        \* caller -> the streams its HandleTrack took, still to hand over
    handed,      \* stream -> how many times a handler (or OnUnknown) got it
    cancelled    \* stream -> how many times it was reset

vars == <<key, handled, fetch, parked, parkedN, retired, run, accepted, held, handed, cancelled>>

TypeOK ==
    /\ key \in [Streams -> Aliases \union FetchIDs]
    /\ handled \subseteq Aliases /\ fetch \subseteq FetchIDs
    /\ parked \in [Aliases -> Seq(Streams)] /\ \A a \in Aliases : Len(parked[a]) <= parkLimit
    /\ parkedN \in 0..parkTotalLimit
    /\ retired \subseteq Aliases
    /\ run \in Streams \union {0, -1}
    /\ accepted \in 0..Cardinality(Streams)
    /\ held \in [Callers -> Seq(Streams)] /\ \A c \in Callers : Len(held[c]) <= parkLimit
    /\ handed \in [Streams -> 0..1] /\ cancelled \in [Streams -> 0..1]

Init ==
    /\ key \in [Streams -> Aliases \union FetchIDs]
    /\ handled = {} /\ fetch = {} /\ retired = {}
    /\ parked = [a \in Aliases |-> <<>>]
    /\ parkedN = 0
    /\ run = 0 /\ accepted = 0
    /\ held = [c \in Callers |-> <<>>]
    /\ handed = [s \in Streams |-> 0] /\ cancelled = [s \in Streams |-> 0]

(* Streams, each of them once. *)
Each(seq) == [s \in Streams |-> IF s \in Range(seq) THEN 1 ELSE 0]
Plus(f, g) == [s \in Streams |-> f[s] + g[s]]

(* HandleTrack and HandleFetch. *)
Unregister(a) ==
    /\ handled' = handled \ {a}
    /\ retired' = retired \union {a}
    /\ cancelled' = Plus(cancelled, Each(parked[a]))
    /\ parkedN' = parkedN - Len(parked[a])
    /\ parked' = [parked EXCEPT ![a] = <<>>]
    /\ UNCHANGED <<key, fetch, run, accepted, held, handed>>

\* Fault: the parked streams handed over stay parked.
RegisterLeaving(c, a) ==
    /\ held[c] = <<>>
    /\ retired' = retired \ {a}
    /\ handled' = handled \union {a}
    /\ held' = [held EXCEPT ![c] = parked[a]]
    /\ parkedN' = parkedN - Len(parked[a])
    /\ UNCHANGED <<key, fetch, parked, run, accepted, handed, cancelled>>

Register(c, a) ==
    /\ held[c] = <<>>
    /\ retired' = retired \ {a}
    /\ handled' = handled \union {a}
    /\ held' = [held EXCEPT ![c] = parked[a]]
    /\ parkedN' = parkedN - Len(parked[a])
    /\ parked' = [parked EXCEPT ![a] = <<>>]
    /\ UNCHANGED <<key, fetch, run, accepted, handed, cancelled>>

(* The handler gets the parked streams in turn, outside the lock. *)
HandOver(c) ==
    /\ held[c] # <<>>
    /\ handed' = [handed EXCEPT ![Head(held[c])] = @ + 1]
    /\ held' = [held EXCEPT ![c] = Tail(@)]
    /\ UNCHANGED <<key, handled, fetch, parked, parkedN, retired, run, accepted, cancelled>>

HandleFetch(f, on) ==
    /\ fetch' = IF on THEN fetch \union {f} ELSE fetch \ {f}
    /\ UNCHANGED <<key, handled, parked, parkedN, retired, run, accepted, held, handed, cancelled>>
-----------------------------------------------------------------------------
(* Run. *)
Cancel(s) ==
    /\ cancelled' = [cancelled EXCEPT ![s] = @ + 1]
    /\ UNCHANGED <<parked, parkedN>>

(* parkLocked, the oldest of an alias making room; dispatch resets a stream   *)
(* it turns away.                                                             *)
parkLocked(s, a) ==
    IF a \in retired \/ parkedN >= parkTotalLimit
    THEN Cancel(s)
    ELSE LET q == Append(parked[a], s)  over == Len(q) > parkLimit IN
         /\ parked' = [parked EXCEPT ![a] = IF over THEN Tail(q) ELSE q]
         /\ parkedN' = IF over THEN parkedN ELSE parkedN + 1
         /\ cancelled' = IF over THEN [cancelled EXCEPT ![Head(q)] = @ + 1] ELSE cancelled

(* dispatch: a handler found under the lock is called after it is dropped. *)
AcceptSubgroup(s) ==
    /\ run = 0 /\ s = accepted + 1 /\ key[s] \in Aliases
    /\ accepted' = s
    /\ IF key[s] \in handled
       THEN run' = s /\ UNCHANGED <<parked, parkedN, cancelled>>
       ELSE UNCHANGED run /\ parkLocked(s, key[s])
    /\ UNCHANGED <<key, handled, fetch, retired, held, handed>>

(* A FETCH stream with no handler goes to OnUnknown, or is reset without one. *)
AcceptFetch(s, onUnknown) ==
    /\ run = 0 /\ s = accepted + 1 /\ key[s] \in FetchIDs
    /\ accepted' = s
    /\ IF key[s] \in fetch \/ onUnknown
       THEN run' = s /\ UNCHANGED <<parked, parkedN, cancelled>>
       ELSE UNCHANGED run /\ Cancel(s)
    /\ UNCHANGED <<key, handled, fetch, retired, held, handed>>

RunHands ==
    /\ run \in Streams
    /\ handed' = [handed EXCEPT ![run] = @ + 1]
    /\ run' = 0
    /\ UNCHANGED <<key, handled, fetch, parked, parkedN, retired, accepted, held, cancelled>>

(* The context ends or the session does; discardParked. *)
RunEnds ==
    /\ run = 0
    /\ run' = -1
    /\ cancelled' = [s \in Streams |->
                        IF \E a \in Aliases : s \in Range(parked[a])
                        THEN cancelled[s] + 1 ELSE cancelled[s]]
    /\ parked' = [a \in Aliases |-> <<>>]
    /\ parkedN' = 0
    /\ UNCHANGED <<key, handled, fetch, retired, accepted, held, handed>>

Next ==
    \/ \E a \in Aliases : Unregister(a) \/ \E c \in Callers : Register(c, a)
    \/ \E c \in Callers : HandOver(c)
    \/ \E f \in FetchIDs, on \in BOOLEAN : HandleFetch(f, on)
    \/ \E s \in Streams : AcceptSubgroup(s) \/ \E u \in BOOLEAN : AcceptFetch(s, u)
    \/ RunHands
    \/ RunEnds

Spec == Init /\ [][Next]_vars
-----------------------------------------------------------------------------
Where(s) ==
    Cardinality({a \in Aliases : s \in Range(parked[a])})
    + Cardinality({c \in Callers : s \in Range(held[c])})
    + (IF run = s THEN 1 ELSE 0) + handed[s] + cancelled[s]

(* Every stream accepted is in exactly one place, whoever registers and       *)
(* unregisters its alias meanwhile: parked, being handed over, handed over    *)
(* once, or reset once. None is lost with its flow control, none is read by   *)
(* two handlers, none is reset under a handler.                               *)
OnePlace == \A s \in Streams : Where(s) = IF s <= accepted THEN 1 ELSE 0

(* The total is exact after evictions, claims and discards, so the bound on   *)
(* streams pinned open neither leaks away nor wedges shut.                    *)
ParkedCounted ==
    /\ parkedN = Cardinality(UNION {Range(parked[a]) : a \in Aliases})
    /\ parkedN <= parkTotalLimit

(* A stream only waits for an alias that can still be claimed: nothing is     *)
(* parked behind a handler, for a retired alias, or once Run has returned.    *)
ParkedIsEarly ==
    \A a \in Aliases : parked[a] # <<>> => a \notin handled \union retired /\ run # -1

(* Every stream accepted is in one place, the parked ones exactly counted and *)
(* only where a handler may still come (demux.go).                            *)
StreamsPlaced == TypeOK /\ OnePlace /\ ParkedCounted /\ ParkedIsEarly
=============================================================================
