------------------------------ MODULE InFlight -------------------------------
(***************************************************************************)
(* Objects part way through arriving, and the FETCHes that wait for them   *)
(* (pkg/relay/internal/registry/inflight.go; the readers' side is runFanout *)
(* in handler_fanout.go, the FETCH's is stitchedFetchObjects in            *)
(* handler_fetch.go).  Each inbound stream has a slot; a FETCH registers on *)
(* the slots active in its range, reads the cache, waits, and reads the    *)
(* cache again.  One TrackEntry; every Location is in every FETCH's range. *)
(***************************************************************************)
EXTENDS Integers, Sequences, FiniteSets, SequencesExt

CONSTANTS
    Streams,      \* inbound subgroup streams
    Fetches,      \* FETCHes being served
    MaxObject,    \* Locations are 1..MaxObject
    Carries,      \* per stream, the Locations the publisher puts on it
    Uncacheable   \* Locations whose Object has MAX_CACHE_DURATION 0

Locs == 1..MaxObject

VARIABLES
    slot,   \* per stream, its InFlight: loc, active, waiters
    read,   \* per stream, where runFanout is, and what it last read
    claimed,\* Locations the ledger has a claim for
    cache,  \* Locations in the cache
    wait    \* per FETCH, its FlightWait, and where the handler is

vars == <<slot, read, claimed, cache, wait>>

NewWait == [pc |-> "start", pending |-> [l \in Locs |-> 0], results |-> <<>>,
            notify |-> FALSE, done |-> {}, still |-> {}, served |-> {}]

Init ==
    /\ slot = [f \in Streams |-> [loc |-> 0, active |-> FALSE, waiters |-> {}]]
    /\ read = [f \in Streams |-> [pc |-> "idle", last |-> 0]]
    /\ claimed = {} /\ cache = {}
    /\ wait = [w \in Fetches |-> NewWait]

\* What the cache serves: an Object with duration 0 is never read back.
Readable == cache \ Uncacheable
-----------------------------------------------------------------------------
(* The readers.                                                            *)

\* Fault: only a whole Object wakes the waiters.
postedQuietly(f, obj) ==
    [w \in Fetches |->
        IF slot[f].active /\ w \in slot[f].waiters
        THEN [wait[w] EXCEPT !.results = Append(@, [loc |-> slot[f].loc, obj |-> obj]),
                             !.notify = @ \/ obj]
        ELSE wait[w]]

\* endInFlightLocked of f: results and wake-ups to its waiters.
posted(f, obj) ==
    [w \in Fetches |->
        IF slot[f].active /\ w \in slot[f].waiters
        THEN [wait[w] EXCEPT !.results = Append(@, [loc |-> slot[f].loc, obj |-> obj]),
                             !.notify = TRUE]
        ELSE wait[w]]

EndInFlight(f, obj) ==
    /\ wait' = posted(f, obj)
    /\ slot' = [slot EXCEPT ![f].active = FALSE, ![f].waiters = {}]

\* ReadObjectHeader, then UpdateLargestAndDetectNew.
Header(f, l) ==
    /\ read[f].pc = "idle" /\ read[f].last < l
    /\ slot' = [slot EXCEPT ![f].loc = l, ![f].active = TRUE]
    /\ read' = [read EXCEPT ![f] = [pc |-> "payload", last |-> l]]
    /\ UNCHANGED <<claimed, cache, wait>>

\* The payload does not arrive whole: runFanout returns.
Abandon(f) ==
    /\ read[f].pc = "payload"
    /\ EndInFlight(f, FALSE)
    /\ read' = [read EXCEPT ![f].pc = "over"]
    /\ UNCHANGED <<claimed, cache>>

\* The payload arrives and ClaimDelivered decides.
Claim(f) ==
    /\ read[f].pc = "payload"
    /\ read' = [read EXCEPT ![f].pc = IF slot[f].loc \in claimed THEN "redundant" ELSE "fresh"]
    /\ claimed' = claimed \cup {slot[f].loc}
    /\ UNCHANGED <<slot, cache, wait>>

\* The Object makes the track malformed: runFanout returns, the slot active.
Malformed(f) ==
    /\ read[f].pc \in {"payload", "redundant"}
    /\ read' = [read EXCEPT ![f].pc = "over"]
    /\ UNCHANGED <<slot, claimed, cache, wait>>

EndRedundant(f) ==
    /\ read[f].pc = "redundant"
    /\ EndInFlight(f, FALSE)
    /\ read' = [read EXCEPT ![f].pc = "idle"]
    /\ UNCHANGED <<claimed, cache>>

Put(f) ==
    /\ read[f].pc = "fresh"
    /\ cache' = cache \cup {slot[f].loc}
    /\ read' = [read EXCEPT ![f].pc = "cached"]
    /\ UNCHANGED <<slot, claimed, wait>>

EndCached(f) ==
    /\ read[f].pc = "cached"
    /\ EndInFlight(f, TRUE)
    /\ read' = [read EXCEPT ![f].pc = "idle"]
    /\ UNCHANGED <<claimed, cache>>

\* ReleaseInFlight, as the stream ends: between Objects or after an error.
ReleaseInFlight(f) ==
    /\ read[f].pc \in {"idle", "over"}
    /\ EndInFlight(f, FALSE)
    /\ read' = [read EXCEPT ![f].pc = "gone"]
    /\ UNCHANGED <<claimed, cache>>
-----------------------------------------------------------------------------
(* The FETCHes.                                                            *)

Arriving == {slot[f].loc : f \in {g \in Streams : slot[g].active}}
On(l) == {f \in Streams : slot[f].active /\ slot[f].loc = l}
Pending(w) == {l \in Locs : wait[w].pending[l] > 0}

\* Nothing arriving: there is no wait, and the cache is read once.
WaitInFlight(w) ==
    /\ wait[w].pc = "start"
    /\ slot' = [f \in Streams |-> IF slot[f].active
                                  THEN [slot[f] EXCEPT !.waiters = @ \cup {w}] ELSE slot[f]]
    /\ wait' = [wait EXCEPT ![w].pending = [l \in Locs |-> Cardinality(On(l))],
                            ![w].pc = IF Arriving = {} THEN "reread" ELSE "registered"]
    /\ UNCHANGED <<read, claimed, cache>>

\* GetRange and Forget; a FETCH whose budget is 0 does not wait.
ReadCache(w, budget) ==
    /\ wait[w].pc = "registered"
    /\ wait' = [wait EXCEPT
        ![w].pending = [l \in Locs |-> IF l \in Readable THEN 0 ELSE @[l]],
        ![w].still = IF budget THEN {} ELSE Pending(w) \ Readable,
        ![w].pc = IF budget THEN "waiting" ELSE "stop"]
    /\ UNCHANGED <<slot, read, claimed, cache>>

\* One result of drain; st holds pending, done and the slots to register on.
drainStep(st, r) ==
    IF st.pending[r.loc] = 0 THEN st
    ELSE IF r.obj THEN [st EXCEPT !.pending[r.loc] = 0, !.done = @ \cup {r.loc}]
    ELSE IF st.pending[r.loc] > 1 THEN [st EXCEPT !.pending[r.loc] = @ - 1]
    ELSE LET new == {f \in On(r.loc) \ st.on : st.w \notin slot[f].waiters}
         IN [st EXCEPT !.pending[r.loc] = Cardinality(new), !.on = @ \cup new]

drain(w) == FoldLeft(LAMBDA st, r : drainStep(st, r),
                     [pending |-> wait[w].pending, done |-> wait[w].done, on |-> {}, w |-> w],
                     wait[w].results)

drained(w, pc) ==
    LET st == drain(w)
    IN /\ slot' = [f \in Streams |-> IF f \in st.on
                                     THEN [slot[f] EXCEPT !.waiters = @ \cup {w}] ELSE slot[f]]
       /\ wait' = [wait EXCEPT
            ![w].pending = st.pending, ![w].done = st.done, ![w].results = <<>>,
            ![w].still = IF pc = "stop" THEN {l \in Locs : st.pending[l] > 0} ELSE {},
            ![w].pc = pc]
       /\ UNCHANGED <<read, claimed, cache>>

\* Wait: woken, out of time (or cancelled), or with nothing left to wait for.
Woken(w) ==
    /\ wait[w].pc = "waiting" /\ Pending(w) # {} /\ wait[w].notify
    /\ wait' = [wait EXCEPT ![w].notify = FALSE, ![w].pc = "woken"]
    /\ UNCHANGED <<slot, read, claimed, cache>>

Drain(w) == wait[w].pc = "woken" /\ drained(w, "waiting")

TimesOut(w) ==
    /\ wait[w].pc = "waiting" /\ Pending(w) # {}
    /\ drained(w, "stop")

AllResolved(w) ==
    /\ wait[w].pc = "waiting" /\ Pending(w) = {}
    /\ wait' = [wait EXCEPT ![w].pc = "stop"]
    /\ UNCHANGED <<slot, read, claimed, cache>>

unregister(w) == slot' = [f \in Streams |-> [slot[f] EXCEPT !.waiters = @ \ {w}]]

Stop(w) ==
    /\ wait[w].pc = "stop"
    /\ unregister(w)
    /\ wait' = [wait EXCEPT ![w].pc = "reread"]
    /\ UNCHANGED <<read, claimed, cache>>

\* The cache is read again, and what was handed over is added.  The wait itself
\* is no longer used.
Reread(w) ==
    /\ wait[w].pc = "reread"
    /\ LET served == Readable \cup wait[w].done
       IN wait' = [wait EXCEPT ![w] = [NewWait EXCEPT !.pc = "done", !.served = served,
                                                      !.still = wait[w].still \ served]]
    /\ UNCHANGED <<slot, read, claimed, cache>>

Reader(f) ==
    \/ \E l \in Carries[f] : Header(f, l)
    \/ Abandon(f) \/ Claim(f) \/ Malformed(f) \/ EndRedundant(f) \/ Put(f) \/ EndCached(f)
    \/ ReleaseInFlight(f)

Fetch(w) ==
    \/ WaitInFlight(w) \/ \E budget \in BOOLEAN : ReadCache(w, budget)
    \/ Woken(w) \/ Drain(w) \/ AllResolved(w) \/ Stop(w) \/ Reread(w)

Next == (\E f \in Streams : Reader(f)) \/ (\E w \in Fetches : Fetch(w) \/ TimesOut(w))

\* A stream's bytes arrive or it errors, and a goroutine that can run does; the
\* timer of a FETCH need not fire.
Fairness ==
    /\ \A f \in Streams : WF_vars(Reader(f))
    /\ \A w \in Fetches : WF_vars(Fetch(w))

Spec == Init /\ [][Next]_vars /\ Fairness
-----------------------------------------------------------------------------
\* The type invariant.
TypeOK ==
    /\ slot \in [Streams -> [loc : 0..MaxObject, active : BOOLEAN, waiters : SUBSET Fetches]]
    /\ \A w \in Fetches :
        /\ wait[w].pc \in {"start", "registered", "waiting", "woken", "stop", "reread", "done"}
        /\ \A l \in Locs : wait[w].pending[l] \in 0..Cardinality(Streams)
        /\ Len(wait[w].results) <= Cardinality(Streams) * MaxObject
    /\ cache \subseteq claimed

\* A FETCH's wait ends without its timer once the streams it waits on complete
\* or fail: no wake-up is lost in the one-place notify channel.
WaitEnds == []<>(\A w \in Fetches : wait[w].pc \in {"start", "done"})
=============================================================================
