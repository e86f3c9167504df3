----------------------------- MODULE FetchServe -----------------------------
(***************************************************************************)
(* A relay answers a FETCH of a range of Locations (stitchedFetchObjects   *)
(* and fetchUpstreamRange in pkg/relay/handler_fetch.go, streamFetchRange  *)
(* in session_handler.go): it waits for what is arriving, reads its cache, *)
(* asks an upstream about what it does not know, and writes the response   *)
(* its requester decodes.  What exists on the track is given; the relay    *)
(* holds, or knows the absence of, part of it.                             *)
(***************************************************************************)
EXTENDS FetchRanges

CONSTANTS
    StartLocation, EndLocation,  \* the range, capped at Largest Object
    MaxSpecial,  \* how many of its Objects end a Group or the Track, announce
                 \* a gap, or are still arriving
    MaxMarkers,  \* how many range markers an upstream's response has
    Caps,        \* whether an upstream may know less of the track than the relay
    Kinds        \* the kinds of elements its response has

Span == {l \in Locations : ~Less(l, StartLocation) /\ ~Less(EndLocation, l)}
Orders == {"ascending", "descending"}

VARIABLES
    exists,    \* the Locations of the range with an Object
    cache,     \* the Objects of it in the cache
    absent,    \* the Locations of it the ledger knows not to exist
    arriving,  \* the Locations of it, not cached, some stream is part way through
    order,     \* the Group Order asked for
    phase,     \* where the handler is
    objs,      \* the Objects it holds
    unknown,   \* ranges it knows nothing of
    still,     \* Locations still arriving when it stopped waiting
    up,        \* the upstream's answer so far
    response   \* the response, as the requester decodes it

world == <<exists, cache, absent, arriving, order>>
vars  == <<world, phase, objs, unknown, still, up, response>>

Obj(l) == [Group |-> l.Group, Object |-> l.Object, status |-> "normal",
           gap |-> 0, groupGap |-> 0]
NoAnswer == [prev |-> NoLoc, objs |-> {}, unknown |-> {}, timedOut |-> {},
             seen |-> <<>>, span |-> Rng(NoLoc, NoLoc), end |-> NoLoc]

\* Objects the cache can hold when E exists: plain ones, an END_OF_GROUP with
\* nothing after it in its Group, one that announces the gap before it.
Plain(E) == {Obj(l) : l \in E}
Ends(E) == {[Obj(l) EXCEPT !.status = "endOfGroup"] :
                l \in {x \in Span : \A y \in E : y.Group = x.Group => Less(y, x)}}
    \cup {[Obj(l) EXCEPT !.status = "endOfTrack"] : l \in {x \in Span : \A y \in E : Less(y, x)}}
Gapped(E) == {[Obj(l) EXCEPT !.gap = l.Object] :
                l \in {x \in E : x.Object > 0 /\ \A y \in E : y.Group = x.Group => ~Less(y, x)}}
    \cup {[Obj(l) EXCEPT !.groupGap = 1] :
                l \in {x \in E : x.Group > 0 /\ \A y \in E : y.Group # x.Group - 1}}

Init ==
    /\ exists \in SUBSET Span
    /\ \E held \in SUBSET exists : \E special \in SUBSET (Ends(exists) \cup Gapped(exists)) :
        /\ cache = {o \in Plain(held) : \A s \in special : Loc(s.Group, s.Object) # Loc(o.Group, o.Object)}
                   \cup special
        /\ arriving \in SUBSET (exists \ At(cache))
        /\ Cardinality(special) + Cardinality(arriving) <= MaxSpecial
    /\ absent \in SUBSET (Span \ exists)
    /\ order \in Orders
    /\ phase = "wait"
    /\ objs = {} /\ unknown = {} /\ still = {}
    /\ up = NoAnswer
    /\ response = <<>>

\* The wait ends: of what is arriving and not cached, some Objects are handed
\* over, some are still arriving, and the rest were abandoned.
Gather(handed, late) ==
    LET held == cache \cup {Obj(l) : l \in handed}
        gone == unknownIn(locRanges(absent), held, StartLocation, EndLocation, locRanges(late))
    IN /\ phase = "wait"
       /\ objs' = held /\ still' = late /\ unknown' = gone
       /\ phase' = IF gone = {} THEN "known" ELSE "ask"
       /\ UNCHANGED <<world, up, response>>

\* What a slow reader lets expire is written as unknown (streamFetchObjects).
Aged(elems, E) ==
    [i \in DOMAIN elems |->
        IF elems[i].kind = "object" /\ Loc(elems[i].Group, elems[i].Object) \in E
        THEN [elems[i] EXCEPT !.kind = "unknown"] ELSE elems[i]]

\* The response goes out, at most one Object having expired by then.  The
\* request has no Range Filters, which would drop Objects from elems.
Write(elems) ==
    /\ \E E \in {{}} \cup {{l} : l \in At(objs)} :
        response' = decode(encode(Aged(elems, E)), order)
    /\ phase' = "served"

\* Nothing is unknown, or no upstream can be asked, or its FETCH failed.
ServeOwn(asTimedOut) ==
    /\ phase \in {"known", "ask", "reading"}
    /\ asTimedOut => phase # "known" /\ up.seen = <<>>
    /\ LET elems == IF asTimedOut
                    THEN fetchElements(objs, {}, unknown \cup locRanges(still), order)
                    ELSE fetchElements(objs, unknown, locRanges(still), order)
       IN Write(elems)
    /\ UNCHANGED <<world, objs, unknown, still, up>>

\* The span asked of the upstream: from the first unknown Location to the last.
AskedSpan ==
    Rng(CHOOSE l \in Locs(unknown) : \A x \in Locs(unknown) : ~Less(x, l),
        CHOOSE l \in Locs(unknown) : \A x \in Locs(unknown) : ~Less(l, x))

\* FETCH_OK, its End Location capped at the upstream's own Largest Object.
FetchOK(end) ==
    /\ phase = "ask"
    /\ up' = [up EXCEPT !.span = AskedSpan, !.end = end]
    /\ In(end, up'.span) /\ (~Caps => end = up'.span.Hi)
    /\ phase' = "reading"
    /\ UNCHANGED <<world, objs, unknown, still, response>>

\* upstreamFetchElemOK.
elemOK(l) == In(l, up.span) /\ (up.prev # NoLoc => Before(up.prev, l, order))

\* An element of the response.  Until the FIN its gaps assert nothing.
ReadElement(l, kind) ==
    /\ phase = "reading" /\ elemOK(l) /\ ~Less(up.end, l)
    /\ kind = "object" => l \in exists
    /\ kind # "object" => Len(SelectSeq(up.seen, LAMBDA e : e.kind # "object")) < MaxMarkers
    /\ up' = [up EXCEPT
                !.prev = l,
                !.seen = Append(@, Element(l, kind)),
                !.objs = IF kind = "object" THEN @ \cup {Obj(l)} ELSE @,
                !.unknown = IF kind = "unknown"
                            THEN @ \cup streamCovered(up.prev, l, up.span, order) ELSE @,
                !.timedOut = IF kind = "timedOut"
                             THEN @ \cup streamCovered(up.prev, l, up.span, order) ELSE @]
    /\ UNCHANGED <<world, phase, objs, unknown, still, response>>

\* The upstream's response makes the track one not to forward, or the request's
\* context ends or a write fails: the stream is reset, and never FINed, and the
\* handler drops what it held.
Refuse ==
    /\ phase \in {"wait", "known", "ask", "reading"}
    /\ phase' = "refused"
    /\ objs' = {} /\ unknown' = {} /\ still' = {} /\ up' = NoAnswer
    /\ UNCHANGED <<world, response>>

\* The merge of the upstream's answer with what the relay holds.
Merged(ans) ==
    LET merged == objs \cup {o \in ans.objs : Loc(o.Group, o.Object) \notin At(objs)}
        late   == still \ At(merged)
    IN fetchElements(merged, intersect(ans.unknown, unknown),
                     intersect(ans.timedOut, unknown) \cup locRanges(late), order)

\* What lies past the upstream's own End Location has unknown status.
pastEnd == IF Less(up.end, up.span.Hi) THEN {Rng(locSucc(up.end), up.span.Hi)} ELSE {}

\* The upstream, which tells the truth, FINs: up to its End Location, what its
\* response neither carries nor marks does not exist.
ReadFIN ==
    /\ phase = "reading"
    /\ \A l \in Locs({Rng(up.span.Lo, up.end)}) \cap exists :
        Says(up.seen, l, order) \notin {"absent", "nonExistent"}
    /\ LET elems == Merged([up EXCEPT !.unknown = @ \cup pastEnd]) IN Write(elems)
    /\ UNCHANGED <<world, objs, unknown, still, up>>

\* The budget runs out mid-response: all it did not send or mark is timed out.
ReadTimeout ==
    LET known == up.unknown \cup up.timedOut \cup locRanges(At(up.objs))
        rest  == uncovered(up.span.Lo, up.span.Hi, known)
        elems == Merged([up EXCEPT !.timedOut = @ \cup rest])
    IN /\ phase = "reading"
       /\ Write(elems)
       /\ UNCHANGED <<world, objs, unknown, still, up>>

Next ==
    \/ \E handed \in SUBSET arriving : \E late \in SUBSET (arriving \ handed) : Gather(handed, late)
    \/ \E asTimedOut \in BOOLEAN : ServeOwn(asTimedOut)
    \/ \E l \in Span : FetchOK(l)
    \/ \E l \in Span, kind \in Kinds : ReadElement(l, kind)
    \/ ReadFIN \/ ReadTimeout \/ Refuse

Spec == Init /\ [][Next]_vars
-----------------------------------------------------------------------------
\* The type invariant.
TypeOK ==
    /\ exists \subseteq Span /\ At(cache) \cup absent \cup arriving \subseteq Span
    /\ phase \in {"wait", "known", "ask", "reading", "served", "refused"}
    /\ \A r \in unknown \cup up.unknown \cup up.timedOut :
        r.Lo \in Locations /\ r.Hi \in Locations /\ ~Less(r.Hi, r.Lo)
    /\ still \subseteq arriving

\* The response, encoded by the relay and decoded by its requester, never says
\* of an Object that exists that it does not, in either Group Order, whatever
\* the cache, the arriving streams and the upstream came up with, and never
\* carries one that does not (fetchElements: "a plain gap in the response only
\* ever covers Locations known not to exist").
Truthful ==
    phase = "served" => \A l \in Span :
        LET said == Says(response, l, order)
        IN /\ l \in exists => said # "absent"
           /\ said = "object" => l \in exists

\* Objects the relay holds reach the requester even when the upstream fails,
\* all but the one a slow reader let expire (stitchedFetchObjects: "the cached
\* Objects are served either way").
HeldIsServed ==
    phase = "served" =>
        Cardinality({o \in objs : o.status = "normal" /\
            Says(response, Loc(o.Group, o.Object), order) # "object"}) <= 1

\* Every element of a response comes after the one before it, as the delta
\* encoding needs and as upstreamFetchElemOK asks of a response when this
\* relay's requester is itself a relay, which else discards all of it.
InOrder ==
    \A i \in 1..(Len(response) - 1) : Before(response[i], response[i + 1], order)
StrictOrder == phase = "served" => InOrder

\* The same, but for a Descending response stitched from an upstream that both
\* capped its End Location and marked a range as timed out.
OrderUnlessCapped ==
    phase = "served" =>
        \/ InOrder
        \/ order = "descending" /\ up.end # up.span.Hi /\ up.timedOut # {}

\* A FETCH response is true, complete and in order (handler_fetch.go).
ResponseRight == TypeOK /\ Truthful /\ HeldIsServed /\ OrderUnlessCapped
=============================================================================
