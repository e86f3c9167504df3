----------------------------- MODULE FetchRanges -----------------------------
(***************************************************************************)
(* The Location arithmetic of a FETCH response (pkg/relay/fetch_ranges.go  *)
(* and the range helpers of handler_fetch.go): which Locations a relay     *)
(* knows nothing about, which elements a response needs so that a gap in   *)
(* it is never a lie, and how they are delta-encoded on the wire           *)
(* (streamFetchObjects) and read back (ReadDecoded in                      *)
(* pkg/moqt/session/datastream_in.go).                                     *)
(*                                                                         *)
(* MaxGroup and MaxID stand for the largest 64-bit Group and Object ID.  An *)
(* element of a response has a kind: object, or unknown or timedOut for an *)
(* End of Range marker; an object of the cache is normal, or carries a     *)
(* status, endOfGroup or endOfTrack, and says how many IDs, and Groups,    *)
(* before it do not exist.                                                 *)
(***************************************************************************)
EXTENDS Integers, Sequences, FiniteSets, SequencesExt

CONSTANTS MaxGroup, MaxID
ASSUME MaxIDAssumption == MaxGroup \in Nat /\ MaxID \in Nat

Loc(g, o) == [Group |-> g, Object |-> o]
Locations == [Group : 0..MaxGroup, Object : 0..MaxID]
NoLoc == [Group |-> -1, Object |-> -1]

Less(a, b) == a.Group < b.Group \/ (a.Group = b.Group /\ a.Object < b.Object)

\* streamCompare: the order a response carries Locations in.
Before(a, b, order) ==
    IF order = "descending" /\ a.Group # b.Group THEN b.Group < a.Group ELSE Less(a, b)

locSucc(l) ==
    IF l.Object < MaxID THEN Loc(l.Group, l.Object + 1)
    ELSE IF l.Group < MaxGroup THEN Loc(l.Group + 1, 0) ELSE NoLoc

fetchPredecessor(l) ==
    IF l.Object > 0 THEN Loc(l.Group, l.Object - 1)
    ELSE IF l.Group > 0 THEN Loc(l.Group - 1, MaxID) ELSE NoLoc

Rng(lo, hi) == [Lo |-> lo, Hi |-> hi]
In(l, r) == ~Less(l, r.Lo) /\ ~Less(r.Hi, l)
Locs(rs) == {l \in Locations : \E r \in rs : In(l, r)}
At(objs) == {Loc(o.Group, o.Object) : o \in objs}

\* The elements of S in the order lt, which is total on S.
Sorted(S, lt(_, _)) ==
    [i \in 1..Cardinality(S) |->
        CHOOSE x \in S : Cardinality({y \in S : lt(y, x)}) = i - 1]
-----------------------------------------------------------------------------
(* What is known.                                                          *)

uncoveredStep(st, k, end) ==
    IF st.pc # "scan" \/ Less(k.Hi, st.cur) THEN st
    ELSE IF Less(end, k.Lo) THEN [st EXCEPT !.pc = "break"]
    ELSE LET out  == IF Less(st.cur, k.Lo)
                     THEN st.out \cup {Rng(st.cur, fetchPredecessor(k.Lo))} ELSE st.out
             next == locSucc(k.Hi)
         IN IF next = NoLoc \/ Less(end, next)
            THEN [st EXCEPT !.out = out, !.pc = "return"]
            ELSE [st EXCEPT !.out = out, !.cur = next]

\* uncovered: the parts of [start, end] no range of known covers.
uncovered(start, end, known) ==
    LET lt(a, b) == Less(a.Lo, b.Lo) \/ (a.Lo = b.Lo /\ Less(a.Hi, b.Hi))
        st == FoldLeft(LAMBDA s, k : uncoveredStep(s, k, end),
                       [cur |-> start, out |-> {}, pc |-> "scan"], Sorted(known, lt))
    IN IF st.pc = "return" THEN st.out ELSE st.out \cup {Rng(st.cur, end)}

\* knownFromCache: what the cached Objects objs establish.
knownFromCache(objs) ==
    UNION {
        LET l  == Loc(o.Group, o.Object)
            hi == CASE o.status = "normal"     -> l
                    [] o.status = "endOfGroup" -> Loc(o.Group, MaxID)
                    [] o.status = "endOfTrack" -> Loc(MaxGroup, MaxID)
        IN {Rng(l, hi)}
           \cup {r \in {Rng(Loc(o.Group, o.Object - o.gap), Loc(o.Group, o.Object - 1))} :
                    o.gap > 0}
           \cup {r \in {Rng(Loc(o.Group - o.groupGap, 0), Loc(o.Group - 1, MaxID))} :
                    o.groupGap > 0}
        : o \in objs}

\* unknownIn, absent being the ledger's KnownAbsent.
unknownIn(absent, objs, start, end, accounted) ==
    uncovered(start, end, knownFromCache(objs) \cup absent \cup accounted)

locRanges(ls) == {Rng(l, l) : l \in ls}

intersect(a, b) ==
    {r \in {Rng(IF Less(x.Lo, y.Lo) THEN y.Lo ELSE x.Lo,
                IF Less(y.Hi, x.Hi) THEN y.Hi ELSE x.Hi) : x \in a, y \in b} :
        ~Less(r.Hi, r.Lo)}
-----------------------------------------------------------------------------
(* What a response carries.                                                *)

Markers == {"unknown", "timedOut"}
Element(l, kind) == [Group |-> l.Group, Object |-> l.Object, kind |-> kind]

\* Fault: a range ends where it ends in Location order, whatever the order.
runEndsAscending(r, order) == {r.Hi}

\* runEnds: where each part of r ends that a response carries in one run.
runEnds(r, order) ==
    IF order # "descending" \/ r.Lo.Group = r.Hi.Group THEN {r.Hi}
    ELSE {r.Hi, Loc(r.Lo.Group, MaxID)} \cup
         {l \in {Loc(r.Lo.Group + 1, MaxID)} : r.Hi.Group - r.Lo.Group > 1}

\* A marker right after one of its own kind covers both.
dropSubsumed(elems) ==
    LET Subsumed(i) == /\ i < Len(elems)
                       /\ elems[i].kind \in Markers /\ elems[i + 1].kind = elems[i].kind
        kept == {i \in DOMAIN elems : ~Subsumed(i)}
    IN LET at == Sorted(kept, <) IN [i \in DOMAIN at |-> elems[at[i]]]

\* fetchElements.  Status markers sort with the rest and count as elements
\* there; streamFetchObjects leaves them out.  The sort is stable: timedOut
\* markers come last of those at one Location.
fetchElements(objs, unknown, timedOut, order) ==
    LET marks(rs, kind) == UNION {{Element(l, kind) : l \in runEnds(r, order)} : r \in rs}
        obj == {Element(o, IF o.status = "normal" THEN "object" ELSE "status") : o \in objs}
        lt(a, b) == Before(a, b, order) \/
                    (~Before(b, a, order) /\ b.kind = "timedOut" /\ a.kind # b.kind)
    IN dropSubsumed(Sorted(obj \cup marks(unknown, "unknown") \cup marks(timedOut, "timedOut"), lt))

\* streamCovered: the ranges an End of Range marker at at covers, after the
\* element at prev (NoLoc: none), in a response to a FETCH of span.
streamCovered(prev, at, span, order) ==
    LET lo(g) == IF g = span.Lo.Group THEN span.Lo.Object ELSE 0
        hi(g) == IF g = span.Hi.Group THEN span.Hi.Object ELSE MaxID
        from == IF prev = NoLoc THEN Loc(span.Hi.Group, lo(span.Hi.Group))
                ELSE IF prev.Object < hi(prev.Group) THEN Loc(prev.Group, prev.Object + 1)
                ELSE Loc(prev.Group - 1, lo(prev.Group - 1))
    IN IF order # "descending"
       THEN {Rng(IF prev = NoLoc THEN span.Lo ELSE locSucc(prev), at)}
       ELSE IF from.Group = at.Group THEN {Rng(from, at)}
       ELSE {Rng(Loc(at.Group, lo(at.Group)), at), Rng(from, Loc(from.Group, hi(from.Group)))}
            \cup {r \in {Rng(Loc(at.Group + 1, 0), Loc(from.Group - 1, MaxID))} :
                    from.Group - at.Group > 1}
-----------------------------------------------------------------------------
(* The wire.                                                               *)

\* One element of streamFetchObjects.  A delta left off the wire is {}; the
\* direction is the one of each change of Group.
encodeStep(st, e) ==
    LET wrote(kind, gd, od) ==
            [prev |-> Loc(e.Group, e.Object),
             out  |-> Append(st.out, [kind |-> kind, groupDelta |-> gd, objectDelta |-> od])]
        down == e.Group < st.prev.Group
        next == e.Object = st.prev.Object + 1
    IN IF e.kind = "status" THEN st
       ELSE IF e.kind # "object" \/ st.prev = NoLoc THEN wrote(e.kind, {e.Group}, {e.Object})
       ELSE IF e.Group # st.prev.Group
       THEN wrote("object", {IF down THEN st.prev.Group - e.Group - 1
                                     ELSE e.Group - st.prev.Group - 1}, {e.Object})
       ELSE IF e.Object <= st.prev.Object THEN wrote("orderViolation", {}, {})
       ELSE wrote("object", {}, IF next THEN {} ELSE {e.Object - st.prev.Object})

encode(elems) == FoldLeft(encodeStep, [prev |-> NoLoc, out |-> <<>>], elems).out

\* One ReadDecoded; the prior IDs are those of a marker too.
decodeStep(st, m, order) ==
    LET only(S) == CHOOSE x \in S : TRUE
        newGroup == m.groupDelta # {}
        g == IF ~newGroup THEN st.prev.Group
             ELSE IF order = "descending" THEN st.prev.Group - only(m.groupDelta) - 1
             ELSE st.prev.Group + only(m.groupDelta) + 1
        o == IF m.objectDelta = {} THEN st.prev.Object + 1
             ELSE IF newGroup THEN only(m.objectDelta)
             ELSE st.prev.Object + only(m.objectDelta)
        l == IF m.kind # "object" \/ st.prev = NoLoc
             THEN Loc(only(m.groupDelta), only(m.objectDelta)) ELSE Loc(g, o)
    IN [prev |-> l, out |-> Append(st.out, Element(l, m.kind))]

decode(msgs, order) ==
    FoldLeft(LAMBDA st, m : decodeStep(st, m, order), [prev |-> NoLoc, out |-> <<>>], msgs).out
-----------------------------------------------------------------------------
(* What a response says, the reference: a marker speaks for the Locations  *)
(* since the element before it, and a gap otherwise says they do not exist *)
(* (the interpretation at the head of fetch_ranges.go).                    *)

Says(elems, l, order) ==
    LET later == {i \in DOMAIN elems : ~Before(elems[i], l, order)}
    IN IF later = {} THEN "absent"
       ELSE LET e == elems[Min(later)]
            IN IF e.kind # "object" THEN e.kind
               ELSE IF Loc(e.Group, e.Object) = l THEN "object" ELSE "absent"
=============================================================================
