---------------------------- MODULE RangeFilters ----------------------------
(***************************************************************************)
(* The Range Filters of a subscription (pkg/moqt/message/rangefilter.go):  *)
(* the delta-encoded wire form of one filter, and the set that REQUEST_    *)
(* UPDATEs replace type by type (RangeFilterSet.Update, applied by the     *)
(* relay's installSubscribeParams).  Values are unsigned and wrap at       *)
(* MaxUint64 + 1.  A subscriber either builds a filter and serialises it   *)
(* (RangeFilter.Append) or is a peer of which only the bytes are known.    *)
(***************************************************************************)
EXTENDS Integers, FiniteSets, Sequences, SequencesExt, FiniteSetsExt

CONSTANTS MaxUint64,        \* 2^64 - 1 in the code
          MaxPriority,      \* 255 in the code
          maxFilterRanges,  \* MAX_FILTER_RANGES
          PeerUpdates       \* parameter lists of peers of which only the bytes are known

Values == 0..MaxUint64
Plus(a, b) == (a + b) % (MaxUint64 + 1)
Minus(a, b) == (a - b) % (MaxUint64 + 1)

Types == {"SUBGROUP", "PRIORITY", "PROPERTY"}
Band == [start : Values, end : Values, open : BOOLEAN]
RangeFilter == [type : Types, setID : Values, propertyType : Values, ranges : Seq(Band)]
hasPropertyType(t) == t = "PROPERTY"
Absent == -1  \* an Object without the property

VARIABLES filters,  \* the filters of DownstreamSub.rangeFilters; {} is a nil set
          meant,    \* of each type, the filters of the last update that named it
          built,    \* the filter the subscriber last built and sent, as a set
          stands    \* does the subscription stand, or did an update end it

vars == <<filters, meant, built, stands>>

TypeOK ==
    /\ filters \subseteq RangeFilter
    /\ \A f, g \in filters : f.type = g.type /\ f.setID = g.setID /\ f.propertyType = g.propertyType => f = g
    /\ meant \in [Types -> SUBSET RangeFilter] /\ built \subseteq RangeFilter
    /\ stands \in BOOLEAN

Init == filters = {} /\ meant = [t \in Types |-> {}] /\ built = {} /\ stands = TRUE

-----------------------------------------------------------------------------
(* The wire form. *)

(* Append: a Start is coded from the previous End, an End from its Start;  *)
(* the End of an open range is left out, and nothing follows it.           *)
Append1(f) ==
    LET last == SelectInSeq(f.ranges, LAMBDA r : r.open)
        sent == IF last = 0 THEN DOMAIN f.ranges ELSE 1..last
        prevEnd(i) == IF i = 1 THEN 0 ELSE f.ranges[i - 1].end
        coded(i) == <<Minus(f.ranges[i].start, prevEnd(i))>>
                    \o IF f.ranges[i].open THEN <<>> ELSE <<Minus(f.ranges[i].end, f.ranges[i].start)>>
    IN <<f.setID>> \o (IF hasPropertyType(f.type) THEN <<f.propertyType>> ELSE <<>>)
       \o FlattenSeq([i \in sent |-> coded(i)])

(* ParseRangeFilter: the deltas summed, each checked against overflow.     *)
(* sum[n] is what the n-th delta resolves to.                              *)
Resolved(deltas) ==
    LET sum[n \in 0..Len(deltas)] == IF n = 0 THEN 0 ELSE Plus(sum[n - 1], deltas[n])
    IN sum

Overflows(deltas) ==
    \E n \in DOMAIN deltas : deltas[n] > MaxUint64 - Resolved(deltas)[n - 1]

Bands(deltas) ==
    [i \in 1..((Len(deltas) + 1) \div 2) |->
        IF 2 * i <= Len(deltas)
        THEN [start |-> Resolved(deltas)[2 * i - 1], end |-> Resolved(deltas)[2 * i], open |-> FALSE]
        ELSE [start |-> Resolved(deltas)[2 * i - 1], end |-> 0, open |-> TRUE]]

Prefix(t) == IF hasPropertyType(t) THEN 2 ELSE 1
Deltas(p) == SubSeq(p.bytes, Prefix(p.type) + 1, Len(p.bytes))

Parsed(p) == [type |-> p.type, setID |-> p.bytes[1],
              propertyType |-> IF hasPropertyType(p.type) THEN p.bytes[2] ELSE 0,
              ranges |-> Bands(Deltas(p))]

(* Validate: an even Property Type, priorities of 8 bits, and only the     *)
(* last range open.                                                        *)
Validate(f) ==
    /\ hasPropertyType(f.type) => f.propertyType % 2 = 0
    /\ \A i \in DOMAIN f.ranges : f.ranges[i].open => i = Len(f.ranges)
    /\ f.type = "PRIORITY" => \A r \in ToSet(f.ranges) : r.start <= MaxPriority /\ (r.open \/ r.end <= MaxPriority)

ParsesAs(p) == Len(p.bytes) >= Prefix(p.type) /\ ~Overflows(Deltas(p)) /\ Validate(Parsed(p))

-----------------------------------------------------------------------------
(* The set. *)

Key(f) == <<f.type, f.setID, f.propertyType>>
totalRanges(fs) == FoldSet(LAMBDA f, n : n + Len(f.ranges), 0, fs)

Named(ps) == {p.type : p \in ToSet(ps)}
Filled(ps) == SelectSeq(ps, LAMBDA p : p.bytes # <<>>)
Added(ps) == {Parsed(p) : p \in ToSet(Filled(ps))}

\* Fault: an update replaces the filters of its own key only.
UpdateByKey(ps) == {f \in filters : \A g \in Added(ps) : Key(f) # Key(g)} \cup Added(ps)

(* Update: every filter of a type the update names is dropped, the ones it *)
(* carries are added.                                                      *)
Update(ps) == {f \in filters : f.type \notin Named(ps)} \cup Added(ps)

(* buildRangeFilterSet and RangeFilterSet.Validate: no two filters of one  *)
(* type, SetID and Property Type, and no more ranges than were allowed, a  *)
(* limit of 0 allowing no filter at all.                                   *)
Accepts(ps) ==
    /\ \A p \in ToSet(Filled(ps)) : ParsesAs(p)
    /\ \A i, j \in DOMAIN Filled(ps) : i # j => Key(Parsed(Filled(ps)[i])) # Key(Parsed(Filled(ps)[j]))
    /\ Update(ps) # {} => maxFilterRanges > 0 /\ totalRanges(Update(ps)) <= maxFilterRanges

(* installSubscribeParams for a SUBSCRIBE or REQUEST_UPDATE: a refused     *)
(* update ends the subscription and leaves its filters as they were.       *)
Install(ps) ==
    \/ /\ Accepts(ps)
       /\ filters' = Update(ps)
       /\ meant' = [t \in Types |-> IF t \in Named(ps) THEN {f \in Added(ps) : f.type = t} ELSE meant[t]]
       /\ UNCHANGED stands
    \/ ~Accepts(ps) /\ stands' = FALSE /\ UNCHANGED <<filters, meant>>

BuiltFilters ==
    {f \in [type : Types, setID : {1}, propertyType : {0}, ranges : BoundedSeq(Band, 2)] :
        /\ Validate(f) /\ \A r \in ToSet(f.ranges) : r.open => r.end = 0
        /\ f.type # "SUBGROUP" => Len(f.ranges) < 2}

SendBuilt(f) ==
    /\ stands /\ Install(<<[type |-> f.type, bytes |-> Append1(f)]>>)
    /\ built' = IF stands' THEN {f} ELSE {}

Receive(ps) == stands /\ Install(ps) /\ built' = {}

Next == (\E f \in BuiltFilters : SendBuilt(f)) \/ (\E ps \in PeerUpdates : Receive(ps))
Spec == Init /\ [][Next]_vars

-----------------------------------------------------------------------------
(* MatchesObject. *)

Objects == [subgroup : Values, priority : 0..MaxPriority, property : Values \cup {Absent}]

matchValue(f, v) == \E r \in ToSet(f.ranges) : v >= r.start /\ (r.open \/ v <= r.end)

matchFilter(f, o) ==
    CASE f.type = "SUBGROUP" -> matchValue(f, o.subgroup)
      [] f.type = "PRIORITY" -> matchValue(f, o.priority)
      [] f.type = "PROPERTY" -> o.property # Absent /\ matchValue(f, o.property)

MatchesObject(fs, o) ==
    fs = {} \/ \E id \in {f.setID : f \in fs} : \A f \in fs : f.setID = id => matchFilter(f, o)

(***************************************************************************)
(* After any sequence of updates the filters in force are, of each type,   *)
(* the ones the last update naming that type carried: an omitted type is   *)
(* kept, an empty parameter removes, another replaces.                     *)
(***************************************************************************)
LastWordOfEachType == filters = UNION {meant[t] : t \in Types}

(***************************************************************************)
(* What a subscriber serialises is what the relay applies, or is refused:  *)
(* a filter that passed Validate is never read as other bands.             *)
(***************************************************************************)
NeverReinterpreted == stands => built \subseteq filters

(***************************************************************************)
(* SetIDs name alternatives: removing a whole set from the filters in      *)
(* force, while another stays, lets no further Object through.             *)
(***************************************************************************)
SetsAreAlternatives ==
    \A id \in {f.setID : f \in filters}, o \in Objects :
        LET others == {f \in filters : f.setID # id}
        IN others # {} /\ MatchesObject(others, o) => MatchesObject(filters, o)

(***************************************************************************)
(* The filters in force are the ones the subscriber meant, after any       *)
(* sequence of updates (rangefilter.go).                                   *)
(***************************************************************************)
FiltersAsMeant == LastWordOfEachType /\ NeverReinterpreted /\ SetsAreAlternatives
=============================================================================
