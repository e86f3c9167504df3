--------------------------- MODULE LocationFilters ---------------------------
(***************************************************************************)
(* The Location Filter of a subscription (pkg/moqt/message/filter.go): its *)
(* wire form, the range of Locations it selects against the Largest Object *)
(* the subscription was anchored on, the verdict the fanout takes from it  *)
(* (DownstreamSub.ForwardDecision and GroupOutOfRange) and the range a     *)
(* fill fetch stream covers (maybeServeFill, capFetchEndLocation), against *)
(* the Largest Object last reported to the subscriber.  Group and Object   *)
(* IDs are unsigned and wrap at MaxUint64 + 1, as the code's.              *)
(***************************************************************************)
EXTENDS Integers, Sequences, SequencesExt, TLAPS

CONSTANTS
    MaxUint64,  \* the largest ID: 2^64 - 1 in the code
    Raws        \* the LOCATION_FILTERs a subscriber may send: a type and varints after it

IDs == 0..MaxUint64
Location == [group : IDs, object : IDs]
At(g, o) == [group |-> g, object |-> o]
Nothing == At(-1, -1)  \* no Object was published yet
Less(a, b) == a.group < b.group \/ (a.group = b.group /\ a.object < b.object)
Plus(a, b) == (a + b) % (MaxUint64 + 1)
Minus(a, b) == (a - b) % (MaxUint64 + 1)

None == 0
RelativeStart == 1
AbsoluteStartGroupEnd == 3
AbsoluteRange == 4
NextObject == 5

NoFilter == [type |-> -1, startGroup |-> 0, startObject |-> 0, endGroupDelta |-> 0, endObject |-> 0]

VARIABLES filter,   \* DownstreamSub.Filter, a LocationFilter or NoFilter (nil)
          current,  \* the track's LargestObject, or Nothing
          largest,  \* LargestAtSubscribe, or Nothing
          reported, \* what the last SUBSCRIBE_OK or REQUEST_UPDATE_OK told, which a fill uses
          step,     \* "new", "registered", "told", or "updating" between an update's filter and its OK
          session   \* "open", or "closed" with PROTOCOL_VIOLATION

vars == <<filter, current, largest, reported, step, session>>

Filter == [type : None..NextObject, startGroup : IDs, startObject : IDs, endGroupDelta : IDs, endObject : IDs]

TypeOK ==
    /\ filter \in Filter \cup {NoFilter}
    /\ {current, largest, reported} \subseteq Location \cup {Nothing}
    /\ step \in {"new", "registered", "told", "updating"}
    /\ session \in {"open", "closed"}
    /\ filter.type \notin {AbsoluteStartGroupEnd, AbsoluteRange} => filter.endGroupDelta = 0

(* How many fields follow a type; -1 for one that is not defined. *)
fields(t) == CASE t \in {None, NextObject} -> 0
               [] t \in RelativeStart..AbsoluteRange -> t
               [] OTHER -> -1

HasEnd(f) == f.type \in {AbsoluteStartGroupEnd, AbsoluteRange}

Validate(f) == ~HasEnd(f) \/ f.startGroup <= MaxUint64 - f.endGroupDelta

(* ParseLocationFilter: a type, the fields it selects, nothing after. *)
ParseAny(raw) ==
    LET field(i) == IF i + 1 \in DOMAIN raw THEN raw[i + 1] ELSE 0
    IN [type |-> raw[1], startGroup |-> field(1), startObject |-> field(2),
        endGroupDelta |-> field(3), endObject |-> field(4)]

Parses(raw) == fields(raw[1]) = Len(raw) - 1 /\ Validate(ParseAny(raw))

\* Fault: the next Object starts at the largest one.
StartAtLargest(f, l) ==
    IF f.type = None \/ (l = Nothing /\ f.type \in {RelativeStart, NextObject}) THEN At(0, 0)
    ELSE CASE f.type = RelativeStart ->
            IF f.startGroup > l.group THEN At(0, 0)
            ELSE IF l.group = MaxUint64 /\ f.startGroup = 0 THEN At(MaxUint64, 0)
            ELSE At(Minus(Plus(l.group, 1), f.startGroup), 0)
      [] f.type = NextObject -> l
      [] OTHER -> At(f.startGroup, f.startObject)

(* Start: where the range begins.  A relative start counts back from the   *)
(* Next Group and is clamped at both ends of the group space.              *)
Start(f, l) ==
    IF f.type = None \/ (l = Nothing /\ f.type \in {RelativeStart, NextObject}) THEN At(0, 0)
    ELSE CASE f.type = RelativeStart ->
            IF f.startGroup > l.group THEN At(0, 0)
            ELSE IF l.group = MaxUint64 /\ f.startGroup = 0 THEN At(MaxUint64, 0)
            ELSE At(Minus(Plus(l.group, 1), f.startGroup), 0)
      [] f.type = NextObject ->
            At(l.group, IF l.object = MaxUint64 THEN MaxUint64 ELSE Plus(l.object, 1))
      [] OTHER -> At(f.startGroup, f.startObject)

End(f) == At(Plus(f.startGroup, f.endGroupDelta),
             IF f.type = AbsoluteRange THEN f.endObject ELSE MaxUint64)

Matches(f, loc, l) == ~Less(loc, Start(f, l)) /\ (HasEnd(f) => ~Less(End(f), loc))

(* GroupOutOfRange: no Object of the group can ever pass. *)
GroupOutOfRange(g, f) ==
    /\ f.type \notin {None, RelativeStart, NextObject}
    /\ g < f.startGroup \/ (HasEnd(f) /\ g > End(f).group)

(* ForwardDecision, as far as the Location Filter goes. *)
ForwardDecision(loc) ==
    IF filter = NoFilter \/ Matches(filter, loc, largest) THEN "Forward"
    ELSE IF GroupOutOfRange(loc.group, filter) THEN "SkipGroup"
    ELSE IF Less(loc, Start(filter, largest)) THEN "SkipBeforeStart"
    ELSE "SkipObject"

(* The Locations of a fill fetch stream: up to the Largest Object that was *)
(* reported, none when the range is empty or begins after it.              *)
capFetchEndLocation(f, l) == IF ~HasEnd(f) \/ Less(l, End(f)) THEN l ELSE End(f)

Fill(f, l) ==
    {loc \in Location : l # Nothing /\ ~Less(l, Start(f, l)) /\ ~Less(loc, Start(f, l))
                        /\ ~Less(capFetchEndLocation(f, l), loc)}

FillFilter == IF filter = NoFilter THEN ParseAny(<<None>>) ELSE filter

Init ==
    /\ filter = NoFilter /\ step = "new" /\ session = "open"
    /\ current = Nothing /\ largest = Nothing /\ reported = Nothing

(* The LOCATION_FILTER of a SUBSCRIBE or REQUEST_UPDATE, or none. *)
Omitted == <<>>
Accepted(raw) == raw # Omitted => Parses(raw)
Installed(raw) == IF raw = Omitted THEN filter ELSE ParseAny(raw)

(* UpdateLargest, at the first byte of an Object of the track. *)
UpdateLargest(loc) ==
    /\ session = "open" /\ Less(current, loc)
    /\ current' = loc
    /\ UNCHANGED <<filter, largest, reported, step, session>>

(* handleSubscribe and serveForwardedPublish: the parameters are installed,  *)
(* and the subscription is registered with a look at the Largest Object,     *)
(* which SUBSCRIBE_OK reports.  From here on it is forwarded to, and only    *)
(* then anchored on what was seen.                                           *)
Register(raw) ==
    /\ session = "open" /\ step = "new" /\ Accepted(raw)
    /\ filter' = Installed(raw) /\ step' = "registered"
    /\ reported' = current
    /\ UNCHANGED <<current, largest, session>>

SetLargestAtSubscribe ==
    /\ session = "open" /\ step = "registered"
    /\ largest' = reported /\ step' = "told"
    /\ UNCHANGED <<filter, current, reported, session>>

(* handleSubscribeUpdate: the filter is replaced where the REQUEST_UPDATE    *)
(* has one, and then the track's Largest Object is read and reported.  The   *)
(* anchor of the live filter stays the one of the SUBSCRIBE.                 *)
InstallFilter(raw) ==
    /\ session = "open" /\ step = "told" /\ Accepted(raw)
    /\ filter' = Installed(raw) /\ step' = "updating"
    /\ UNCHANGED <<current, largest, reported, session>>

ReportLargest ==
    /\ session = "open" /\ step = "updating"
    /\ reported' = current /\ step' = "told"
    /\ UNCHANGED <<filter, current, largest, session>>

(* A LOCATION_FILTER that does not parse closes the session (CheckScope). *)
RefuseFilter(raw) ==
    /\ session = "open" /\ step \in {"new", "told"} /\ ~Accepted(raw)
    /\ session' = "closed"
    /\ UNCHANGED <<filter, current, largest, reported, step>>

Next ==
    \/ \E loc \in Location : UpdateLargest(loc)
    \/ \E raw \in Raws \cup {Omitted} : Register(raw) \/ InstallFilter(raw) \/ RefuseFilter(raw)
    \/ SetLargestAtSubscribe \/ ReportLargest
Spec == Init /\ [][Next]_vars

(* What is reported is no older than the anchor and no newer than the track. *)
ReportsInOrder == ~Less(reported, largest) /\ ~Less(current, reported)

(* A start that depends on the Largest Object. *)
Dynamic(f) == f.type \in {RelativeStart, NextObject}

(***************************************************************************)
(* A fill with the subscription's own filter serves what the filter        *)
(* selects up to the Largest Object reported, and nothing the live         *)
(* subscription would not have sent: exactly that, unless what is reported *)
(* is a later Object than the one a dynamic start is anchored on.          *)
(***************************************************************************)
FillIsTheFiltersPast ==
    reported # Nothing =>
        LET past == {loc \in Location : ForwardDecision(loc) = "Forward" /\ ~Less(reported, loc)}
        IN /\ Fill(FillFilter, reported) \subseteq past
           /\ reported = largest \/ ~Dynamic(filter) => Fill(FillFilter, reported) = past

(* At Object ID MaxUint64 the start of Next Object is the Largest Object     *)
(* itself, which cannot arrive again.                                        *)
AtSeam(loc) == loc = largest /\ largest.object = MaxUint64

(***************************************************************************)
(* Next Object on the subscription and a fill of the whole track: every    *)
(* Location is served, by the fill or live.  It is served by both only if  *)
(* it is past the anchor and the fill ends at a later Object: one of an    *)
(* update, or of a subscription that is registered and not anchored yet.   *)
(***************************************************************************)
ServedOnce ==
    filter # NoFilter /\ filter.type = NextObject =>
        \A loc \in Location :
            LET filled == loc \in Fill(ParseAny(<<None>>), reported)
                live   == ForwardDecision(loc) = "Forward"
            IN /\ filled \/ live
               /\ filled /\ live => AtSeam(loc) \/ (Less(largest, loc) /\ reported # largest)

(***************************************************************************)
(* The comment of maybeServeFill says more: that the Largest Object a      *)
(* REQUEST_UPDATE_OK reported is the one "the live filter is anchored on", *)
(* and that an Object is sent live only or filled only.  Only the fill of  *)
(* a SUBSCRIBE has this.                                                   *)
(***************************************************************************)
NeverBoth ==
    step = "told" /\ filter # NoFilter /\ filter.type = NextObject =>
        \A loc \in Location :
            AtSeam(loc) \/ ~(loc \in Fill(ParseAny(<<None>>), reported) /\ ForwardDecision(loc) = "Forward")

(***************************************************************************)
(* A fill and the live subscription meet without a hole, and overlap only  *)
(* by what lies between the two Largest Objects they go by                 *)
(* (handler_fill.go).                                                      *)
(***************************************************************************)
PastMeetsLive == ServedOnce /\ FillIsTheFiltersPast
-----------------------------------------------------------------------------
(* Proved for every largest ID, 2^64 - 1 included, and any LOCATION_FILTERs. *)

Encoded == UNION {{<<t>> \o rest : rest \in Seq(IDs)} : t \in Nat}
Places == Location \cup {Nothing}

\* Adding one below the largest ID does not wrap.
LEMMA NoWrap ==
    ASSUME MaxUint64 \in Nat, NEW a \in IDs, a # MaxUint64
    PROVE  Plus(a, 1) = a + 1
  BY DEF IDs, Plus

\* A filter that parses has a defined type, IDs for its fields, and an End
\* Group only where its type has one (ParseLocationFilter).
LEMMA ParsedTypes ==
    ASSUME MaxUint64 \in Nat, NEW raw \in Encoded, Parses(raw)
    PROVE  /\ ParseAny(raw) \in Filter
           /\ ~HasEnd(ParseAny(raw)) => ParseAny(raw).endGroupDelta = 0
<1>1. PICK t \in Nat, rest \in Seq(IDs) : raw = <<t>> \o rest
  BY DEF Encoded
<1>2. Len(rest) \in Nat
  BY <1>1
<1>3. Len(raw) = Len(rest) + 1 /\ raw[1] = t /\ \A i \in 2..Len(raw) : raw[i] \in IDs
  BY <1>1, <1>2 DEF IDs
<1>4. DOMAIN raw = 1..Len(raw)
  BY <1>1, <1>2
<1>5. fields(t) = Len(rest)
  BY <1>2, <1>3 DEF Parses
<1>6. t \in 0..5 /\ (t \in {0, 5} => Len(rest) = 0) /\ (t \in 1..4 => Len(rest) = t)
  BY <1>1, <1>2, <1>5 DEF fields, None, NextObject, RelativeStart, AbsoluteRange
<1> DEFINE field(i) == IF i + 1 \in DOMAIN raw THEN raw[i + 1] ELSE 0
<1>7. \A i \in 1..4 : field(i) \in IDs
  BY <1>3, <1>4 DEF IDs
<1>8. t \notin {3, 4} => field(3) = 0
  BY <1>2, <1>3, <1>4, <1>6
<1>9. ParseAny(raw) = [type |-> t, startGroup |-> field(1), startObject |-> field(2),
                       endGroupDelta |-> field(3), endObject |-> field(4)]
  BY <1>3 DEF ParseAny
<1> HIDE DEF field
<1> QED BY <1>6, <1>7, <1>8, <1>9 DEF Filter, HasEnd, None, NextObject, AbsoluteStartGroupEnd, AbsoluteRange

\* Locations are totally ordered, the absence of one below them all.
LEMMA Order ==
    ASSUME MaxUint64 \in Nat, NEW a \in Places, NEW b \in Places, NEW c \in Places
    PROVE  /\ ~Less(a, a) /\ (Less(a, b) => ~Less(b, a))
           /\ ~Less(b, a) /\ ~Less(c, b) => ~Less(c, a)
           /\ ~Less(a, Nothing)
           /\ ~Less(Nothing, b) => b = Nothing
<1>1. \A x \in Places : x.group \in Int /\ x.object \in Int
  BY DEF Places, Location, Nothing, At, IDs
<1>2. \A x \in Places : x # Nothing => x.group >= 0 /\ x.object >= 0
  BY DEF Places, Location, IDs
<1>3. Nothing.group = -1 /\ Nothing.object = -1
  BY DEF Nothing, At
<1> QED BY <1>1, <1>2, <1>3 DEF Less

\* Every filter in force is a Location Filter that parsed, and the Largest
\* Object reported lies between the anchor and the track's own (Register,
\* SetLargestAtSubscribe, InstallFilter, ReportLargest).
LEMMA AnchorsInOrder == MaxUint64 \in Nat /\ Raws \subseteq Encoded /\ Spec => [](TypeOK /\ ReportsInOrder)
<1> SUFFICES ASSUME MaxUint64 \in Nat, Raws \subseteq Encoded
             PROVE  Spec => [](TypeOK /\ ReportsInOrder)
  OBVIOUS
<1>1. Init => TypeOK /\ ReportsInOrder
  BY DEF Init, TypeOK, ReportsInOrder, Less, Nothing, At, NoFilter, AbsoluteStartGroupEnd, AbsoluteRange
<1>2. TypeOK /\ ReportsInOrder /\ [Next]_vars => (TypeOK /\ ReportsInOrder)'
  <2> SUFFICES ASSUME TypeOK, ReportsInOrder, [Next]_vars PROVE (TypeOK /\ ReportsInOrder)'
    OBVIOUS
  <2>1. {current, largest, reported} \subseteq Places
    BY DEF TypeOK, Places
  <2>2. ASSUME NEW raw \in Raws \cup {Omitted}, Accepted(raw)
        PROVE  /\ Installed(raw) \in Filter \cup {NoFilter}
               /\ Installed(raw).type \notin {AbsoluteStartGroupEnd, AbsoluteRange} =>
                     Installed(raw).endGroupDelta = 0
    BY <2>2, ParsedTypes DEF Accepted, Installed, TypeOK, HasEnd
  <2>3. ASSUME NEW loc \in Location, UpdateLargest(loc) PROVE (TypeOK /\ ReportsInOrder)'
    <3>1. loc \in Places
      BY DEF Places
    <3>2. ~Less(loc, reported)
      BY <2>1, <2>3, <3>1, Order DEF UpdateLargest, ReportsInOrder
    <3> QED BY <2>3, <3>2 DEF UpdateLargest, TypeOK, ReportsInOrder
  <2>4. ASSUME NEW raw \in Raws \cup {Omitted}, Register(raw) PROVE (TypeOK /\ ReportsInOrder)'
    <3>1. ~Less(current, largest) /\ ~Less(current, current)
      BY <2>1, Order DEF ReportsInOrder
    <3> QED BY <2>2, <2>4, <3>1 DEF Register, TypeOK, ReportsInOrder
  <2>5. ASSUME NEW raw \in Raws \cup {Omitted}, InstallFilter(raw) PROVE (TypeOK /\ ReportsInOrder)'
    BY <2>2, <2>5 DEF InstallFilter, TypeOK, ReportsInOrder
  <2>6. CASE ReportLargest
    <3>1. ~Less(current, largest) /\ ~Less(current, current)
      BY <2>1, Order DEF ReportsInOrder
    <3> QED BY <2>6, <3>1 DEF ReportLargest, TypeOK, ReportsInOrder
  <2>7. ASSUME NEW raw \in Raws \cup {Omitted}, RefuseFilter(raw) PROVE (TypeOK /\ ReportsInOrder)'
    BY <2>7 DEF RefuseFilter, TypeOK, ReportsInOrder
  <2>8. CASE SetLargestAtSubscribe
    <3>1. ~Less(reported, reported)
      BY <2>1, Order
    <3> QED BY <2>8, <3>1 DEF SetLargestAtSubscribe, TypeOK, ReportsInOrder
  <2>9. CASE UNCHANGED vars
    BY <2>9 DEF vars, TypeOK, ReportsInOrder
  <2> QED BY <2>3, <2>4, <2>5, <2>6, <2>7, <2>8, <2>9 DEF Next
<1> QED BY <1>1, <1>2, PTL DEF Spec

\* A relative start counts back from the next Group without wrapping, the
\* largest Group included (Start).
LEMMA RelativeGroup ==
    ASSUME MaxUint64 \in Nat, NEW g \in IDs, NEW n \in IDs, n <= g, g # MaxUint64 \/ n # 0
    PROVE  Minus(Plus(g, 1), n) = g + 1 - n
<1>1. CASE g # MaxUint64
  BY <1>1, NoWrap DEF IDs, Minus
<1>2. CASE g = MaxUint64
  <2>1. Plus(g, 1) = 0
    BY <1>2 DEF Plus
  <2>2. (0 - n) % (MaxUint64 + 1) = MaxUint64 + 1 - n
    BY <1>2 DEF IDs
  <2> QED BY <1>2, <2>1, <2>2 DEF Minus
<1> QED BY <1>1, <1>2

\* A range starts at a Location, whatever it is anchored on (Start).
LEMMA StartTypes ==
    ASSUME MaxUint64 \in Nat, NEW f \in Filter \cup {NoFilter}, NEW l \in Places
    PROVE  Start(f, l).group \in Nat /\ Start(f, l).object \in Nat
<1>1. \A a \in Int, b \in Nat : Plus(a, b) \in Nat /\ Minus(a, b) \in Nat
  BY DEF Plus, Minus
<1>2. f.startGroup \in Nat /\ f.startObject \in Nat /\ l.group \in Int /\ l.object \in Int
  BY DEF Filter, NoFilter, IDs, Places, Location, Nothing, At
<1>3. Minus(Plus(l.group, 1), f.startGroup) \in Nat /\ Plus(l.object, 1) \in Nat
  <2>1. 1 \in Nat /\ Plus(l.group, 1) \in Nat /\ Plus(l.object, 1) \in Nat
    BY <1>1, <1>2
  <2>2. Plus(l.group, 1) \in Int
    BY <2>1
  <2> QED BY <1>1, <1>2, <2>1, <2>2
<1>4. l = Nothing \/ l.group \in Nat
  BY DEF Places, Location, IDs
<1> QED
  BY <1>2, <1>3, <1>4 DEF Start, At

\* The later the Largest Object it is anchored on, the later a range starts.
LEMMA StartMonotone ==
    ASSUME MaxUint64 \in Nat, NEW f \in Filter \cup {NoFilter},
           NEW l \in Places, NEW r \in Location, ~Less(r, l)
    PROVE  /\ ~Less(Start(f, r), Start(f, l))
           /\ ~Dynamic(f) => Start(f, r) = Start(f, l)
<1>1. r # Nothing /\ r \in Places
  BY DEF Location, IDs, Nothing, At, Places
<1>2. Start(f, r).group \in Nat /\ Start(f, r).object \in Nat
  BY <1>1, StartTypes
<1>3. ~Less(Start(f, r), At(0, 0))
  BY <1>2 DEF Less, At
<1>4. CASE ~Dynamic(f)
  <2>1. Start(f, r) = Start(f, l)
    BY <1>4 DEF Start, Dynamic, RelativeStart, NextObject
  <2> QED BY <1>2, <2>1 DEF Less
<1>5. CASE Dynamic(f) /\ l = Nothing
  <2>1. Start(f, l) = At(0, 0)
    BY <1>5 DEF Start, Dynamic
  <2> QED BY <1>3, <1>5, <2>1
<1>6. CASE Dynamic(f) /\ l # Nothing
  <2>1. /\ l.group \in IDs /\ l.object \in IDs /\ r.group \in IDs /\ r.object \in IDs
        /\ f.startGroup \in IDs
    BY <1>6 DEF Places, Location, Filter, NoFilter, IDs
  <2>2. l.group < r.group \/ (l.group = r.group /\ l.object <= r.object)
    BY <2>1 DEF Less, IDs
  <2>3. CASE f.type = RelativeStart
    <3> DEFINE from(p) == IF f.startGroup > p.group THEN 0
                          ELSE IF p.group = MaxUint64 /\ f.startGroup = 0 THEN MaxUint64
                          ELSE p.group + 1 - f.startGroup
    <3>1. ASSUME NEW p, p \in {l, r} PROVE Start(f, p) = At(from(p), 0)
      <4>1. p # Nothing /\ p.group \in IDs
        BY <1>1, <1>6, <2>1, <3>1
      <4>2. f.startGroup <= p.group /\ ~(p.group = MaxUint64 /\ f.startGroup = 0) =>
               Minus(Plus(p.group, 1), f.startGroup) = p.group + 1 - f.startGroup
        BY <2>1, <4>1, RelativeGroup
      <4>3. f.startGroup \in Int /\ p.group \in Int
        BY <2>1, <4>1 DEF IDs
      <4> QED BY <2>3, <4>1, <4>2, <4>3 DEF Start, None, RelativeStart, NextObject
    <3>2. from(l) \in Int /\ from(r) \in Int /\ from(l) <= from(r)
      BY <2>1, <2>2 DEF IDs
    <3>3. Start(f, l) = At(from(l), 0) /\ Start(f, r) = At(from(r), 0)
      BY <3>1
    <3> HIDE DEF from
    <3> QED BY <1>6, <3>2, <3>3 DEF Less, At
  <2>4. CASE f.type = NextObject
    <3>1. ASSUME NEW p, p \in {l, r}
          PROVE  Start(f, p) = At(p.group, IF p.object = MaxUint64 THEN MaxUint64 ELSE p.object + 1)
      <4>1. p # Nothing /\ p.object \in IDs
        BY <1>1, <1>6, <2>1, <3>1
      <4>2. p.object # MaxUint64 => Plus(p.object, 1) = p.object + 1
        BY <4>1, NoWrap
      <4> QED BY <2>4, <4>1, <4>2 DEF Start, None, RelativeStart, NextObject
    <3>2. /\ Start(f, l) = At(l.group, IF l.object = MaxUint64 THEN MaxUint64 ELSE l.object + 1)
          /\ Start(f, r) = At(r.group, IF r.object = MaxUint64 THEN MaxUint64 ELSE r.object + 1)
      BY <3>1
    <3> QED BY <1>6, <2>1, <2>2, <3>2 DEF Less, At, IDs
  <2> QED BY <1>6, <2>3, <2>4 DEF Dynamic
<1> QED BY <1>4, <1>5, <1>6

\* A fill serves only what the filter forwards up to the Largest Object
\* reported: it starts no earlier than the live range and stops with it.
LEMMA FillAsForwarded ==
    ASSUME MaxUint64 \in Nat, TypeOK, ReportsInOrder
    PROVE  FillIsTheFiltersPast
<1> SUFFICES ASSUME reported # Nothing, NEW loc \in Location
             PROVE  LET live == ForwardDecision(loc) = "Forward" /\ ~Less(reported, loc)
                    IN /\ loc \in Fill(FillFilter, reported) => live
                       /\ reported = largest \/ ~Dynamic(filter) =>
                             (live => loc \in Fill(FillFilter, reported))
  BY DEF FillIsTheFiltersPast, Fill
<1>1. PICK f, l, r : f = FillFilter /\ l = largest /\ r = reported
  OBVIOUS
<1>2. PICK from, start, to : from = Start(f, r) /\ start = Start(f, l) /\ to = End(f)
  OBVIOUS
<1>3. f \in Filter \cup {NoFilter} /\ l \in Places /\ r \in Location /\ r \in Places
  BY <1>1 DEF FillFilter, TypeOK, ParseAny, Filter, NoFilter, None, NextObject, IDs, Places
<1>4. /\ from.group \in Int /\ from.object \in Int /\ start.group \in Int /\ start.object \in Int
      /\ to.group \in Int /\ to.object \in Int
  <2>1. from.group \in Int /\ from.object \in Int /\ start.group \in Int /\ start.object \in Int
    BY <1>2, <1>3, StartTypes
  <2>2. f.startGroup \in Nat /\ f.endGroupDelta \in Nat /\ f.endObject \in Nat
    BY <1>3 DEF Filter, NoFilter, IDs
  <2>3. Plus(f.startGroup, f.endGroupDelta) \in Int
    BY <2>2 DEF Plus
  <2>4. to.group \in Int /\ to.object \in Int
    BY <1>2, <2>2, <2>3 DEF End, At
  <2> QED BY <2>1, <2>4
<1>5. r.group \in Int /\ r.object \in Int /\ loc.group \in Int /\ loc.object \in Int
  BY <1>3 DEF Location, IDs
<1>6. ForwardDecision(loc) = "Forward" <=> ~Less(loc, start) /\ (HasEnd(f) => ~Less(to, loc))
  <2>1. CASE filter = NoFilter
    <3>1. f.type = None /\ start = At(0, 0) /\ ~HasEnd(f)
      BY <1>1, <1>2, <2>1 DEF FillFilter, ParseAny, Start, HasEnd, None,
                              AbsoluteStartGroupEnd, AbsoluteRange
    <3>2. ~Less(loc, start)
      BY <3>1 DEF Less, At, Location, IDs
    <3> QED BY <2>1, <3>1, <3>2 DEF ForwardDecision
  <2>2. CASE filter # NoFilter
    <3>1. f = filter /\ l = largest
      BY <1>1, <2>2 DEF FillFilter
    <3> QED BY <1>2, <2>2, <3>1 DEF ForwardDecision, Matches
  <2> QED BY <2>1, <2>2
<1>7. loc \in Fill(f, r) <=>
         ~Less(r, from) /\ ~Less(loc, from) /\ ~Less(r, loc) /\ (HasEnd(f) => ~Less(to, loc))
  <2>1. r # Nothing
    BY <1>1
  <2>2. ~Less(capFetchEndLocation(f, r), loc) <=> ~Less(r, loc) /\ (HasEnd(f) => ~Less(to, loc))
    BY <1>2, <1>4, <1>5 DEF capFetchEndLocation, Less
  <2> QED BY <1>2, <2>1, <2>2 DEF Fill
<1>8. ~Less(loc, from) /\ ~Less(r, loc) => ~Less(r, from)
  BY <1>4, <1>5 DEF Less
<1>9. ~Less(from, start) /\ (r = l \/ ~Dynamic(f) => from = start)
  <2>1. ~Less(r, l)
    BY <1>1 DEF ReportsInOrder
  <2> QED BY <1>2, <1>3, <2>1, StartMonotone
<1>10. ~Less(loc, from) => ~Less(loc, start)
  BY <1>4, <1>5, <1>9 DEF Less
<1>11. ~Dynamic(filter) => ~Dynamic(f)
  BY <1>1 DEF FillFilter, ParseAny, Dynamic, None, RelativeStart, NextObject
<1> QED BY <1>1, <1>6, <1>7, <1>8, <1>9, <1>10, <1>11

\* Next Object starts right after the anchor, and a fill of the whole track
\* stops at the Largest Object reported, at the anchor or after it.
LEMMA NextMeetsFill ==
    ASSUME MaxUint64 \in Nat, TypeOK, ReportsInOrder
    PROVE  ServedOnce
<1> SUFFICES ASSUME filter # NoFilter, filter.type = NextObject, NEW loc \in Location
             PROVE  LET filled == loc \in Fill(ParseAny(<<None>>), reported)
                        live   == ForwardDecision(loc) = "Forward"
                    IN /\ filled \/ live
                       /\ filled /\ live => AtSeam(loc) \/ (Less(largest, loc) /\ reported # largest)
  BY DEF ServedOnce
<1>1. PICK whole, l, r : whole = ParseAny(<<None>>) /\ l = largest /\ r = reported
  OBVIOUS
<1>2. /\ loc.group \in 0..MaxUint64 /\ loc.object \in 0..MaxUint64
      /\ loc = At(loc.group, loc.object)
  BY DEF Location, IDs, At
<1>3. ~HasEnd(whole) /\ Start(whole, r) = At(0, 0)
  BY <1>1 DEF ParseAny, HasEnd, Start, None, AbsoluteStartGroupEnd, AbsoluteRange
<1>4. ForwardDecision(loc) = "Forward" <=> ~Less(loc, Start(filter, l))
  BY <1>1 DEF ForwardDecision, Matches, HasEnd, GroupOutOfRange, NextObject,
              AbsoluteStartGroupEnd, AbsoluteRange
<1>5. l \in Places /\ r \in Places /\ loc \in Places /\ ~Less(r, l)
  BY <1>1 DEF TypeOK, Places, ReportsInOrder
<1>6. loc \in Fill(whole, r) <=> r # Nothing /\ ~Less(r, loc)
  <2>1. CASE r = Nothing
    BY <2>1 DEF Fill
  <2>2. CASE r # Nothing
    <3>1. ~Less(r, At(0, 0)) /\ ~Less(loc, At(0, 0))
      BY <1>2, <1>5, <2>2 DEF Less, At, Places, Location, IDs
    <3> QED BY <1>3, <2>2, <3>1 DEF Fill, capFetchEndLocation
  <2> QED BY <2>1, <2>2
<1>7. CASE l = Nothing
  <2>1. Start(filter, l) = At(0, 0)
    BY <1>7 DEF Start
  <2>2. ~Less(loc, At(0, 0))
    BY <1>2 DEF Less, At
  <2>3. Less(l, loc)
    BY <1>2, <1>7 DEF Less, At, Nothing
  <2> QED BY <1>1, <1>4, <1>6, <1>7, <2>1, <2>2, <2>3
<1>8. CASE l # Nothing
  <2>1. /\ l.group \in 0..MaxUint64 /\ l.object \in 0..MaxUint64
        /\ l = At(l.group, l.object)
    BY <1>5, <1>8 DEF Places, Location, IDs, At
  <2>2. r # Nothing /\ r.group \in Int /\ r.object \in Int
    BY <1>5, <1>8, Order DEF Places, Location, IDs, Nothing, At
  <2>3. Start(filter, l) =
           At(l.group, IF l.object = MaxUint64 THEN MaxUint64 ELSE l.object + 1)
    <3>1. l.object # MaxUint64 => Plus(l.object, 1) = l.object + 1
      BY <2>1, NoWrap DEF IDs
    <3> QED BY <1>8, <3>1 DEF Start, None, RelativeStart, NextObject
  <2>4. Less(l, loc) => ~Less(loc, Start(filter, l))
    BY <1>2, <2>1, <2>3 DEF Less, At
  <2>5. ~Less(l, loc) /\ ~Less(loc, Start(filter, l)) => AtSeam(loc)
    <3>1. loc.group = l.group /\ loc.object = l.object => loc = l
      BY <1>2, <2>1
    <3>2. ~Less(l, loc) /\ ~Less(loc, Start(filter, l)) =>
             loc.group = l.group /\ loc.object = l.object /\ l.object = MaxUint64
      BY <1>2, <2>1, <2>3 DEF Less, At
    <3> QED BY <1>1, <3>1, <3>2 DEF AtSeam
  <2>6. ~Less(l, loc) => ~Less(r, loc)
    BY <1>2, <1>5, <2>1, <2>2 DEF Less
  <2>7. r = l /\ Less(l, loc) => Less(r, loc)
    OBVIOUS
  <2> QED BY <1>1, <1>4, <1>6, <2>2, <2>4, <2>5, <2>6, <2>7
<1> QED BY <1>7, <1>8

\* Whatever filters a subscription is given, wherever it was anchored and
\* whatever its updates report, a fill and the live subscription meet without
\* a hole, and overlap only by what was published between the two (maybeServeFill,
\* ForwardDecision).
THEOREM PastMeetsLiveHolds == MaxUint64 \in Nat /\ Raws \subseteq Encoded /\ Spec => []PastMeetsLive
<1> SUFFICES ASSUME MaxUint64 \in Nat, Raws \subseteq Encoded PROVE Spec => []PastMeetsLive
  OBVIOUS
<1>1. TypeOK /\ ReportsInOrder => PastMeetsLive
  BY FillAsForwarded, NextMeetsFill DEF PastMeetsLive
<1>2. Spec => [](TypeOK /\ ReportsInOrder)
  BY AnchorsInOrder
<1> QED BY <1>1, <1>2, PTL
=============================================================================
