--------------------------- MODULE InboundProofs ---------------------------
(***************************************************************************)
(* What becomes of the data streams that come, for any number of them: the *)
(* session's demultiplexer places each (Demux), and the rendezvous of a    *)
(* FETCH loses none of its response streams (FetchRouter).                 *)
(***************************************************************************)
EXTENDS Integers, Sequences, FiniteSetTheorems, TLAPS

\* A sequence without repetition, and what Append and Tail do to one.
Distinct(q) == \A i, j \in DOMAIN q : q[i] = q[j] => i = j

\* An element more at the end.
LEMMA RangeAppend ==
    ASSUME NEW S, NEW q \in Seq(S), NEW x \in S
    PROVE  /\ Append(q, x) \in Seq(S) /\ Range(Append(q, x)) = Range(q) \union {x}
           /\ Len(Append(q, x)) = Len(q) + 1
           /\ Distinct(q) /\ x \notin Range(q) => Distinct(Append(q, x))
<1>1. /\ Append(q, x) \in Seq(S) /\ Len(Append(q, x)) = Len(q) + 1 /\ Len(q) \in Nat
      /\ DOMAIN q = 1..Len(q) /\ DOMAIN Append(q, x) = 1..(Len(q) + 1)
      /\ \A i \in 1..Len(q) : Append(q, x)[i] = q[i]
      /\ Append(q, x)[Len(q) + 1] = x
  OBVIOUS
<1>2. Range(Append(q, x)) = Range(q) \union {x}
  BY <1>1 DEF Range
<1>3. ASSUME Distinct(q), x \notin Range(q) PROVE Distinct(Append(q, x))
  BY <1>1, <1>3 DEF Range, Distinct
<1> QED BY <1>1, <1>2, <1>3

\* The first element less.
LEMMA RangeTail ==
    ASSUME NEW S, NEW q \in Seq(S), q # <<>>
    PROVE  /\ Tail(q) \in Seq(S) /\ Len(Tail(q)) = Len(q) - 1
           /\ Head(q) \in S /\ Range(q) = Range(Tail(q)) \union {Head(q)}
           /\ Distinct(q) => Distinct(Tail(q)) /\ Head(q) \notin Range(Tail(q))
<1>1. /\ Tail(q) \in Seq(S) /\ Len(q) \in Nat \ {0} /\ Len(Tail(q)) = Len(q) - 1
      /\ DOMAIN q = 1..Len(q) /\ DOMAIN Tail(q) = 1..(Len(q) - 1)
      /\ \A i \in 1..(Len(q) - 1) : Tail(q)[i] = q[i + 1]
      /\ Head(q) = q[1] /\ Head(q) \in S
  OBVIOUS
<1>2. Range(q) = Range(Tail(q)) \union {Head(q)}
  <2>1. ASSUME NEW i \in DOMAIN q PROVE q[i] \in Range(Tail(q)) \union {Head(q)}
    <3>1. CASE i = 1
      BY <1>1, <3>1
    <3>2. CASE i # 1
      <4>1. i - 1 \in DOMAIN Tail(q) /\ Tail(q)[i - 1] = q[i]
        BY <1>1, <2>1, <3>2
      <4> QED BY <4>1 DEF Range
    <3> QED BY <3>1, <3>2
  <2>2. ASSUME NEW i \in DOMAIN Tail(q) PROVE Tail(q)[i] \in Range(q)
    BY <1>1, <2>2 DEF Range
  <2>3. Head(q) \in Range(q)
    BY <1>1 DEF Range
  <2> QED BY <2>1, <2>2, <2>3 DEF Range
<1>3. ASSUME Distinct(q) PROVE Distinct(Tail(q)) /\ Head(q) \notin Range(Tail(q))
  <2>1. Distinct(Tail(q))
    <3> SUFFICES ASSUME NEW i \in DOMAIN Tail(q), NEW j \in DOMAIN Tail(q), Tail(q)[i] = Tail(q)[j]
                 PROVE  i = j
      BY DEF Distinct
    <3>1. i + 1 \in DOMAIN q /\ j + 1 \in DOMAIN q /\ q[i + 1] = q[j + 1]
      BY <1>1
    <3>2. i + 1 = j + 1
      BY <1>3, <3>1 DEF Distinct
    <3> QED BY <1>1, <3>2
  <2>2. ASSUME NEW i \in DOMAIN Tail(q), Tail(q)[i] = Head(q) PROVE FALSE
    <3>1. i + 1 \in DOMAIN q /\ 1 \in DOMAIN q /\ q[i + 1] = q[1]
      BY <1>1, <2>2
    <3>2. i + 1 = 1
      BY <1>3, <3>1 DEF Distinct
    <3> QED BY <1>1, <3>2
  <2> QED BY <2>1, <2>2 DEF Range
<1> QED BY <1>1, <1>2, <1>3

\* A sequence without repetition has as many elements as it is long.
LEMMA LenRange ==
    ASSUME NEW S, NEW q \in Seq(S), Distinct(q)
    PROVE  IsFiniteSet(Range(q)) /\ Cardinality(Range(q)) = Len(q)
<1>1. Len(q) \in Nat /\ DOMAIN q = 1..Len(q)
  OBVIOUS
<1>2. IsFiniteSet(1..Len(q)) /\ Cardinality(1..Len(q)) = Len(q)
  BY <1>1, FS_Interval, SMTT(60)
<1>3. q \in Bijection(1..Len(q), Range(q))
  BY <1>1 DEF Distinct, Bijection, Injection, Surjection, IsInjective, Range
<1>4. ExistsBijection(1..Len(q), Range(q))
  BY <1>3 DEF ExistsBijection
<1> QED BY <1>2, <1>4, FS_Bijection

\* The empty sequence.
LEMMA EmptyRange == Range(<<>>) = {} /\ Distinct(<<>>) /\ Len(<<>>) = 0
  BY DEF Range, Distinct

\* A set whose members are all equal has at most one.
LEMMA AtMostOne ==
    ASSUME NEW S, \A x, y \in S : x = y
    PROVE  Cardinality(S) = IF S = {} THEN 0 ELSE 1
<1>1. CASE S = {}
  BY <1>1, FS_EmptySet
<1>2. CASE S # {}
  <2>1. PICK x \in S : S = {x}
    BY <1>2
  <2> QED BY <1>2, <2>1, FS_Singleton
<1> QED BY <1>1, <1>2

-----------------------------------------------------------------------------
(* Demux. *)
CONSTANTS DemuxAliases, FetchIDs, DataStreams, Callers, parkLimit, parkTotalLimit

ASSUME DataStreamsAssumption ==
    IsFiniteSet(DataStreams) /\ DataStreams = 1..Cardinality(DataStreams)
ASSUME DemuxAssumption == parkLimit \in Nat /\ parkTotalLimit \in Nat

VARIABLES
    key, handled, fetch, parked, parkedN, retired, run, acceptedN, handing,
    handed, cancels

D == INSTANCE Demux WITH
    Aliases <- DemuxAliases, Streams <- DataStreams, accepted <- acceptedN,
    held <- handing, cancelled <- cancels

\* Each data stream is with its handler, parked or reset, once, and the parked
\* ones are counted (demux.go).
StreamsPlaced == D!StreamsPlaced

\* The streams that wait for a handler, and those taken to be handed over.
Parked == {s \in DataStreams : \E a \in DemuxAliases : s \in Range(parked[a])}
Held == {s \in DataStreams : \E c \in Callers : s \in Range(handing[c])}

DemuxTypes ==
    /\ key \in [DataStreams -> DemuxAliases \union FetchIDs]
    /\ handled \subseteq DemuxAliases /\ fetch \subseteq FetchIDs /\ retired \subseteq DemuxAliases
    /\ parked \in [DemuxAliases -> Seq(DataStreams)] /\ \A a \in DemuxAliases : Len(parked[a]) <= parkLimit
    /\ handing \in [Callers -> Seq(DataStreams)] /\ \A c \in Callers : Len(handing[c]) <= parkLimit
    /\ parkedN \in Int
    /\ run \in DataStreams \union {0, -1}
    /\ acceptedN \in {0} \union DataStreams
    /\ handed \in [DataStreams -> {0, 1}] /\ cancels \in [DataStreams -> {0, 1}]

\* A stream is parked at most once, under its own alias, and held by one caller.
Queued ==
    /\ \A a \in DemuxAliases : Distinct(parked[a]) /\ \A s \in Range(parked[a]) : key[s] = a
    /\ \A c \in Callers : Distinct(handing[c])
    /\ \A c, d \in Callers : c # d => Range(handing[c]) \intersect Range(handing[d]) = {}

\* Every stream accepted is in one place.
Placed(s) ==
    /\ s <= acceptedN <=> \/ s \in Parked \/ s \in Held \/ run = s
                         \/ handed[s] = 1 \/ cancels[s] = 1
    /\ s \in Parked => s \notin Held /\ run # s /\ handed[s] = 0 /\ cancels[s] = 0
    /\ s \in Held => run # s /\ handed[s] = 0 /\ cancels[s] = 0
    /\ run = s => handed[s] = 0 /\ cancels[s] = 0
    /\ handed[s] = 1 => cancels[s] = 0

\* The parked ones are counted, and wait for a handler that may come.
ParkedRight ==
    /\ parkedN = Cardinality(Parked) /\ parkedN <= parkTotalLimit
    /\ \A a \in DemuxAliases : parked[a] # <<>> => a \notin handled \union retired /\ run # -1

DemuxInv == DemuxTypes /\ Queued /\ (\A s \in DataStreams : Placed(s)) /\ ParkedRight

\* The instance counts as this module does.
LEMMA DemuxLibrary ==
    (\A S : D!Cardinality(S) = Cardinality(S)) /\ \A q : D!Range(q) = Range(q)
  BY DEF D!Cardinality, Cardinality, D!Range, Range

\* Streams are numbered from 1 without a gap.
LEMMA DataStreamNumbers ==
    /\ DataStreams \subseteq Nat \ {0} /\ IsFiniteSet(DataStreams)
    /\ \A s \in DataStreams : \A r \in 1..s : r \in DataStreams
<1>1. PICK n \in Nat : DataStreams = 1..n
  BY DataStreamsAssumption, FS_CardinalityType
<1> QED BY <1>1, FS_Interval

\* The parked streams can be counted.
LEMMA ParkedFinite == IsFiniteSet(Parked) /\ Cardinality(Parked) \in Nat
<1>1. Parked \subseteq DataStreams
  BY DEF Parked
<1> QED BY <1>1, DataStreamNumbers, FS_Subset, FS_CardinalityType, Zenon

\* Unparking an alias takes just its streams from those parked.
LEMMA Unparked ==
    ASSUME DemuxInv, NEW a \in DemuxAliases, parked' = [parked EXCEPT ![a] = <<>>]
    PROVE  /\ Range(parked[a]) \subseteq Parked /\ Parked' = Parked \ Range(parked[a])
           /\ Cardinality(Parked') = Cardinality(Parked) - Len(parked[a])
<1>1. parked[a] \in Seq(DataStreams) /\ Distinct(parked[a]) /\ Range(parked[a]) \subseteq DataStreams
  BY DEF DemuxInv, DemuxTypes, Queued, Range
<1>2. Range(parked[a]) \subseteq Parked
  BY <1>1 DEF Parked
<1>3. \A b \in DemuxAliases : Range(parked'[b]) = IF b = a THEN {} ELSE Range(parked[b])
  BY EmptyRange, Zenon DEF DemuxInv, DemuxTypes
<1>4. \A b \in DemuxAliases \ {a} : Range(parked[b]) \intersect Range(parked[a]) = {}
  BY DEF DemuxInv, Queued
<1>5. Parked' = Parked \ Range(parked[a])
  BY <1>3, <1>4 DEF Parked
<1>6. IsFiniteSet(Range(parked[a])) /\ Cardinality(Range(parked[a])) = Len(parked[a])
  BY <1>1, LenRange
<1>7. Cardinality(Parked \ Range(parked[a])) = Cardinality(Parked) - Cardinality(Parked \intersect Range(parked[a]))
  BY ParkedFinite, FS_Difference, Zenon
<1>8. Parked \intersect Range(parked[a]) = Range(parked[a])
  BY <1>2
<1> QED BY <1>2, <1>5, <1>6, <1>7, <1>8, Zenon

\* What the callers hold changes with their queues alone.
LEMMA SameHeld ==
    ASSUME UNCHANGED handing PROVE Held' = Held
  BY DEF Held

\* A handler goes: what is parked for its alias is reset.
LEMMA UnregisterAliasStep ==
    ASSUME DemuxInv, NEW a \in DemuxAliases, D!Unregister(a)
    PROVE  DemuxInv'
<1>1. /\ handled' = handled \ {a} /\ retired' = retired \union {a}
      /\ cancels' = [s \in DataStreams |-> cancels[s] + IF s \in Range(parked[a]) THEN 1 ELSE 0]
      /\ parkedN' = parkedN - Len(parked[a]) /\ parked' = [parked EXCEPT ![a] = <<>>]
      /\ UNCHANGED <<key, fetch, run, acceptedN, handing, handed>>
  BY DemuxLibrary DEF D!Unregister, D!Plus, D!Each
<1>2. /\ Range(parked[a]) \subseteq Parked /\ Parked' = Parked \ Range(parked[a])
      /\ Cardinality(Parked') = Cardinality(Parked) - Len(parked[a])
  BY <1>1, Unparked, Zenon
<1>3. Len(parked[a]) \in Nat
  BY DEF DemuxInv, DemuxTypes
<1>4. \A s \in DataStreams : cancels'[s] = IF s \in Range(parked[a]) THEN 1 ELSE cancels[s]
  BY <1>1, <1>2, SMTT(60) DEF DemuxInv, DemuxTypes, Placed
<1>5. DemuxTypes'
  <2>1. /\ parked' \in [DemuxAliases -> Seq(DataStreams)]
        /\ \A b \in DemuxAliases : Len(parked'[b]) <= parkLimit
    BY <1>1, EmptyRange, DemuxAssumption DEF DemuxInv, DemuxTypes
  <2>2. cancels' \in [DataStreams -> {0, 1}]
    BY <1>1, <1>4 DEF DemuxInv, DemuxTypes
  <2> QED BY <1>1, <1>3, <2>1, <2>2 DEF DemuxInv, DemuxTypes
<1>6. Queued'
  BY <1>1, EmptyRange DEF DemuxInv, DemuxTypes, Queued
<1>7. \A s \in DataStreams : Placed(s)'
  BY <1>1, <1>2, <1>4, SameHeld DEF DemuxInv, DemuxTypes, Placed
<1>8. ParkedRight'
  <2>1. parkedN' = Cardinality(Parked') /\ parkedN' <= parkTotalLimit
    BY <1>1, <1>2, <1>3, DemuxAssumption DEF DemuxInv, DemuxTypes, ParkedRight
  <2>2. \A b \in DemuxAliases : parked'[b] # <<>> => b # a /\ parked[b] # <<>>
    BY <1>1 DEF DemuxInv, DemuxTypes
  <2>3. \A b \in DemuxAliases : parked'[b] # <<>> => b \notin handled' \union retired' /\ run' # -1
    BY <1>1, <2>2 DEF DemuxInv, ParkedRight
  <2> QED BY <2>1, <2>3 DEF ParkedRight
<1> QED BY <1>5, <1>6, <1>7, <1>8 DEF DemuxInv

\* A handler comes, and its caller takes what is parked for it.
LEMMA RegisterAliasStep ==
    ASSUME DemuxInv, NEW c \in Callers, NEW a \in DemuxAliases, D!Register(c, a)
    PROVE  DemuxInv'
<1>1. /\ handing[c] = <<>> /\ retired' = retired \ {a} /\ handled' = handled \union {a}
      /\ handing' = [handing EXCEPT ![c] = parked[a]]
      /\ parkedN' = parkedN - Len(parked[a]) /\ parked' = [parked EXCEPT ![a] = <<>>]
      /\ UNCHANGED <<key, fetch, run, acceptedN, handed, cancels>>
  BY DEF D!Register
<1>2. /\ Range(parked[a]) \subseteq Parked /\ Parked' = Parked \ Range(parked[a])
      /\ Cardinality(Parked') = Cardinality(Parked) - Len(parked[a])
  BY <1>1, Unparked, Zenon
<1>3. Len(parked[a]) \in Nat
  BY DEF DemuxInv, DemuxTypes
<1>4. \A d \in Callers : handing'[d] = IF d = c THEN parked[a] ELSE handing[d]
  BY <1>1 DEF DemuxInv, DemuxTypes
<1>5. Held' = Held \union Range(parked[a])
  BY <1>1, <1>2, <1>4, EmptyRange DEF Held, Parked
<1>6. DemuxTypes'
  <2>1. /\ parked' \in [DemuxAliases -> Seq(DataStreams)]
        /\ \A b \in DemuxAliases : Len(parked'[b]) <= parkLimit
    BY <1>1, EmptyRange, DemuxAssumption DEF DemuxInv, DemuxTypes
  <2>2. /\ handing' \in [Callers -> Seq(DataStreams)]
        /\ \A d \in Callers : Len(handing'[d]) <= parkLimit
    BY <1>1, <1>4 DEF DemuxInv, DemuxTypes
  <2> QED BY <1>1, <1>3, <2>1, <2>2 DEF DemuxInv, DemuxTypes
<1>7. Queued'
  <2>1. \A d \in Callers : Range(handing[d]) \intersect Range(parked[a]) = {}
    <3> SUFFICES ASSUME NEW d \in Callers, NEW s \in Range(handing[d]) \intersect Range(parked[a]) PROVE FALSE
      OBVIOUS
    <3>1. s \in Parked /\ s \in DataStreams
      BY <1>2 DEF Parked
    <3>2. s \in Held
      BY <3>1 DEF Held
    <3> QED BY <3>1, <3>2 DEF DemuxInv, Placed
  <2>2. \A b \in DemuxAliases : Distinct(parked'[b]) /\ \A s \in Range(parked'[b]) : key'[s] = b
    BY <1>1, EmptyRange DEF DemuxInv, DemuxTypes, Queued
  <2>3. \A d \in Callers : Distinct(handing'[d])
    BY <1>4 DEF DemuxInv, Queued
  <2>4. \A d, e \in Callers : d # e => Range(handing'[d]) \intersect Range(handing'[e]) = {}
    BY <1>4, <2>1 DEF DemuxInv, Queued
  <2> QED BY <2>2, <2>3, <2>4 DEF Queued
<1>8. \A s \in DataStreams : Placed(s)'
  BY <1>1, <1>2, <1>5 DEF DemuxInv, DemuxTypes, Placed
<1>9. ParkedRight'
  <2>1. parkedN' = Cardinality(Parked') /\ parkedN' <= parkTotalLimit
    BY <1>1, <1>2, <1>3, DemuxAssumption DEF DemuxInv, DemuxTypes, ParkedRight
  <2>2. \A b \in DemuxAliases : parked'[b] # <<>> => b # a /\ parked[b] # <<>>
    BY <1>1 DEF DemuxInv, DemuxTypes
  <2>3. \A b \in DemuxAliases : parked'[b] # <<>> => b \notin handled' \union retired' /\ run' # -1
    BY <1>1, <2>2 DEF DemuxInv, ParkedRight
  <2> QED BY <2>1, <2>3 DEF ParkedRight
<1> QED BY <1>6, <1>7, <1>8, <1>9 DEF DemuxInv

\* The caller hands its streams over, one by one.
LEMMA HandOverStep ==
    ASSUME DemuxInv, NEW c \in Callers, D!HandOver(c)
    PROVE  DemuxInv'
<1>1. /\ handing[c] # <<>> /\ handing' = [handing EXCEPT ![c] = Tail(handing[c])]
      /\ handed' = [handed EXCEPT ![Head(handing[c])] = @ + 1]
      /\ UNCHANGED <<key, handled, fetch, parked, parkedN, retired, run, acceptedN, cancels>>
  BY DEF D!HandOver
<1>2. PICK h \in DataStreams :
         /\ h = Head(handing[c]) /\ h \notin Range(Tail(handing[c]))
         /\ Range(handing[c]) = Range(Tail(handing[c])) \union {h}
         /\ Tail(handing[c]) \in Seq(DataStreams) /\ Distinct(Tail(handing[c]))
         /\ Len(Tail(handing[c])) <= parkLimit
  <2>1. handing[c] \in Seq(DataStreams) /\ Distinct(handing[c]) /\ Len(handing[c]) <= parkLimit
    BY DEF DemuxInv, DemuxTypes, Queued
  <2>2. /\ Tail(handing[c]) \in Seq(DataStreams) /\ Len(Tail(handing[c])) = Len(handing[c]) - 1
        /\ Head(handing[c]) \in DataStreams /\ Range(handing[c]) = Range(Tail(handing[c])) \union {Head(handing[c])}
        /\ Distinct(Tail(handing[c])) /\ Head(handing[c]) \notin Range(Tail(handing[c]))
    BY <1>1, <2>1, RangeTail
  <2>3. Len(Tail(handing[c])) <= parkLimit
    BY <2>1, <2>2, DemuxAssumption
  <2> QED BY <2>2, <2>3
<1>3. \A d \in Callers : handing'[d] = IF d = c THEN Tail(handing[c]) ELSE handing[d]
  BY <1>1 DEF DemuxInv, DemuxTypes
<1>4. h \in Held /\ Held' = Held \ {h} /\ Parked' = Parked
  <2>1. \A d \in Callers \ {c} : h \notin Range(handing[d])
    BY <1>2, Zenon DEF DemuxInv, Queued
  <2>2. h \in Held
    BY <1>2 DEF Held
  <2>3. Held' = Held \ {h}
    BY <1>2, <1>3, <2>1 DEF Held
  <2> QED BY <1>1, <2>2, <2>3 DEF Parked
<1>5. \A s \in DataStreams : handed'[s] = IF s = h THEN 1 ELSE handed[s]
  BY <1>1, <1>2, <1>4 DEF DemuxInv, DemuxTypes, Placed
<1>6. DemuxTypes'
  <2>1. handing' \in [Callers -> Seq(DataStreams)] /\ \A d \in Callers : Len(handing'[d]) <= parkLimit
    BY <1>1, <1>2, <1>3 DEF DemuxInv, DemuxTypes
  <2>2. handed' \in [DataStreams -> {0, 1}]
    BY <1>1, <1>5 DEF DemuxInv, DemuxTypes
  <2> QED BY <1>1, <2>1, <2>2 DEF DemuxInv, DemuxTypes
<1>7. Queued'
  BY <1>1, <1>2, <1>3, ZenonT(60) DEF DemuxInv, Queued
<1>8. \A s \in DataStreams : Placed(s)'
  BY <1>1, <1>4, <1>5 DEF DemuxInv, DemuxTypes, Placed
<1>9. ParkedRight'
  BY <1>1, <1>4 DEF DemuxInv, ParkedRight
<1> QED BY <1>6, <1>7, <1>8, <1>9 DEF DemuxInv

\* A stream is reset as it arrives.
LEMMA CancelStep ==
    ASSUME DemuxInv, NEW s \in DataStreams, run = 0, s = acceptedN + 1, acceptedN' = s, D!Cancel(s),
           UNCHANGED <<key, handled, fetch, retired, run, handing, handed>>
    PROVE  DemuxInv'
<1>1. cancels' = [cancels EXCEPT ![s] = @ + 1] /\ UNCHANGED <<parked, parkedN>>
  BY DEF D!Cancel
<1>2. acceptedN \in Nat /\ s \in Nat /\ DataStreams \subseteq Nat
  BY DataStreamNumbers DEF DemuxInv, DemuxTypes
<1>3. Parked' = Parked /\ Held' = Held
  BY <1>1 DEF Parked, Held
<1>4. s \notin Parked /\ s \notin Held /\ run # s /\ handed[s] = 0 /\ cancels[s] = 0
  BY <1>2 DEF DemuxInv, DemuxTypes, Placed
<1>5. \A r \in DataStreams : cancels'[r] = IF r = s THEN 1 ELSE cancels[r]
  BY <1>1, <1>4 DEF DemuxInv, DemuxTypes
<1>6. \A r \in DataStreams : r <= acceptedN' <=> r <= acceptedN \/ r = s
  BY <1>2
<1>7. DemuxTypes'
  <2>1. cancels' \in [DataStreams -> {0, 1}]
    BY <1>1, <1>5 DEF DemuxInv, DemuxTypes
  <2> QED BY <1>1, <2>1 DEF DemuxInv, DemuxTypes
<1>8. \A r \in DataStreams : Placed(r)'
  BY <1>3, <1>4, <1>5, <1>6 DEF DemuxInv, DemuxTypes, Placed
<1>9. Queued' /\ ParkedRight'
  BY <1>1, <1>3, Zenon DEF DemuxInv, Queued, ParkedRight
<1> QED BY <1>7, <1>8, <1>9 DEF DemuxInv

\* A stream goes to the handler found for it.
LEMMA FoundStep ==
    ASSUME DemuxInv, NEW s \in DataStreams, run = 0, s = acceptedN + 1, acceptedN' = s, run' = s,
           UNCHANGED <<key, handled, fetch, parked, parkedN, retired, handing, handed,
                       cancels>>
    PROVE  DemuxInv'
<1>1. acceptedN \in Nat /\ s \in Nat \ {0} /\ DataStreams \subseteq Nat
  BY DataStreamNumbers DEF DemuxInv, DemuxTypes
<1>2. Parked' = Parked /\ Held' = Held
  BY DEF Parked, Held
<1>3. s \notin Parked /\ s \notin Held /\ handed[s] = 0 /\ cancels[s] = 0
  BY <1>1 DEF DemuxInv, DemuxTypes, Placed
<1>4. \A r \in DataStreams : (r <= acceptedN' <=> r <= acceptedN \/ r = s) /\ run # r
  BY <1>1, DataStreamNumbers
<1>5. \A r \in DataStreams : Placed(r)'
  BY <1>2, <1>3, <1>4 DEF DemuxInv, DemuxTypes, Placed
<1>6. DemuxTypes'
  BY DEF DemuxInv, DemuxTypes
<1>7. Queued' /\ ParkedRight'
  BY <1>1, <1>2, SMTT(60) DEF DemuxInv, Queued, ParkedRight
<1> QED BY <1>5, <1>6, <1>7 DEF DemuxInv

\* A stream is parked, the oldest of its alias reset to make room.
LEMMA ParkStep ==
    ASSUME DemuxInv, NEW s \in DataStreams, run = 0, s = acceptedN + 1, acceptedN' = s,
           key[s] \in DemuxAliases, key[s] \notin handled, D!parkLocked(s, key[s]),
           UNCHANGED <<key, handled, fetch, retired, run, handing, handed>>
    PROVE  DemuxInv'
<1>1. CASE key[s] \in retired \/ parkedN >= parkTotalLimit
  <2>1. D!Cancel(s)
    BY <1>1 DEF D!parkLocked
  <2> QED BY <2>1, CancelStep
<1>2. CASE ~(key[s] \in retired \/ parkedN >= parkTotalLimit)
  <2> DEFINE a == key[s]  q == Append(parked[a], s)
  <2>1. /\ parked' = [parked EXCEPT ![a] = IF Len(q) > parkLimit THEN Tail(q) ELSE q]
        /\ parkedN' = IF Len(q) > parkLimit THEN parkedN ELSE parkedN + 1
        /\ cancels' = IF Len(q) > parkLimit THEN [cancels EXCEPT ![Head(q)] = @ + 1] ELSE cancels
    BY <1>2 DEF D!parkLocked
  <2>2. acceptedN \in Nat /\ s \in Nat \ {0} /\ DataStreams \subseteq Nat \ {0} /\ parkedN \in Int
    BY DataStreamNumbers DEF DemuxInv, DemuxTypes
  <2>3. s \notin Parked /\ s \notin Held /\ handed[s] = 0 /\ cancels[s] = 0
    BY <2>2 DEF DemuxInv, DemuxTypes, Placed
  <2>4. a \in DemuxAliases /\ parked[a] \in Seq(DataStreams) /\ Distinct(parked[a])
        /\ Len(parked[a]) <= parkLimit /\ Len(parked[a]) \in Nat
    BY DEF DemuxInv, DemuxTypes, Queued
  <2>5. s \notin Range(parked[a])
    BY <2>3, <2>4 DEF Parked
  <2>6. /\ q \in Seq(DataStreams) /\ Range(q) = Range(parked[a]) \union {s}
        /\ Len(q) = Len(parked[a]) + 1 /\ Distinct(q) /\ q # <<>>
    <3>1. /\ q \in Seq(DataStreams) /\ Range(q) = Range(parked[a]) \union {s}
          /\ Len(q) = Len(parked[a]) + 1 /\ Distinct(q)
      BY <2>4, <2>5, RangeAppend
    <3>2. Len(q) # 0
      BY <2>4, <3>1
    <3>3. q # <<>>
      BY <3>2, EmptyRange, Zenon
    <3> QED BY <3>1, <3>3
  <2>7. Held' = Held
    BY DEF Held
  <2>8. \A r \in DataStreams : (r <= acceptedN' <=> r <= acceptedN \/ r = s) /\ run # r
    BY <2>2, DataStreamNumbers
  <2>9. IsFiniteSet(Parked) /\ Cardinality(Parked \union {s}) = Cardinality(Parked) + 1
    BY <2>3, ParkedFinite, FS_AddElement, Zenon
  <2>10. \A b \in DemuxAliases \ {a} : Range(parked[b]) \intersect Range(q) = {}
    <3>1. \A r \in Range(q) : key[r] = a
      BY <2>4, <2>6 DEF DemuxInv, Queued
    <3> QED BY <3>1 DEF DemuxInv, Queued
  <2> HIDE DEF q, a
  <2>11. CASE Len(q) > parkLimit
    <3>1. PICK h \in DataStreams :
            /\ h = Head(q) /\ h \notin Range(Tail(q)) /\ Range(q) = Range(Tail(q)) \union {h}
            /\ Tail(q) \in Seq(DataStreams) /\ Distinct(Tail(q)) /\ Len(Tail(q)) = Len(q) - 1
      BY <2>6, RangeTail, Zenon
    <3>2. \A b \in DemuxAliases : parked'[b] = IF b = a THEN Tail(q) ELSE parked[b]
      BY <2>1, <2>11 DEF DemuxInv, DemuxTypes
    <3>3. h \in Parked \union {s} /\ Parked' = (Parked \union {s}) \ {h}
      <4>1. \A b \in DemuxAliases \ {a} : h \notin Range(parked[b])
        BY <2>10, <3>1
      <4>2. h \in Parked \union {s}
        BY <2>4, <2>6, <3>1 DEF Parked
      <4>3. Parked' = (Parked \union {s}) \ {h}
        BY <2>4, <2>6, <3>1, <3>2, <4>1 DEF Parked
      <4> QED BY <4>2, <4>3
    <3>4. Cardinality(Parked') = Cardinality(Parked)
      <4>1. IsFiniteSet(Parked \union {s})
        BY <2>9, FS_AddElement
      <4>2. Cardinality((Parked \union {s}) \ {h}) = Cardinality(Parked \union {s}) - 1
        BY <3>3, <4>1, FS_RemoveElement, Zenon
      <4> QED BY <2>9, <3>3, <4>2, ParkedFinite
    <3>5. cancels[h] = 0 /\ handed[h] = 0 /\ h \notin Held /\ run # h
      BY <2>2, <2>3, <3>3, DataStreamNumbers DEF DemuxInv, Placed
    <3>6. \A r \in DataStreams : cancels'[r] = IF r = h THEN 1 ELSE cancels[r]
      BY <2>1, <2>11, <3>1, <3>5 DEF DemuxInv, DemuxTypes
    <3>7. DemuxTypes'
      <4>1. parked' \in [DemuxAliases -> Seq(DataStreams)]
        BY <2>1, <2>11, <3>1, Zenon DEF DemuxInv, DemuxTypes
      <4>2. \A b \in DemuxAliases : Len(parked'[b]) <= parkLimit
        <5>1. Len(Tail(q)) <= parkLimit
          BY <2>4, <2>6, <3>1, DemuxAssumption
        <5> QED BY <3>2, <5>1, Zenon DEF DemuxInv, DemuxTypes
      <4>3. cancels' \in [DataStreams -> {0, 1}] /\ parkedN' = parkedN
        BY <2>1, <2>11, <3>6, Zenon DEF DemuxInv, DemuxTypes
      <4> QED BY <4>1, <4>2, <4>3 DEF DemuxInv, DemuxTypes
    <3>8. Queued'
      <4>1. \A r \in Range(Tail(q)) : key[r] = a
        BY <2>4, <2>6, <3>1 DEF DemuxInv, Queued, a
      <4> QED BY <3>1, <3>2, <4>1, Zenon DEF DemuxInv, Queued
    <3>9. \A r \in DataStreams : Placed(r)'
      BY <2>3, <2>7, <2>8, <3>3, <3>5, <3>6 DEF DemuxInv, DemuxTypes, Placed
    <3>10. ParkedRight'
      <4>1. a \notin handled \union retired
        BY <1>2 DEF a
      <4>2. parkedN' = parkedN
        BY <2>1, <2>11
      <4> QED BY <3>2, <3>4, <4>1, <4>2 DEF DemuxInv, ParkedRight
    <3> QED BY <3>7, <3>8, <3>9, <3>10 DEF DemuxInv
  <2>12. CASE ~(Len(q) > parkLimit)
    <3>1. \A b \in DemuxAliases : parked'[b] = IF b = a THEN q ELSE parked[b]
      BY <2>1, <2>12, SMTT(60) DEF DemuxInv, DemuxTypes
    <3>2. Parked' = Parked \union {s}
      BY <2>4, <2>6, <3>1 DEF Parked
    <3>3. DemuxTypes'
      <4>1. parked' \in [DemuxAliases -> Seq(DataStreams)]
        BY <2>1, <2>6, <2>12, Zenon DEF DemuxInv, DemuxTypes
      <4>2. \A b \in DemuxAliases : Len(parked'[b]) <= parkLimit
        <5>1. Len(q) <= parkLimit
          BY <2>4, <2>6, <2>12, DemuxAssumption
        <5> QED BY <3>1, <5>1, Zenon DEF DemuxInv, DemuxTypes
      <4>3. cancels' = cancels /\ parkedN' \in Int
        BY <2>1, <2>2, <2>12
      <4> QED BY <4>1, <4>2, <4>3 DEF DemuxInv, DemuxTypes
    <3>4. Queued'
      <4>1. \A r \in Range(q) : key[r] = a
        BY <2>4, <2>6 DEF DemuxInv, Queued, a
      <4> QED BY <2>6, <3>1, <4>1, Zenon DEF DemuxInv, Queued
    <3>5. cancels' = cancels
      BY <2>1, <2>12
    <3>6. \A r \in DataStreams : Placed(r)'
      BY <2>3, <2>7, <2>8, <3>2, <3>5 DEF DemuxInv, DemuxTypes, Placed
    <3>7. ParkedRight'
      <4>1. a \notin handled \union retired
        BY <1>2 DEF a
      <4>2. parkedN' = parkedN + 1 /\ parkedN < parkTotalLimit
        BY <1>2, <2>1, <2>2, <2>12, DemuxAssumption
      <4>3. parkedN' = Cardinality(Parked') /\ parkedN' <= parkTotalLimit
        BY <2>2, <2>9, <3>2, <4>2, DemuxAssumption DEF DemuxInv, ParkedRight
      <4> QED BY <3>1, <4>1, <4>3 DEF DemuxInv, ParkedRight
    <3> QED BY <3>3, <3>4, <3>6, <3>7 DEF DemuxInv
  <2> QED BY <2>11, <2>12, SMTT(60)
<1> QED BY <1>1, <1>2

\* Run hands its stream over.
LEMMA RunHandsStep ==
    ASSUME DemuxInv, D!RunHands
    PROVE  DemuxInv'
<1>1. PICK s \in DataStreams : s = run
  BY DEF D!RunHands
<1>2. /\ handed' = [handed EXCEPT ![s] = @ + 1] /\ run' = 0
      /\ UNCHANGED <<key, handled, fetch, parked, parkedN, retired, acceptedN, handing,
                     cancels>>
  BY <1>1 DEF D!RunHands
<1>3. Parked' = Parked /\ Held' = Held
  BY <1>2 DEF Parked, Held
<1>4. \A r \in DataStreams : r # 0
  BY DataStreamNumbers
<1>5. \A r \in DataStreams : handed'[r] = IF r = s THEN 1 ELSE handed[r]
  BY <1>1, <1>2 DEF DemuxInv, DemuxTypes, Placed
<1>6. \A r \in DataStreams : Placed(r)'
  BY <1>1, <1>2, <1>3, <1>4, <1>5 DEF DemuxInv, DemuxTypes, Placed
<1>7. DemuxTypes'
  <2>1. handed' \in [DataStreams -> {0, 1}]
    BY <1>2, <1>5 DEF DemuxInv, DemuxTypes
  <2> QED BY <1>2, <2>1 DEF DemuxInv, DemuxTypes
<1>8. run' # -1
  BY <1>2, SMTT(60)
<1>9. Queued' /\ ParkedRight'
  BY <1>2, <1>3, <1>8, Zenon DEF DemuxInv, Queued, ParkedRight
<1> QED BY <1>6, <1>7, <1>9 DEF DemuxInv

\* Run returns and resets every stream still parked.
LEMMA RunEndsStep ==
    ASSUME DemuxInv, D!RunEnds
    PROVE  DemuxInv'
<1>1. /\ run = 0 /\ run' = -1 /\ parkedN' = 0 /\ parked' = [a \in DemuxAliases |-> <<>>]
      /\ cancels' = [s \in DataStreams |-> IF s \in Parked THEN cancels[s] + 1 ELSE cancels[s]]
      /\ UNCHANGED <<key, handled, fetch, retired, acceptedN, handing, handed>>
  BY DemuxLibrary DEF D!RunEnds, Parked
<1>2. Parked' = {} /\ Held' = Held
  BY <1>1, EmptyRange DEF Parked, Held
<1>3. \A s \in DataStreams : cancels'[s] = IF s \in Parked THEN 1 ELSE cancels[s]
  BY <1>1 DEF DemuxInv, DemuxTypes, Placed
<1>4. \A s \in DataStreams : s # 0 /\ s # -1
  BY DataStreamNumbers
<1>5. DemuxTypes'
  <2>1. /\ parked' \in [DemuxAliases -> Seq(DataStreams)]
        /\ \A b \in DemuxAliases : Len(parked'[b]) <= parkLimit
    BY <1>1, EmptyRange, DemuxAssumption
  <2>2. cancels' \in [DataStreams -> {0, 1}]
    BY <1>1, <1>3 DEF DemuxInv, DemuxTypes
  <2> QED BY <1>1, <2>1, <2>2 DEF DemuxInv, DemuxTypes
<1>6. Queued'
  BY <1>1, EmptyRange DEF DemuxInv, Queued
<1>7. \A s \in DataStreams : Placed(s)'
  BY <1>1, <1>2, <1>3, <1>4 DEF DemuxInv, DemuxTypes, Placed
<1>8. ParkedRight'
  BY <1>1, <1>2, FS_EmptySet, DemuxAssumption DEF ParkedRight
<1> QED BY <1>5, <1>6, <1>7, <1>8 DEF DemuxInv

\* At first nothing was accepted.
LEMMA DemuxInit == D!Init => DemuxInv
<1> SUFFICES ASSUME D!Init PROVE DemuxInv
  OBVIOUS
<1>1. Parked = {} /\ Held = {}
  BY EmptyRange DEF D!Init, Parked, Held
<1>2. \A s \in DataStreams : s \in Nat /\ s # 0 /\ ~(s <= 0)
  BY DataStreamNumbers
<1>3. DemuxTypes
  BY EmptyRange, DemuxAssumption DEF D!Init, DemuxTypes
<1>4. Queued
  BY EmptyRange DEF D!Init, Queued
<1>5. \A s \in DataStreams : Placed(s)
  BY <1>1, <1>2 DEF D!Init, Placed
<1>6. ParkedRight
  BY <1>1, FS_EmptySet, DemuxAssumption DEF D!Init, ParkedRight
<1> QED BY <1>3, <1>4, <1>5, <1>6 DEF DemuxInv

\* Every step of Run and of the handlers' registration keeps the invariant.
LEMMA DemuxStep == DemuxInv /\ [D!Next]_D!vars => DemuxInv'
<1> SUFFICES ASSUME DemuxInv, [D!Next]_D!vars PROVE DemuxInv'
  BY SMTT(60)
<1>1. CASE UNCHANGED D!vars
  BY <1>1 DEF D!vars, DemuxInv, DemuxTypes, Queued, Placed, ParkedRight, Parked, Held
<1>2. ASSUME NEW a \in DemuxAliases, D!Unregister(a) PROVE DemuxInv'
  BY <1>2, UnregisterAliasStep
<1>3. ASSUME NEW a \in DemuxAliases, NEW c \in Callers, D!Register(c, a) PROVE DemuxInv'
  BY <1>3, RegisterAliasStep
<1>4. ASSUME NEW c \in Callers, D!HandOver(c) PROVE DemuxInv'
  BY <1>4, HandOverStep
<1>5. ASSUME NEW f \in FetchIDs, NEW on \in BOOLEAN, D!HandleFetch(f, on) PROVE DemuxInv'
  <2>1. /\ fetch' \subseteq FetchIDs
        /\ UNCHANGED <<key, handled, parked, parkedN, retired, run, acceptedN, handing,
                       handed, cancels>>
    BY <1>5 DEF D!HandleFetch, DemuxInv, DemuxTypes
  <2>2. Parked' = Parked /\ Held' = Held
    BY <2>1 DEF Parked, Held
  <2>3. DemuxTypes' /\ Queued'
    BY <2>1, SMTT(60) DEF DemuxInv, DemuxTypes, Queued
  <2>4. (\A s \in DataStreams : Placed(s)') /\ ParkedRight'
    BY <2>1, <2>2 DEF DemuxInv, Placed, ParkedRight
  <2> QED BY <2>3, <2>4 DEF DemuxInv
<1>6. ASSUME NEW s \in DataStreams, D!AcceptSubgroup(s) PROVE DemuxInv'
  <2>1. CASE key[s] \in handled
    BY <1>6, <2>1, FoundStep DEF D!AcceptSubgroup
  <2>2. CASE key[s] \notin handled
    BY <1>6, <2>2, ParkStep DEF D!AcceptSubgroup
  <2> QED BY <2>1, <2>2
<1>7. ASSUME NEW s \in DataStreams, NEW u \in BOOLEAN, D!AcceptFetch(s, u) PROVE DemuxInv'
  <2>1. CASE key[s] \in fetch \/ u
    BY <1>7, <2>1, FoundStep DEF D!AcceptFetch
  <2>2. CASE ~(key[s] \in fetch \/ u)
    BY <1>7, <2>2, CancelStep DEF D!AcceptFetch
  <2> QED BY <2>1, <2>2
<1>8. CASE D!RunHands
  BY <1>8, RunHandsStep
<1>9. CASE D!RunEnds
  BY <1>9, RunEndsStep
<1> QED BY <1>1, <1>2, <1>3, <1>4, <1>5, <1>6, <1>7, <1>8, <1>9 DEF D!Next

\* A stream in one place is counted once.
LEMMA DemuxSafe == DemuxInv => StreamsPlaced
<1> SUFFICES ASSUME DemuxInv PROVE StreamsPlaced
  OBVIOUS
<1>1. PICK n \in Nat : DataStreams = 1..n
  BY DataStreamsAssumption, FS_CardinalityType
<1>2. Cardinality(DataStreams) = n
  BY <1>1, FS_Interval
<1>3. D!TypeOK
  <2>1. acceptedN \in 0..D!Cardinality(DataStreams)
    BY <1>1, <1>2, DemuxLibrary, SMTT(60) DEF DemuxInv, DemuxTypes
  <2>2. parkedN \in 0..parkTotalLimit
    BY ParkedFinite, DemuxAssumption DEF DemuxInv, ParkedRight
  <2>3. 0..1 = {0, 1}
    OBVIOUS
  <2> QED BY <2>1, <2>2, <2>3 DEF D!TypeOK, DemuxInv, DemuxTypes
<1>4. D!OnePlace
  <2> SUFFICES ASSUME NEW s \in DataStreams PROVE D!Where(s) = IF s <= acceptedN THEN 1 ELSE 0
    BY DEF D!OnePlace
  <2> DEFINE As == {a \in DemuxAliases : s \in Range(parked[a])}
             Cs == {c \in Callers : s \in Range(handing[c])}
  <2>1. Cardinality(As) = IF s \in Parked THEN 1 ELSE 0
    <3>1. \A a, b \in As : a = b
      BY DEF DemuxInv, Queued
    <3>2. As = {} <=> s \notin Parked
      BY DEF Parked
    <3> HIDE DEF As
    <3> QED BY <3>1, <3>2, AtMostOne
  <2>2. Cardinality(Cs) = IF s \in Held THEN 1 ELSE 0
    <3>1. \A a, b \in Cs : a = b
      BY DEF DemuxInv, Queued
    <3>2. Cs = {} <=> s \notin Held
      BY DEF Held
    <3> HIDE DEF Cs
    <3> QED BY <3>1, <3>2, AtMostOne
  <2>3. D!Where(s) = Cardinality(As) + Cardinality(Cs)
                     + (IF run = s THEN 1 ELSE 0) + handed[s] + cancels[s]
    BY DemuxLibrary, Zenon DEF D!Where
  <2>4. handed[s] \in {0, 1} /\ cancels[s] \in {0, 1}
    BY DEF DemuxInv, DemuxTypes
  <2> HIDE DEF As, Cs
  <2> QED BY <2>1, <2>2, <2>3, <2>4 DEF DemuxInv, Placed
<1>5. D!ParkedCounted
  <2>1. UNION {Range(parked[a]) : a \in DemuxAliases} = Parked
    BY DEF Parked, DemuxInv, DemuxTypes, Range
  <2>2. UNION {D!Range(parked[a]) : a \in DemuxAliases} = Parked
    BY <2>1, DemuxLibrary
  <2> QED BY <2>2, DemuxLibrary, Zenon DEF D!ParkedCounted, DemuxInv, ParkedRight
<1>6. D!ParkedIsEarly
  BY DEF D!ParkedIsEarly, DemuxInv, ParkedRight
<1> QED BY <1>3, <1>4, <1>5, <1>6 DEF StreamsPlaced, D!StreamsPlaced

\* However many streams come, and whatever handlers come and go while they are
\* read, parked, evicted and handed over, each is in one place, and the parked
\* ones are exactly counted (Run, dispatch, parkLocked, HandleTrack).
THEOREM StreamsPlacedHolds == D!Spec => []StreamsPlaced
<1>1. DemuxInv /\ [D!Next]_D!vars => DemuxInv'
  BY DemuxStep
<1> QED BY DemuxInit, DemuxSafe, <1>1, PTL DEF D!Spec
----------------------------------------------------------------------------
(* FetchRouter. *)
CONSTANT RouterStreams

VARIABLES pending, box, req, del, timers, fate

Q == INSTANCE FetchRouter WITH Streams <- RouterStreams

\* A rendezvous keeps the stream brought to it while it is awaited, and leaves
\* no entry behind in the router's map (fetch_router.go).
RendezvousKept == Q!TypeOK /\ Q!RendezvousKept

\* chanLocked keeps the channels that exist and makes an empty one when the map
\* has none.
LEMMA ChanMade ==
    ASSUME Q!Types, Q!chanLocked
    PROVE  /\ box' \in Seq(RouterStreams \cup {Q!None}) /\ Len(box') \in Nat /\ Len(box') >= Len(box)
           /\ pending' \in 1..Len(box')
           /\ \A ch \in DOMAIN box : ch \in DOMAIN box' /\ box'[ch] = box[ch]
           /\ \A ch \in DOMAIN box' : ch \in DOMAIN box \/ box'[ch] = Q!None
           /\ pending # 0 => pending' = pending
           /\ pending = 0 => pending' \notin DOMAIN box /\ box'[pending'] = Q!None
<1>1. CASE pending = 0
  <2>1. box' = Append(box, Q!None) /\ pending' = Len(box) + 1
    BY <1>1 DEF Q!chanLocked, Q!created
  <2> QED BY <1>1, <2>1 DEF Q!Types
<1>2. CASE pending # 0
  <2>1. box' = box /\ pending' = pending
    BY <1>2 DEF Q!chanLocked, Q!created
  <2> QED BY <1>2, <2>1 DEF Q!Types
<1> QED BY <1>1, <1>2

\* The requester registers, on a channel it makes or finds.
LEMMA RegisterStep ==
    ASSUME Q!RouterInv, Q!Register
    PROVE  Q!RouterInv'
<1> USE DEF Q!Register
<1>1. /\ box' \in Seq(RouterStreams \cup {Q!None}) /\ Len(box') \in Nat /\ Len(box') >= Len(box)
      /\ pending' \in 1..Len(box')
      /\ \A ch \in DOMAIN box : ch \in DOMAIN box' /\ box'[ch] = box[ch]
      /\ \A ch \in DOMAIN box' : ch \in DOMAIN box \/ box'[ch] = Q!None
  BY ChanMade DEF Q!RouterInv
<1>2. Q!Types'
  BY <1>1, SMTT(60) DEF Q!RouterInv, Q!Types
<1>3. Q!Progress'
  BY <1>1, <1>2 DEF Q!RouterInv, Q!Types, Q!Progress
<1>4. Q!Owned'
  BY <1>1 DEF Q!RouterInv, Q!Types, Q!Progress, Q!Owned
<1>5. Q!ResetFor'
  BY DEF Q!RouterInv, Q!Types, Q!ResetFor
<1> QED BY <1>2, <1>3, <1>4, <1>5, SMTT(60) DEF Q!RouterInv

\* A response stream looks its channel up, and owns the one it makes.
LEMMA LookStep ==
    ASSUME Q!RouterInv, NEW s \in RouterStreams, Q!DeliverLook(s)
    PROVE  Q!RouterInv'
<1>1. /\ box' \in Seq(RouterStreams \cup {Q!None}) /\ Len(box') \in Nat /\ Len(box') >= Len(box)
      /\ pending' \in 1..Len(box')
      /\ \A ch \in DOMAIN box : ch \in DOMAIN box' /\ box'[ch] = box[ch]
      /\ \A ch \in DOMAIN box' : ch \in DOMAIN box \/ box'[ch] = Q!None
      /\ pending # 0 => pending' = pending
      /\ pending = 0 => box'[pending'] = Q!None
  BY ChanMade DEF Q!RouterInv, Q!DeliverLook
<1>2. /\ del' = [del EXCEPT ![s] = [pc |-> "looked", ch |-> pending', created |-> (pending = 0)]]
      /\ UNCHANGED <<req, timers, fate>>
      /\ del[s].pc = "absent" /\ \A d \in RouterStreams : del[d].pc # "looked"
  BY DEF Q!DeliverLook, Q!created
<1>3. /\ del'[s].pc = "looked" /\ del'[s].ch = pending' /\ del'[s].created = (pending = 0)
      /\ \A d \in RouterStreams : d # s => del'[d] = del[d]
      /\ \A d \in RouterStreams : del[d].pc = "sent" => d # s
  BY <1>2, SMTT(60) DEF Q!RouterInv, Q!Types
<1>4. Q!Types'
  BY <1>1, <1>2, SMTT(60) DEF Q!RouterInv, Q!Types
<1>5. Q!Progress'
  <2>1. \A ch \in DOMAIN box' : box'[ch] # Q!None =>
           del'[box'[ch]].pc = "sent" /\ del'[box'[ch]].ch = ch /\ fate'[box'[ch]] = Q!None
    <3> SUFFICES ASSUME NEW ch \in DOMAIN box', box'[ch] # Q!None
                 PROVE  del'[box'[ch]].pc = "sent" /\ del'[box'[ch]].ch = ch /\ fate'[box'[ch]] = Q!None
      OBVIOUS
    <3>1. ch \in DOMAIN box /\ box'[ch] = box[ch]
      BY <1>1
    <3>2. /\ box[ch] \in RouterStreams /\ del[box[ch]].pc = "sent" /\ del[box[ch]].ch = ch
          /\ fate[box[ch]] = Q!None
      BY <3>1, SMTT(60) DEF Q!RouterInv, Q!Types, Q!Progress
    <3> QED BY <1>2, <1>3, <3>1, <3>2, SMTT(60)
  <2>2. \A d \in RouterStreams : /\ del'[d].pc = "absent" <=> del'[d].ch = 0
                                 /\ fate'[d] # Q!None => del'[d].pc = "sent"
    <3>1. pending' # 0
      BY <1>1
    <3>2. \A d \in RouterStreams : del'[d].pc = "absent" <=> del'[d].ch = 0
      BY <1>3, <3>1, SMTT(60) DEF Q!RouterInv, Q!Progress
    <3>3. \A d \in RouterStreams : fate'[d] # Q!None => del'[d].pc = "sent"
      BY <1>2, <1>3, SMTT(60) DEF Q!RouterInv, Q!Progress
    <3> QED BY <3>2, <3>3
  <2>3. \A c, d \in RouterStreams : del'[c].pc = "looked" /\ del'[d].pc = "looked" => c = d
    BY <1>2, <1>3, SMTT(60)
  <2>4. /\ req'.pc = "issued" => req'.ch = 0
        /\ req'.pc \in {"waiting", "taken", "gaveUp", "removed"} => req'.ch # 0
    BY <1>2 DEF Q!RouterInv, Q!Progress
  <2> QED BY <2>1, <2>2, <2>3, <2>4, SMTT(60) DEF Q!Progress
<1>6. Q!Owned'
  <2>1. \A d \in RouterStreams : del'[d].pc = "looked" /\ del'[d].created => box'[del'[d].ch] = Q!None
    BY <1>1, <1>2, <1>3, ZenonT(60)
  <2>2. CASE pending = 0
    BY <1>3, <2>1, <2>2, Zenon DEF Q!Owned
  <2>3. CASE pending # 0
    <3>1. pending' = pending
      BY <1>1, <2>3
    <3>2. \/ req.ch = pending /\ req.pc \in {"waiting", "taken", "gaveUp"}
          \/ \E t \in timers : ~t.deleted /\ t.ch = pending
      BY <1>2, <2>3 DEF Q!RouterInv, Q!Owned
    <3>3. \/ req'.ch = pending' /\ req'.pc \in {"waiting", "taken", "gaveUp"}
          \/ \E t \in timers' : ~t.deleted /\ t.ch = pending'
      BY <1>2, <3>1, <3>2
    <3> QED BY <2>1, <3>3, Zenon DEF Q!Owned
  <2> QED BY <2>2, <2>3
<1>7. Q!ResetFor'
  BY <1>2, <1>3 DEF Q!RouterInv, Q!Progress, Q!ResetFor, Q!None
<1> QED BY <1>4, <1>5, <1>6, <1>7, SMTT(60) DEF Q!RouterInv

\* The stream is parked, under a timer if its Deliver made the channel, or is
\* reset for the one that is parked there.
LEMMA SendStep ==
    ASSUME Q!RouterInv, NEW s \in RouterStreams, Q!DeliverSend(s)
    PROVE  Q!RouterInv'
<1>1. PICK ch \in DOMAIN box : ch = del[s].ch
  BY DEF Q!RouterInv, Q!Types, Q!Progress, Q!DeliverSend
<1>2. /\ del[s].pc = "looked" /\ del' = [del EXCEPT ![s].pc = "sent"]
      /\ UNCHANGED <<pending, req>>
  BY DEF Q!DeliverSend
<1>3. /\ del'[s].pc = "sent" /\ del'[s].ch = ch /\ del'[s].created = del[s].created
      /\ \A d \in RouterStreams : d # s => del'[d] = del[d]
      /\ \A d \in RouterStreams : del'[d].ch = del[d].ch /\ del'[d].created = del[d].created
      /\ \A d \in RouterStreams : del[d].pc = "sent" => del'[d].pc = "sent"
      /\ \A d \in RouterStreams : del'[d].pc # "looked"
      /\ fate[s] = Q!None
  BY <1>1, <1>2 DEF Q!RouterInv, Q!Types, Q!Progress
<1>4. CASE box[ch] = Q!None /\ box' = [box EXCEPT ![ch] = s] /\ Q!Arm(s) /\ UNCHANGED fate
  <2>1. /\ timers' = IF del[s].created THEN timers \cup {[ch |-> ch, deleted |-> FALSE]} ELSE timers
    BY <1>1, <1>4 DEF Q!Arm
  <2>2. Q!Types'
    <3>1. box' \in Seq(RouterStreams \cup {Q!None}) /\ Len(box') = Len(box) /\ Len(box) \in Nat
      BY <1>4 DEF Q!RouterInv, Q!Types
    <3>2. timers' \subseteq [ch : 1..Len(box), deleted : BOOLEAN]
      <4>1. [ch |-> ch, deleted |-> FALSE] \in [ch : 1..Len(box), deleted : BOOLEAN]
        BY <3>1 DEF Q!RouterInv, Q!Types
      <4> QED BY <2>1, <4>1, Zenon DEF Q!RouterInv, Q!Types
    <3>3. del' \in [RouterStreams -> [pc : {"absent", "looked", "sent"}, ch : 0..Len(box), created : BOOLEAN]]
      BY <1>2, ZenonT(60) DEF Q!RouterInv, Q!Types
    <3> QED BY <1>2, <1>4, <3>1, <3>2, <3>3 DEF Q!RouterInv, Q!Types
  <2>3. Q!Progress'
    BY <1>1, <1>2, <1>3, <1>4 DEF Q!RouterInv, Q!Types, Q!Progress
  <2>4. Q!Owned'
    <3>1. timers \subseteq timers' /\ (del[s].created => [ch |-> ch, deleted |-> FALSE] \in timers')
      BY <2>1
    <3>2. \A d \in RouterStreams : del[d].pc = "looked" => d = s
      BY <1>2 DEF Q!RouterInv, Q!Progress
    <3>3. del[s].created /\ pending = ch => \E t \in timers' : ~t.deleted /\ t.ch = pending
      BY <3>1, SMTT(60)
    <3> QED BY <1>1, <1>2, <1>3, <3>1, <3>2, <3>3, SMTT(60) DEF Q!RouterInv, Q!Owned
  <2>5. Q!ResetFor'
    <3>1. \A t \in timers' : \E d \in RouterStreams : del'[d].pc = "sent" /\ del'[d].created /\ del'[d].ch = t.ch
      BY <1>3, <2>1 DEF Q!RouterInv, Q!ResetFor
    <3>2. \A d \in RouterStreams : fate'[d] = "reset" /\ ~del'[d].created =>
             \/ req'.pc = "done"
             \/ \E e \in RouterStreams \ {d} : del'[e].pc = "sent" /\ del'[e].ch = del'[d].ch
      BY <1>2, <1>3, <1>4, SMTT(60) DEF Q!RouterInv, Q!ResetFor
    <3> QED BY <3>1, <3>2, SMTT(60) DEF Q!ResetFor
  <2> QED BY <2>2, <2>3, <2>4, <2>5, SMTT(60) DEF Q!RouterInv
<1>5. CASE box[ch] # Q!None /\ fate' = [fate EXCEPT ![s] = "reset"] /\ UNCHANGED <<box, timers>>
  <2>1. Q!Types'
    BY <1>2, <1>5, SMTT(60) DEF Q!RouterInv, Q!Types
  <2>2. Q!Progress'
    BY <1>1, <1>2, <1>3, <1>5 DEF Q!RouterInv, Q!Types, Q!Progress
  <2>3. ~del[s].created
    BY <1>1, <1>2, <1>5 DEF Q!RouterInv, Q!Owned
  <2>4. Q!Owned'
    BY <1>2, <1>3, <1>5, <2>3, SMTT(60) DEF Q!RouterInv, Q!Owned
  <2>5. Q!ResetFor'
    <3>1. \A t \in timers' : \E d \in RouterStreams : del'[d].pc = "sent" /\ del'[d].created /\ del'[d].ch = t.ch
      BY <1>3, <1>5 DEF Q!RouterInv, Q!ResetFor
    <3>2. box[ch] \in RouterStreams \ {s} /\ del'[box[ch]].pc = "sent" /\ del'[box[ch]].ch = ch
      BY <1>2, <1>3, <1>5 DEF Q!RouterInv, Q!Types, Q!Progress
    <3>3. \A d \in RouterStreams : fate'[d] = "reset" /\ ~del'[d].created =>
             \/ req'.pc = "done"
             \/ \E e \in RouterStreams \ {d} : del'[e].pc = "sent" /\ del'[e].ch = del'[d].ch
      BY <1>2, <1>3, <1>5, <3>2, SMTT(60) DEF Q!RouterInv, Q!Types, Q!ResetFor
    <3> QED BY <3>1, <3>3 DEF Q!ResetFor
  <2> QED BY <2>1, <2>2, <2>4, <2>5 DEF Q!RouterInv
<1> QED BY <1>1, <1>4, <1>5 DEF Q!DeliverSend

\* The requester's other steps: what it drains, it drains when done.
LEMMA RequesterStep ==
    ASSUME Q!RouterInv,
           Q!FetchFailed \/ Q!Take \/ Q!GiveUp \/ Q!CleanupRemove \/ Q!CleanupDrain
    PROVE  Q!RouterInv'
<1>1. CASE Q!FetchFailed
  BY <1>1 DEF Q!RouterInv, Q!Types, Q!Progress, Q!Owned, Q!ResetFor, Q!FetchFailed
<1>2. CASE Q!Take
  <2>1. PICK ch \in DOMAIN box : ch = req.ch
    BY <1>2 DEF Q!RouterInv, Q!Types, Q!Progress, Q!Take
  <2>2. /\ req.pc = "waiting" /\ box[ch] # Q!None /\ fate' = [fate EXCEPT ![box[ch]] = "read"]
        /\ box' = [box EXCEPT ![ch] = Q!None] /\ req' = [req EXCEPT !.pc = "taken"]
        /\ UNCHANGED <<pending, del, timers>>
    BY <1>2, <2>1 DEF Q!Take
  <2>3. Q!Types'
    BY <2>2 DEF Q!RouterInv, Q!Types
  <2>4. Q!Progress'
    BY <2>1, <2>2 DEF Q!RouterInv, Q!Types, Q!Progress
  <2>5. Q!Owned'
    BY <2>1, <2>2 DEF Q!RouterInv, Q!Types, Q!Progress, Q!Owned
  <2>6. Q!ResetFor'
    BY <2>2 DEF Q!RouterInv, Q!Types, Q!ResetFor
  <2> QED BY <2>3, <2>4, <2>5, <2>6 DEF Q!RouterInv
<1>3. CASE Q!GiveUp
  BY <1>3 DEF Q!RouterInv, Q!Types, Q!Progress, Q!Owned, Q!ResetFor, Q!GiveUp
<1>4. CASE Q!CleanupRemove
  BY <1>4 DEF Q!RouterInv, Q!Types, Q!Progress, Q!Owned, Q!ResetFor, Q!CleanupRemove
<1>5. CASE Q!CleanupDrain
  <2>1. PICK ch \in DOMAIN box : ch = req.ch
    BY <1>5 DEF Q!RouterInv, Q!Types, Q!Progress, Q!CleanupDrain
  <2>2. /\ req.pc = "removed" /\ req' = [req EXCEPT !.pc = "done"]
        /\ fate' = IF box[ch] = Q!None THEN fate ELSE [fate EXCEPT ![box[ch]] = "reset"]
        /\ box' = [box EXCEPT ![ch] = Q!None]
        /\ UNCHANGED <<pending, del, timers>>
    BY <1>5, <2>1 DEF Q!CleanupDrain, Q!Drain
  <2>3. Q!Types'
    <3>1. box' \in Seq(RouterStreams \cup {Q!None}) /\ Len(box') = Len(box)
      BY <2>2 DEF Q!RouterInv, Q!Types
    <3>2. fate' \in [RouterStreams -> {Q!None, "read", "reset"}]
      BY <2>2 DEF Q!RouterInv, Q!Types
    <3> QED BY <2>2, <3>1, <3>2, SMTT(60) DEF Q!RouterInv, Q!Types
  <2>4. Q!Progress'
    BY <2>1, <2>2 DEF Q!RouterInv, Q!Types, Q!Progress
  <2>5. Q!Owned'
    BY <2>1, <2>2 DEF Q!RouterInv, Q!Types, Q!Progress, Q!Owned
  <2>6. Q!ResetFor'
    BY <2>2 DEF Q!RouterInv, Q!Types, Q!ResetFor
  <2> QED BY <2>3, <2>4, <2>5, <2>6 DEF Q!RouterInv
<1> QED BY <1>1, <1>2, <1>3, <1>4, <1>5, SMTT(60)

\* A grace timer: what it drains was parked by the Deliver that made its
\* channel, or was sent after that one.
LEMMA TimerStep ==
    ASSUME Q!RouterInv, NEW t \in timers, Q!TimerFires(t) \/ Q!TimerDrains(t)
    PROVE  Q!RouterInv'
<1>1. CASE Q!TimerFires(t)
  <2>1. CASE pending = t.ch /\ pending' = 0 /\ timers' = (timers \ {t}) \cup {[t EXCEPT !.deleted = TRUE]}
    <3>1. UNCHANGED <<box, req, del, fate>>
      BY <1>1 DEF Q!TimerFires
    <3>2. /\ [t EXCEPT !.deleted = TRUE] \in [ch : 1..Len(box), deleted : BOOLEAN]
          /\ [t EXCEPT !.deleted = TRUE].ch = t.ch
      BY Zenon DEF Q!RouterInv, Q!Types
    <3>3. Q!Types'
      <4>1. timers' \subseteq [ch : 1..Len(box), deleted : BOOLEAN]
        BY <2>1, <3>2, Zenon DEF Q!RouterInv, Q!Types
      <4> QED BY <2>1, <3>1, <4>1 DEF Q!RouterInv, Q!Types
    <3>4. Q!Progress' /\ Q!Owned'
      BY <2>1, <3>1 DEF Q!RouterInv, Q!Progress, Q!Owned
    <3>5. Q!ResetFor'
      BY <2>1, <3>1, <3>2, SMTT(60) DEF Q!RouterInv, Q!ResetFor
    <3> QED BY <3>3, <3>4, <3>5 DEF Q!RouterInv
  <2>2. CASE pending # t.ch /\ timers' = timers \ {t} /\ UNCHANGED pending
    <3>1. UNCHANGED <<box, req, del, fate>>
      BY <1>1 DEF Q!TimerFires
    <3> QED BY <2>2, <3>1 DEF Q!RouterInv, Q!Types, Q!Progress, Q!Owned, Q!ResetFor
  <2> QED BY <1>1, <2>1, <2>2 DEF Q!TimerFires
<1>2. CASE Q!TimerDrains(t)
  <2>1. PICK ch \in DOMAIN box : ch = t.ch
    BY DEF Q!RouterInv, Q!Types
  <2>2. /\ t.deleted /\ timers' = timers \ {t}
        /\ fate' = IF box[ch] = Q!None THEN fate ELSE [fate EXCEPT ![box[ch]] = "reset"]
        /\ box' = [box EXCEPT ![ch] = Q!None]
        /\ UNCHANGED <<pending, req, del>>
    BY <1>2, <2>1 DEF Q!TimerDrains, Q!Drain
  <2>3. Q!Types'
    BY <2>2, SMTT(60) DEF Q!RouterInv, Q!Types
  <2>4. Q!Progress'
    BY <2>1, <2>2, SMTT(60) DEF Q!RouterInv, Q!Types, Q!Progress
  <2>5. Q!Owned'
    BY <2>1, <2>2, SMTT(60) DEF Q!RouterInv, Q!Types, Q!Progress, Q!Owned
  <2>6. Q!ResetFor'
    <3>1. PICK d \in RouterStreams : del[d].pc = "sent" /\ del[d].created /\ del[d].ch = ch
      BY <2>1, SMTT(60) DEF Q!RouterInv, Q!ResetFor
    <3>2. \A s \in RouterStreams : fate'[s] = "reset" => fate[s] = "reset" \/ del[s].ch = ch
      BY <2>1, <2>2 DEF Q!RouterInv, Q!Types, Q!Progress
    <3> QED BY <2>2, <3>1, <3>2, SMTT(60) DEF Q!RouterInv, Q!ResetFor
  <2> QED BY <2>3, <2>4, <2>5, <2>6 DEF Q!RouterInv
<1> QED BY <1>1, <1>2

\* However many response streams a FETCH gets, and in whatever order they, the
\* requester and the grace timers act, a waiting requester's rendezvous keeps
\* its stream and the map's entry goes in the end (Register, Deliver).
THEOREM RendezvousKeptHolds == Q!Spec => []RendezvousKept
<1>1. Q!Init => Q!RouterInv
  BY DEF Q!Init, Q!NoDelivery, Q!RouterInv, Q!Types, Q!Progress, Q!Owned, Q!ResetFor, Q!None
<1>2. Q!RouterInv /\ [Q!Next]_Q!vars => Q!RouterInv'
  <2> SUFFICES ASSUME Q!RouterInv, [Q!Next]_Q!vars PROVE Q!RouterInv'
    OBVIOUS
  <2>1. CASE UNCHANGED Q!vars
    BY <2>1 DEF Q!vars, Q!RouterInv, Q!Types, Q!Progress, Q!Owned, Q!ResetFor
  <2>2. CASE Q!Next
    BY <2>2, RegisterStep, RequesterStep, LookStep, SendStep, TimerStep, SMTT(60) DEF Q!Next
  <2> QED BY <2>1, <2>2, SMTT(60)
<1>3. Q!RouterInv => RendezvousKept
  <2> SUFFICES ASSUME Q!RouterInv PROVE Q!TypeOK /\ Q!WaiterKeepsStream /\ Q!NoEntryLeak
    BY DEF RendezvousKept, Q!RendezvousKept
  <2>1. Q!TypeOK
    BY SMTT(60) DEF Q!RouterInv, Q!Types, Q!Progress, Q!TypeOK
  <2>2. Q!WaiterKeepsStream
    BY DEF Q!RouterInv, Q!ResetFor, Q!WaiterKeepsStream
  <2>3. Q!NoEntryLeak
    BY DEF Q!RouterInv, Q!Types, Q!Owned, Q!NoEntryLeak, Q!Quiet
  <2> QED BY <2>1, <2>2, <2>3
<1> QED BY <1>1, <1>2, <1>3, PTL DEF Q!Spec
=============================================================================
