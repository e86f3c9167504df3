--------------------- MODULE TrackLedgerAbsenceProofs ----------------------
(***************************************************************************)
(* What the ledger knew not to exist it does not forward later, for every  *)
(* window, every number of contributors and every set of Objects: whatever *)
(* the pruning drops, a Location once absent stays so for one of the       *)
(* reasons of AbsentAt, and no Fresh claim is possible at such a Location  *)
(* (AbsInv).                                                               *)
(***************************************************************************)
EXTENDS TrackLedgerProofs

\* No Object of the Group is claimed Fresh any more, or its gap has lapsed.
Settled(group) ==
    \/ group \in lapsed
    \/ \E r \in groupGaps : contains(r, group)
    \/ Full /\ group < deliveredFloor

\* A Location a held Group's entry has as received or as inside a gap.
Known(group, id) ==
    /\ Held(group)
    /\ \/ id \in delivered[group].objects
       \/ \E r \in delivered[group].objectGaps : contains(r, id)

AbsentAt(l) ==
    \/ Settled(l[1])
    \/ /\ Held(l[1])
       /\ \/ delivered[l[1]].end.set /\ l[2] >= delivered[l[1]].end.at
          \/ \E r \in delivered[l[1]].objectGaps : contains(r, l[2])

\* Where a Group ends: below its end when a FIN or a last datagram announced
\* it, which is then never 0; at its end when a status Object did, and that
\* Object is known.
EndKnown(id, e) ==
    e.set => e.at \in ID /\ IF e.hard THEN e.at >= 1 ELSE Settled(id) \/ Known(id, e.at)

\* A Location once absent stays so, and the last Object of a stream, whose FIN
\* may still end its Group, is known.
AbsInv ==
    /\ \A l \in gone : l \in ID \X ID /\ AbsentAt(l)
    /\ \A id \in DOMAIN delivered : EndKnown(id, delivered[id].end)
    /\ \A c \in Contributors : last[c] # NoObj =>
          Settled(last[c].group) \/ Known(last[c].group, last[c].object)
    /\ \A r \in groupGaps : r[1] \in Int /\ r[2] \in Int
    /\ AbsentStays

\* What carries over a step.
Carries ==
    /\ \A id \in ID : Settled(id) => Settled(id)'
    /\ \A id, n \in ID : Known(id, n) => Settled(id)' \/ Known(id, n)'
    /\ \A l \in ID \X ID : AbsentAt(l) => AbsentAt(l)'

\* It does when a held Group's entry only grows and its end only moves down.
LEMMA CarriesExtend ==
    ASSUME LedgerInv, EndsInv, NEW id \in DOMAIN delivered, NEW e, IsGroup(e),
           delivered' = [delivered EXCEPT ![id] = e],
           delivered[id].objects \subseteq e.objects,
           delivered[id].objectGaps \subseteq e.objectGaps,
           delivered[id].end.set => e.end.set /\ e.end.at <= delivered[id].end.at,
           groupGaps \subseteq groupGaps', lapsed \subseteq lapsed',
           UNCHANGED deliveredFloor
    PROVE  Carries
<1>1. DOMAIN delivered' = DOMAIN delivered
  OBVIOUS
<1>2. Full' = Full
  BY <1>1 DEF Full
<1>3. ASSUME NEW g, Settled(g) PROVE Settled(g)'
  BY <1>2, <1>3 DEF Settled
<1>4. ASSUME NEW g, NEW n, Known(g, n) PROVE Known(g, n)'
  BY <1>1, <1>4 DEF Known, Held
<1>5. ASSUME NEW l \in ID \X ID, AbsentAt(l) PROVE AbsentAt(l)'
  <2>1. CASE Settled(l[1])
    <3>1. Settled(l[1])'
      BY <1>3, <2>1
    <3> QED BY <3>1 DEF AbsentAt
  <2>2. CASE Held(l[1]) /\ \E r \in delivered[l[1]].objectGaps : contains(r, l[2])
    BY <1>1, <2>2 DEF AbsentAt, Held
  <2>3. CASE Held(l[1]) /\ delivered[l[1]].end.set /\ l[2] >= delivered[l[1]].end.at
    <3>1. CASE l[1] = id
      <4>1. /\ delivered[id].end.at \in Nat /\ e.end.at \in Nat /\ l[2] \in Nat
        BY ConstantsAssumption DEF EndsInv, IsGroup, EndType, ID
      <4>2. e.end.set /\ l[2] >= e.end.at
        BY <2>3, <3>1, <4>1
      <4> QED BY <1>1, <2>3, <3>1, <4>2 DEF AbsentAt, Held
    <3>2. CASE l[1] # id
      BY <1>1, <2>3, <3>2 DEF AbsentAt, Held
    <3> QED BY <3>1, <3>2
  <2> QED BY <1>5, <2>1, <2>2, <2>3 DEF AbsentAt
<1> QED BY <1>3, <1>4, <1>5 DEF Carries

\* It does when nothing of the ledger changes.
LEMMA CarriesSame ==
    ASSUME UNCHANGED <<delivered, deliveredFloor, groupGaps, lapsed>>
    PROVE  Carries
  BY DEF Carries, Settled, Known, AbsentAt, Held, Full

\* And when a Group is added: what its making room forgets is then below the
\* window, or lapses.
LEMMA CarriesAdd ==
    ASSUME LedgerInv, AbsInv, NEW group \in ID, NEW g,
           group \notin DOMAIN delivered, ~(Full /\ group < deliveredFloor),
           \A r \in groupGaps : ~contains(r, group),
           addDeliveredGroup(group, g),
           keptGroupGaps \subseteq groupGaps', lapsed' = lapsed \cup Lapsing(group)
    PROVE  Carries
<1> DEFINE D == DOMAIN delivered
<1>0. /\ ID \subseteq Nat /\ Window \in Nat /\ Window > 0 /\ MaxID \in ID
      /\ IsFiniteSet(D) /\ Cardinality(D) \in Nat /\ Cardinality(D) <= Window
      /\ D \subseteq ID
  BY ConstantsAssumption, FS_CardinalityType DEF ID, LedgerInv, WindowInv
<1>1. /\ DOMAIN delivered' = Kept \cup {group} /\ Kept \subseteq D
      /\ \A id \in Kept : id # group /\ delivered'[id] = delivered[id]
      /\ IsLowest(deliveredFloor', Kept \cup {group})
  BY DEF addDeliveredGroup, Kept
<1>2. CASE ~Full
  <2>1. Kept = D /\ keptGroupGaps = groupGaps
    BY <1>2 DEF Kept, Pruned, keptGroupGaps
  <2>2. ASSUME NEW id, Settled(id) PROVE Settled(id)'
    BY <1>2, <2>1, <2>2 DEF Settled
  <2>3. ASSUME NEW id, NEW n, Known(id, n) PROVE Known(id, n)'
    BY <1>1, <2>1, <2>3 DEF Known, Held
  <2>4. ASSUME NEW l \in ID \X ID, AbsentAt(l) PROVE AbsentAt(l)'
    <3>1. CASE Settled(l[1])
      <4>1. Settled(l[1])'
        BY <2>2, <3>1
      <4> QED BY <4>1 DEF AbsentAt
    <3>2. CASE ~Settled(l[1])
      BY <1>1, <2>1, <2>4, <3>2 DEF AbsentAt, Held
    <3> QED BY <3>1, <3>2
  <2> QED BY <2>2, <2>3, <2>4 DEF Carries
<1>3. CASE Full
  <2>1. Cardinality(D) = Window /\ D # {}
    BY <1>0, <1>3, FullHolds DEF Full
  <2>2. deliveredFloor \in D /\ deliveredFloor \in Nat /\ \A id \in D : deliveredFloor <= id
    BY <1>0, <2>1, Zenon DEF LedgerInv, WindowInv, IsLowest
  <2>3. Kept = D \ {deliveredFloor}
    BY <1>3 DEF Kept, Pruned
  <2>4. Full'
    <3>1. IsFiniteSet(Kept) /\ Cardinality(Kept) = Window - 1
      BY <1>0, <2>1, <2>2, <2>3, FS_RemoveElement
    <3>2. group \notin Kept
      BY <1>1
    <3>3. Cardinality(Kept \cup {group}) = Window - 1 + 1
      BY <3>1, <3>2, FS_AddElement, Zenon
    <3> QED BY <1>0, <1>1, <3>3 DEF Full
  <2>5. deliveredFloor' \in Nat /\ deliveredFloor < deliveredFloor'
    <3>1. deliveredFloor' \in Kept \cup {group}
      BY <1>1 DEF IsLowest
    <3>2. group \in Nat /\ deliveredFloor # group /\ deliveredFloor <= group
      BY <1>0, <1>3, <2>2
    <3>3. CASE deliveredFloor' = group
      BY <2>2, <3>2, <3>3
    <3>4. CASE deliveredFloor' \in Kept
      <4>1. deliveredFloor' \in D /\ deliveredFloor' # deliveredFloor
        BY <2>3, <3>4
      <4>2. deliveredFloor' \in Nat /\ deliveredFloor <= deliveredFloor'
        BY <1>0, <2>2, <4>1, Zenon
      <4> QED BY <2>2, <4>1, <4>2
    <3> QED BY <3>1, <3>3, <3>4
  <2>6. ASSUME NEW id \in ID, id <= deliveredFloor PROVE Settled(id)'
    <3>1. id \in Nat
      BY <1>0
    <3> QED BY <2>2, <2>4, <2>5, <2>6, <3>1 DEF Settled
  <2>7. ASSUME NEW id \in ID, Settled(id) PROVE Settled(id)'
    <3>0. id \in Nat /\ group \in Nat
      BY <1>0
    <3>1. CASE id \in lapsed
      BY <3>1 DEF Settled
    <3>2. CASE id < deliveredFloor
      BY <2>2, <2>6, <3>0, <3>2
    <3>3. CASE \E r \in groupGaps : contains(r, id)
      <4>1. PICK r \in groupGaps : contains(r, id)
        BY <3>3
      <4>2. CASE r \in keptGroupGaps
        BY <4>1, <4>2 DEF Settled
      <4>3. CASE r \notin keptGroupGaps /\ id > group
        BY <4>1, <4>3 DEF Settled, Lapsing
      <4>4. CASE r \notin keptGroupGaps /\ ~(id > group)
        <5>1. r[2] \in Int /\ id <= r[2] /\ id # group
          BY <4>1 DEF AbsInv, contains
        <5>2. \A x \in Kept : ~(r[2] >= x)
          BY <1>3, <4>4 DEF keptGroupGaps
        <5>3. \A x \in Kept \cup {group} : id < x
          <6> SUFFICES ASSUME NEW x \in Kept \cup {group} PROVE id < x
            OBVIOUS
          <6>1. x \in Nat
            BY <1>0, <1>1, Zenon
          <6>2. CASE x = group
            BY <6>2, <3>0, <4>4, <5>1
          <6>3. CASE x \in Kept
            <7>1. ~(r[2] >= x)
              BY <5>2, <6>3
            <7> QED BY <7>1, <6>1, <5>1, <3>0
          <6> QED BY <6>2, <6>3
        <5>4. id < deliveredFloor'
          BY <1>1, <5>3 DEF IsLowest
        <5> QED BY <2>4, <5>4 DEF Settled
      <4> QED BY <4>2, <4>3, <4>4
    <3> QED BY <2>7, <3>1, <3>2, <3>3 DEF Settled
  <2>8. ASSUME NEW id \in D PROVE id \in Kept \/ Settled(id)'
    <3>1. CASE id = deliveredFloor
      <4>1. id \in ID /\ id <= deliveredFloor
        BY <1>0, <2>2, <3>1
      <4> QED BY <2>6, <4>1
    <3>2. CASE id # deliveredFloor
      BY <2>3, <3>2
    <3> QED BY <3>1, <3>2
  <2>9. ASSUME NEW id \in ID, NEW n \in ID, Known(id, n)
        PROVE  Settled(id)' \/ Known(id, n)'
    <3>1. id \in D
      BY <2>9 DEF Known, Held
    <3>2. CASE id \in Kept
      BY <1>1, <2>9, <3>2 DEF Known, Held
    <3> QED BY <2>8, <3>1, <3>2
  <2>10. ASSUME NEW l \in ID \X ID, AbsentAt(l) PROVE AbsentAt(l)'
    <3>0. l[1] \in ID
      OBVIOUS
    <3>1. CASE Settled(l[1]) \/ Settled(l[1])'
      <4>1. Settled(l[1])'
        BY <2>7, <3>0, <3>1
      <4> QED BY <4>1 DEF AbsentAt
    <3>2. CASE ~Settled(l[1]) /\ ~Settled(l[1])'
      <4>1. l[1] \in D
        BY <2>10, <3>2 DEF AbsentAt, Held
      <4>2. l[1] \in Kept
        BY <2>8, <3>2, <4>1
      <4> QED BY <1>1, <2>10, <3>2, <4>2 DEF AbsentAt, Held
    <3> QED BY <3>1, <3>2
  <2> QED BY <2>7, <2>9, <2>10 DEF Carries
<1> QED BY <1>2, <1>3

\* What is gone, the known ends and the readers' last Objects carry over.
LEMMA GoneCarries ==
    ASSUME AbsInv, Carries, NoteAbsent \/ UNCHANGED gone
    PROVE  \A l \in gone' : l \in ID \X ID /\ AbsentAt(l)'
<1>1. Locations \subseteq ID \X ID
  BY ObjectTypes DEF Locations, Loc
<1>2. \A l \in gone : l \in ID \X ID /\ AbsentAt(l)'
  BY DEF AbsInv, Carries
<1>3. ASSUME NEW l \in KnownAbsent' PROVE l \in ID \X ID /\ AbsentAt(l)'
  BY <1>1, <1>3 DEF KnownAbsent, AbsentAt, Settled, Held
<1> QED BY <1>2, <1>3 DEF NoteAbsent

\* What makes a Group's end known carries over with the rest.
LEMMA EndCarries ==
    ASSUME Carries, NEW id \in ID, NEW e, EndKnown(id, e)
    PROVE  EndKnown(id, e)'
<1> SUFFICES ASSUME e.set, e.at \in ID, ~e.hard, Settled(id) \/ Known(id, e.at)
             PROVE  (Settled(id) \/ Known(id, e.at))'
  BY DEF EndKnown
<1> QED BY DEF Carries

\* So does the last Object of every stream the step leaves alone.
LEMMA LastCarries ==
    ASSUME ReadersOK, AbsInv, Carries,
           \A d \in Contributors :
              \/ last'[d] \in {last[d], NoObj}
              \/ (Settled(last[d].group) \/ Known(last[d].group, last[d].object))'
    PROVE  \A d \in Contributors : last'[d] # NoObj =>
              (Settled(last[d].group) \/ Known(last[d].group, last[d].object))'
<1> SUFFICES ASSUME NEW d \in Contributors, last[d] # NoObj, last'[d] = last[d]
             PROVE  (Settled(last[d].group) \/ Known(last[d].group, last[d].object))'
  OBVIOUS
<1>1. last[d] \in Objects
  BY DEF ReadersOK
<1>2. last[d].group \in ID /\ last[d].object \in ID
  BY <1>1, ObjectTypes
<1>3. Settled(last[d].group) \/ Known(last[d].group, last[d].object)
  BY DEF AbsInv
<1> DEFINE i == last[d].group
           n == last[d].object
<1>4. i' = i /\ n' = n
  OBVIOUS
<1>5. Settled(i)' \/ Known(i, n)'
  BY <1>2, <1>3 DEF Carries
<1> QED BY <1>5

\* The gaps an Object announces are ranges of integers.
LEMMA GapTypes ==
    ASSUME AbsInv, NEW o \in Objects, groupGaps' \subseteq groupGaps \cup newGroupGaps(o)
    PROVE  \A r \in groupGaps' : r[1] \in Int /\ r[2] \in Int
<1>1. o.group \in Nat /\ o.groupGap \in Int
  BY ObjectsAssumption, ConstantsAssumption DEF ObjectInfo, ID
<1>2. \A r \in newGroupGaps(o) : r[1] \in Int /\ r[2] \in Int
  BY <1>1 DEF newGroupGaps, gapRange
<1> QED BY <1>2 DEF AbsInv

\* Without a new claim nothing absent is forwarded.
LEMMA StaysSame ==
    ASSUME AbsInv, NoteAbsent \/ UNCHANGED gone, UNCHANGED accepted, lapsed \subseteq lapsed'
    PROVE  AbsentStays'
<1> SUFFICES ASSUME NEW o \in Objects, Normal(o), accepted'[o] > 0, Loc(o) \in gone'
             PROVE  o.group \in lapsed'
  BY DEF AbsentStays, Normal, Loc
<1>1. Loc(o) \in Claimed'
  BY DEF Claimed
<1>2. Loc(o) \in gone
  BY <1>1 DEF NoteAbsent
<1> QED BY <1>2 DEF AbsInv, AbsentStays

\* A step that leaves the ledger alone keeps the invariant, if what a stream
\* carried last is known.
LEMMA AbsSame ==
    ASSUME ReadersOK, AbsInv, LedgerInv,
           UNCHANGED <<delivered, deliveredFloor, groupGaps, accepted, gone, lapsed>>,
           \A d \in Contributors :
              \/ last'[d] \in {last[d], NoObj}
              \/ (Settled(last[d].group) \/ Known(last[d].group, last[d].object))'
    PROVE  AbsInv'
<1>1. Carries
  BY CarriesSame
<1>2. \A l \in gone' : l \in ID \X ID /\ AbsentAt(l)'
  BY <1>1, GoneCarries
<1>3. \A d \in Contributors : last'[d] # NoObj =>
         (Settled(last[d].group) \/ Known(last[d].group, last[d].object))'
  BY <1>1, LastCarries
<1>4. \A id \in DOMAIN delivered' : EndKnown(id, delivered[id].end)'
  <2> SUFFICES ASSUME NEW id \in DOMAIN delivered
               PROVE  EndKnown(id, delivered[id].end)'
    OBVIOUS
  <2>1. id \in ID /\ EndKnown(id, delivered[id].end)
    BY DEF LedgerInv, WindowInv, AbsInv
  <2> DEFINE e == delivered[id].end
  <2>2. EndKnown(id, e) /\ e' = e
    BY <2>1
  <2> HIDE DEF e
  <2>3. \A x : EndKnown(id, x) => EndKnown(id, x)'
    BY <1>1, <2>1, EndCarries
  <2> QED BY <2>2, <2>3 DEF EndKnown, e
<1>5. AbsentStays'
  BY StaysSame
<1> QED BY <1>2, <1>3, <1>4, <1>5 DEF AbsInv

\* A step that changes one held Group's entry likewise.
LEMMA AbsExtend ==
    ASSUME LedgerInv, EndsInv, ReadersOK, AbsInv, Carries,
           NEW id \in DOMAIN delivered, NEW e,
           delivered' = [delivered EXCEPT ![id] = e],
           EndKnown(id, e.end)', NoteAbsent, AbsentStays',
           \A r \in groupGaps' : r[1] \in Int /\ r[2] \in Int,
           \A d \in Contributors :
              \/ last'[d] \in {last[d], NoObj}
              \/ (Settled(last[d].group) \/ Known(last[d].group, last[d].object))'
    PROVE  AbsInv'
<1>1. \A l \in gone' : l \in ID \X ID /\ AbsentAt(l)'
  BY GoneCarries
<1>2. \A d \in Contributors : last'[d] # NoObj =>
         (Settled(last[d].group) \/ Known(last[d].group, last[d].object))'
  BY LastCarries
<1>3. \A i \in DOMAIN delivered' : EndKnown(i, delivered[i].end)'
  <2> SUFFICES ASSUME NEW i \in DOMAIN delivered
               PROVE  EndKnown(i, delivered[i].end)'
    OBVIOUS
  <2>1. CASE i = id
    <3>1. delivered'[i].end = e.end
      BY <2>1
    <3> QED BY <2>1, <3>1 DEF EndKnown
  <2>2. CASE i # id
    <3>1. delivered'[i].end = delivered[i].end
      BY <2>2
    <3>2. i \in ID /\ EndKnown(i, delivered[i].end)
      BY DEF LedgerInv, WindowInv, AbsInv
    <3>3. \A x : EndKnown(i, x) => EndKnown(i, x)'
      BY <3>2, EndCarries
    <3> QED BY <3>1, <3>2, <3>3 DEF EndKnown
  <2> QED BY <2>1, <2>2
<1> QED BY <1>1, <1>2, <1>3 DEF AbsInv

\* An end added that conflicts with none is known if, when soft, its Object is.
LEMMA WithKnown ==
    ASSUME Carries, NEW id \in ID, NEW e \in EndType, EndKnown(id, e),
           NEW at \in ID, NEW hard \in BOOLEAN, hard => at >= 1, ~conflicts(e, at, hard),
           ~hard => (Settled(id) \/ Known(id, at))'
    PROVE  EndKnown(id, with(e, at, hard))'
<1> DEFINE w == with(e, at, hard)
<1>1. e.set => e.at \in ID /\ (e.hard => e.at >= 1)
  BY DEF EndKnown
<1>2. /\ w.at \in ID
      /\ w.hard => w.at >= 1
      /\ ~w.hard => (~hard /\ w.at = at) \/ (e.set /\ ~e.hard /\ w.at = e.at)
  BY <1>1, WithCases
<1> HIDE DEF w
<1>3. ASSUME ~w.hard PROVE (Settled(id) \/ Known(id, w.at))'
  <2>1. CASE ~hard /\ w.at = at
    BY <2>1
  <2>2. CASE e.set /\ ~e.hard /\ w.at = e.at
    <3>1. EndKnown(id, e)'
      BY EndCarries
    <3> QED BY <2>2, <3>1 DEF EndKnown
  <2> QED BY <1>2, <1>3, <2>1, <2>2
<1>4. EndKnown(id, w)'
  BY <1>2, <1>3 DEF EndKnown
<1> QED BY <1>4 DEF w

\* The Object of a Fresh claim was not known absent, unless its gap lapsed.
LEMMA FreshNotGone ==
    ASSUME LedgerInv, EndsInv, AbsInv, NEW o \in Objects, Normal(o),
           ~AgedOut(o), ~checkEnds(o).malformed, ~announcedAbsent(o),
           o.object \notin GroupOf(o.group).objects, Loc(o) \in gone
    PROVE  o.group \in lapsed
<1>0. o.group \in Nat /\ o.object \in Nat /\ o.group \in ID /\ ID \subseteq Nat
  BY ObjectTypes
<1>1. Settled(o.group) => o.group \in lapsed
  <2>1. ~\E r \in groupGaps : contains(r, o.group)
    BY DEF announcedAbsent
  <2>2. ASSUME Full, o.group < deliveredFloor PROVE FALSE
    <3>1. o.group \in DOMAIN delivered
      BY <2>2 DEF AgedOut, Held
    <3>2. deliveredFloor \in Nat /\ deliveredFloor <= o.group
      BY <1>0, <3>1, Zenon DEF LedgerInv, WindowInv, IsLowest
    <3> QED BY <1>0, <2>2, <3>2
  <2> QED BY <2>1, <2>2 DEF Settled
<1>2. ASSUME NEW n, Known(o.group, n) PROVE n # o.object
  <2>1. Held(o.group) /\ GroupOf(o.group) = delivered[o.group]
    BY <1>2 DEF Known, GroupOf
  <2> QED BY <1>2, <2>1 DEF Known, announcedAbsent
<1>3. AbsentAt(Loc(o)) /\ Loc(o)[1] = o.group /\ Loc(o)[2] = o.object
  BY DEF AbsInv, Loc
<1>4. CASE Held(o.group) /\ delivered[o.group].end.set /\ o.object >= delivered[o.group].end.at
  <2> DEFINE e == delivered[o.group].end
  <2>1. e \in EndType /\ EndKnown(o.group, e)
    BY <1>4 DEF EndsInv, IsGroup, AbsInv, Held
  <2>2. ~past(e, o.object, TRUE)
    <3>1. ~past(GroupOf(o.group).end, o.object, Normal(o)) /\ GroupOf(o.group).end = e
      BY <1>4, CheckedEntry, Zenon DEF GroupOf
    <3> QED BY <3>1 DEF past
  <2> HIDE DEF e
  <2>3. e.set /\ o.object >= e.at /\ e.at \in Nat /\ e.hard \in BOOLEAN
    BY <1>4, <2>1 DEF e, EndType
  <2>4. o.object = e.at /\ ~e.hard
    BY <1>0, <2>2, <2>3 DEF past
  <2>5. Settled(o.group) \/ Known(o.group, e.at)
    BY <2>1, <2>3, <2>4 DEF EndKnown
  <2> QED BY <1>1, <1>2, <2>4, <2>5
<1>5. CASE Held(o.group) /\ \E r \in delivered[o.group].objectGaps : contains(r, o.object)
  BY <1>5 DEF announcedAbsent, GroupOf
<1> QED BY <1>1, <1>3, <1>4, <1>5 DEF AbsentAt

\* A Fresh claim keeps the absences.
LEMMA AbsFresh ==
    ASSUME LedgerInv, EndsInv, ReadersOK, AbsInv,
           NEW c \in Contributors, NEW o \in Objects, ClaimFresh(c, o)
    PROVE  AbsInv'
<1> DEFINE f == FreshEntry(o)
           g == GroupOf(o.group)
           e == groupEnd(o)
<1>1. /\ ~AgedOut(o) /\ ~checkEnds(o).malformed /\ ~announcedAbsent(o)
      /\ o.object \notin g.objects
      /\ accepted' = [accepted EXCEPT ![o] = @ + 1]
      /\ GoTo(c, "put", o) /\ NoteAbsent
      /\ \/ /\ Held(o.group) /\ delivered' = [delivered EXCEPT ![o.group] = f]
            /\ groupGaps' = groupGaps \cup newGroupGaps(o)
            /\ UNCHANGED <<deliveredFloor, lapsed>>
         \/ /\ ~Held(o.group) /\ addDeliveredGroup(o.group, f)
            /\ groupGaps' = keptGroupGaps \cup newGroupGaps(o)
            /\ lapsed' = lapsed \cup Lapsing(o.group)
  BY DEF ClaimFresh, Admissible, Rejected, FreshEntry
<1>2. /\ IsGroup(g) /\ IsGroup(f)
      /\ f.objects = g.objects \cup {o.object}
      /\ g.objectGaps \subseteq f.objectGaps
      /\ f.end = IF e.set THEN with(g.end, e.at, e.hard) ELSE g.end
      /\ g.end.set => f.end.set /\ f.end.at <= g.end.at
  BY <1>1, FreshEntryFields
<1>3. o.group \in ID /\ o.object \in ID
  BY ObjectTypes
<1> HIDE DEF f
<1>4. Carries
  <2>1. CASE /\ Held(o.group) /\ delivered' = [delivered EXCEPT ![o.group] = f]
             /\ groupGaps' = groupGaps \cup newGroupGaps(o)
             /\ UNCHANGED <<deliveredFloor, lapsed>>
    <3>1. o.group \in DOMAIN delivered /\ g = delivered[o.group]
      BY <2>1 DEF Held, GroupOf
    <3> QED BY <1>2, <2>1, <3>1, CarriesExtend, Zenon
  <2>2. CASE /\ ~Held(o.group) /\ addDeliveredGroup(o.group, f)
             /\ groupGaps' = keptGroupGaps \cup newGroupGaps(o)
             /\ lapsed' = lapsed \cup Lapsing(o.group)
    <3>1. /\ o.group \notin DOMAIN delivered /\ ~(Full /\ o.group < deliveredFloor)
          /\ \A r \in groupGaps : ~contains(r, o.group)
      BY <1>1, <2>2 DEF AgedOut, Held, announcedAbsent
    <3>2. keptGroupGaps \subseteq groupGaps'
      BY <2>2
    <3> QED BY <1>3, <2>2, <3>1, <3>2, CarriesAdd
  <2> QED BY <1>1, <2>1, <2>2
<1>5. /\ o.group \in DOMAIN delivered' /\ delivered'[o.group] = f
      /\ \A id \in DOMAIN delivered' : id # o.group =>
            id \in DOMAIN delivered /\ delivered'[id] = delivered[id]
      /\ lapsed \subseteq lapsed'
      /\ groupGaps' \subseteq groupGaps \cup newGroupGaps(o)
  BY <1>1 DEF Held, addDeliveredGroup, Kept, keptGroupGaps
<1>6. Known(o.group, o.object)'
  BY <1>2, <1>5 DEF Known, Held
<1>a. PICK was, is : was = g.end /\ is = f.end
  OBVIOUS
<1>7. EndKnown(o.group, is)'
  <2>1. was \in EndType /\ EndKnown(o.group, was)
    <3>1. CASE Held(o.group)
      BY <1>2, <1>a, <3>1 DEF AbsInv, Held, GroupOf, IsGroup
    <3>2. CASE ~Held(o.group)
      BY <1>2, <1>a, <3>2 DEF GroupOf, NewGroup, NoEnd, EndKnown, IsGroup
    <3> QED BY <3>1, <3>2
  <2>2. CASE e.set
    <3>1. e.at \in ID /\ e.hard \in BOOLEAN /\ (e.hard => e.at >= 1) /\ (~e.hard => e.at = o.object)
      BY <2>2, EndRanges, EndFields DEF EndType
    <3>2. ~conflicts(was, e.at, e.hard) /\ is = with(was, e.at, e.hard)
      BY <1>1, <1>2, <1>a, <2>2, NoConflict, Zenon
    <3> HIDE DEF e
    <3>3. ~e.hard => (Settled(o.group) \/ Known(o.group, e.at))'
      BY <1>6, <3>1
    <3>4. EndKnown(o.group, with(was, e.at, e.hard))'
      BY <1>3, <1>4, <2>1, <3>1, <3>2, <3>3, WithKnown
    <3> QED BY <3>2, <3>4
  <2>3. CASE ~e.set
    <3>1. EndKnown(o.group, was)'
      BY <1>3, <1>4, <2>1, EndCarries
    <3> QED BY <1>2, <1>a, <2>3, <3>1
  <2> QED BY <2>2, <2>3
<1>8. \A id \in DOMAIN delivered' : EndKnown(id, delivered[id].end)'
  <2> SUFFICES ASSUME NEW id \in DOMAIN delivered'
               PROVE  EndKnown(id, delivered[id].end)'
    OBVIOUS
  <2>1. CASE id = o.group
    <3>1. delivered'[id].end = is
      BY <1>5, <1>a, <2>1
    <3> QED BY <1>7, <2>1, <3>1 DEF EndKnown
  <2>2. CASE id # o.group
    <3>1. delivered'[id].end = delivered[id].end /\ id \in DOMAIN delivered
      BY <1>5, <2>2
    <3>2. id \in ID /\ EndKnown(id, delivered[id].end)
      BY <3>1 DEF LedgerInv, WindowInv, AbsInv
    <3>3. \A x : EndKnown(id, x) => EndKnown(id, x)'
      BY <1>4, <3>2, EndCarries
    <3> QED BY <3>1, <3>2, <3>3 DEF EndKnown
  <2> QED BY <2>1, <2>2
<1>9. \A d \in Contributors : last'[d] # NoObj =>
         (Settled(last[d].group) \/ Known(last[d].group, last[d].object))'
  <2>1. \A d \in Contributors : last'[d] \in {last[d], o}
    BY <1>1 DEF GoTo, ReadersOK
  <2>2. \A d \in Contributors : last'[d] = o =>
           (Settled(last[d].group) \/ Known(last[d].group, last[d].object))'
    BY <1>6 DEF Known, Held
  <2> QED BY <1>4, <2>1, <2>2, LastCarries
<1>10. AbsentStays'
  <2> SUFFICES ASSUME NEW x \in Objects, Normal(x), accepted'[x] > 0, Loc(x) \in gone'
               PROVE  x.group \in lapsed'
    BY DEF AbsentStays, Normal, Loc
  <2>1. Loc(x) \in Claimed'
    BY DEF Claimed
  <2>2. Loc(x) \in gone
    BY <1>1, <2>1 DEF NoteAbsent
  <2>3. CASE x = o
    BY <1>1, <1>5, <2>2, <2>3, FreshNotGone
  <2>4. CASE x # o
    <3>1. accepted[x] > 0
      BY <1>1, <2>4 DEF LedgerInv
    <3> QED BY <1>5, <2>2, <3>1 DEF AbsInv, AbsentStays
  <2> QED BY <2>3, <2>4
<1>11. \A l \in gone' : l \in ID \X ID /\ AbsentAt(l)'
  BY <1>1, <1>4, GoneCarries
<1>12. \A r \in groupGaps' : r[1] \in Int /\ r[2] \in Int
  BY <1>5, GapTypes
<1> QED BY <1>8, <1>9, <1>10, <1>11, <1>12 DEF AbsInv

\* A Redundant claim adds the Object's gaps only.
LEMMA AbsRedundant ==
    ASSUME LedgerInv, EndsInv, ReadersOK, AbsInv,
           NEW c \in Contributors, NEW o \in Objects, ClaimRedundant(c, o)
    PROVE  AbsInv'
<1>0. PICK e : e = recordGaps(delivered[o.group], o)
  OBVIOUS
<1>1. /\ o.group \in DOMAIN delivered /\ o.object \in delivered[o.group].objects
      /\ delivered' = [delivered EXCEPT ![o.group] = e]
      /\ groupGaps' = groupGaps \cup newGroupGaps(o)
      /\ GoTo(c, "check", o) /\ NoteAbsent
      /\ UNCHANGED <<deliveredFloor, accepted, lapsed>>
  BY <1>0 DEF ClaimRedundant, GroupOf, NewGroup, Held
<1>2. IsGroup(delivered[o.group]) /\ delivered[o.group].end \in EndType /\ o.group \in ID
  BY <1>1 DEF EndsInv, IsGroup, LedgerInv, WindowInv
<1>3. /\ IsGroup(e) /\ e.end = delivered[o.group].end
      /\ e.objects = delivered[o.group].objects
      /\ delivered[o.group].objectGaps \subseteq e.objectGaps
  BY <1>0, <1>2, GapsKeepEnds
<1>4. Carries
  <2>1. delivered[o.group].end.set => e.end.set /\ e.end.at <= delivered[o.group].end.at
    BY <1>2, <1>3 DEF EndType
  <2> QED BY <1>1, <1>3, <2>1, CarriesExtend, Zenon
<1>5. EndKnown(o.group, e.end)'
  <2>1. EndKnown(o.group, e.end)
    BY <1>1, <1>3 DEF AbsInv
  <2> QED BY <1>2, <1>4, <2>1, EndCarries
<1>6. \A d \in Contributors : last'[d] \in {last[d], o}
  BY <1>1 DEF GoTo, ReadersOK
<1>7. \A d \in Contributors : last'[d] = o => (Settled(last[d].group) \/ Known(last[d].group, last[d].object))'
  BY <1>1, <1>3 DEF Known, Held
<1>7a. \A d \in Contributors : last'[d] \in {last[d], NoObj} \/ (Settled(last[d].group) \/ Known(last[d].group, last[d].object))'
  BY <1>6, <1>7
<1>8. AbsentStays'
  BY <1>1, StaysSame
<1>9. \A r \in groupGaps' : r[1] \in Int /\ r[2] \in Int
  BY <1>1, GapTypes
<1> QED BY <1>1, <1>4, <1>5, <1>7a, <1>8, <1>9, AbsExtend, Zenon

\* A copy recorded (RecordDuplicate) may end its Group, at the Object itself
\* or just past it.
LEMMA AbsRecord ==
    ASSUME LedgerInv, EndsInv, ReadersOK, AbsInv, NEW p \in Objects,
           p.object \in GroupOf(p.group).objects, ~checkEnds(p).malformed,
           delivered' = [delivered EXCEPT ![p.group] = recordEnds(delivered[p.group], p)],
           UNCHANGED <<deliveredFloor, groupGaps, last, accepted, lapsed>>,
           NoteAbsent
    PROVE  AbsInv'
<1>2. p.group \in DOMAIN delivered /\ Held(p.group) /\ GroupOf(p.group) = delivered[p.group]
  BY DEF GroupOf, NewGroup, Held
<1>3. PICK g, h : g = delivered[p.group] /\ h = recordEnds(g, p)
  OBVIOUS
<1> DEFINE n == groupEnd(p)
<1>4. /\ p.object \in g.objects /\ ~checkEnds(p).malformed
      /\ delivered' = [delivered EXCEPT ![p.group] = h]
  BY <1>2, <1>3
<1>5. IsGroup(g) /\ g.end \in EndType /\ EndKnown(p.group, g.end) /\ p.group \in ID
  BY <1>2, <1>3 DEF EndsInv, IsGroup, LedgerInv, WindowInv, AbsInv
<1>6. /\ n.set => ~conflicts(g.end, n.at, n.hard)
      /\ n.set => n.at \in ID /\ (n.hard => n.at >= 1) /\ (~n.hard => n.at = p.object)
      /\ n \in EndType
  <2>1. n.set => ~conflicts(g.end, n.at, n.hard)
    BY <1>2, <1>3, <1>4, NoConflict, Zenon
  <2> QED BY <2>1, EndRanges, EndFields
<1>7. /\ h.end = IF n.set THEN with(g.end, n.at, n.hard) ELSE g.end
      /\ h.objects = g.objects /\ h.objectGaps = g.objectGaps
  BY <1>3, <1>5, RecordEndsFields
<1>8. IsGroup(h)
  <2>1. /\ ~past(g.end, p.object, Normal(p))
        /\ n.set => ~pastEnd(g, with(g.end, n.at, n.hard))
        /\ (~p.datagram /\ p.subgroup \in DOMAIN g.subgroups)
             => ~past(g.subgroups[p.subgroup].end, p.object, Normal(p))
    BY <1>2, <1>3, <1>4, <1>5, CheckedEnds
  <2> QED BY <1>3, <1>5, <2>1, RecordEndsKeeps
<1> HIDE DEF n
<1>9. n.at \in Nat /\ n.hard \in BOOLEAN /\ g.end.at \in Nat
  BY <1>5, <1>6 DEF EndType
<1>10. Carries
  <2>a. LET w == with(g.end, n.at, n.hard)
        IN  w.set /\ (g.end.set => w.at <= g.end.at)
    BY <1>5, <1>9, WithType, Zenon
  <2>1. g.end.set => h.end.set /\ h.end.at <= g.end.at
    BY <1>9, <1>7, <2>a
  <2> QED BY <1>2, <1>3, <1>4, <1>7, <1>8, <2>1, CarriesExtend, Zenon
<1>11. Known(p.group, p.object)'
  BY <1>2, <1>4, <1>7 DEF Known, Held
<1>12. EndKnown(p.group, h.end)'
  <2>1. CASE n.set
    <3>1. ~n.hard => (Settled(p.group) \/ Known(p.group, n.at))'
      BY <1>6, <1>11, <2>1
    <3>2. EndKnown(p.group, with(g.end, n.at, n.hard))'
      BY <1>5, <1>6, <1>9, <1>10, <2>1, <3>1, WithKnown
    <3> QED BY <1>7, <2>1, <3>2
  <2>2. CASE ~n.set
    <3>1. EndKnown(p.group, g.end)'
      BY <1>5, <1>10, EndCarries
    <3> QED BY <1>7, <2>2, <3>1
  <2> QED BY <2>1, <2>2
<1>13. AbsentStays'
  BY StaysSame
<1>14. \A r \in groupGaps' : r[1] \in Int /\ r[2] \in Int
  BY DEF AbsInv
<1>15. \A d \in Contributors : last'[d] \in {last[d], NoObj}
  OBVIOUS
<1> QED BY <1>2, <1>4, <1>10, <1>12, <1>13, <1>14, <1>15, AbsExtend, Zenon

\* A FIN after p may end p's Group, at p or just past it.
LEMMA AbsFin ==
    ASSUME LedgerInv, EndsInv, ReadersOK, AbsInv,
           NEW c \in Contributors, NEW p \in Objects, NEW endOfGroup \in BOOLEAN,
           Held(p.group), ~(Normal(p) /\ p.object = MaxID),
           Settled(p.group) \/ Known(p.group, p.object),
           ~checkSubgroupEnded(GroupOf(p.group), p, endOfGroup).malformed,
           delivered' = [delivered EXCEPT ![p.group] =
                           recordSubgroupEnded(delivered[p.group], p, endOfGroup)],
           last' = [last EXCEPT ![c] = NoObj],
           UNCHANGED <<deliveredFloor, groupGaps, accepted, lapsed>>,
           NoteAbsent
    PROVE  AbsInv'
<1>2. p.group \in DOMAIN delivered /\ GroupOf(p.group) = delivered[p.group]
  BY DEF GroupOf, Held
<1>3. PICK g, h : g = delivered[p.group] /\ h = recordSubgroupEnded(g, p, endOfGroup)
  OBVIOUS
<1> DEFINE n == EndAfter(p)
<1>4. /\ ~(Normal(p) /\ p.object = MaxID) /\ ~checkSubgroupEnded(g, p, endOfGroup).malformed
      /\ delivered' = [delivered EXCEPT ![p.group] = h]
  BY <1>2, <1>3
<1>5. /\ IsGroup(g) /\ g.end \in EndType /\ EndKnown(p.group, g.end)
      /\ p.group \in ID /\ p.object \in ID
  BY <1>2, <1>3, ObjectTypes DEF EndsInv, IsGroup, AbsInv
<1>6. /\ endOfGroup => ~conflicts(g.end, n.at, n.hard)
      /\ n \in EndType /\ n.set /\ n.at \in ID
      /\ n.hard => n.at >= 1
      /\ ~n.hard => n.at = p.object
  <2>1. endOfGroup => ~conflicts(g.end, n.at, n.hard)
    BY <1>4, NoConflict, Zenon
  <2>2. n \in EndType /\ n.set
    BY EndFields DEF EndAfter, End
  <2> QED BY <1>4, <2>1, <2>2, EndRanges
<1>7. IsGroup(h)
  BY <1>3, <1>4, <1>5, SubgroupEndedKeeps
<1>8. /\ h.end = IF endOfGroup THEN with(g.end, n.at, n.hard) ELSE g.end
      /\ h.objects = g.objects /\ h.objectGaps = g.objectGaps
  <2>1. CASE endOfGroup
    BY <1>3, <1>5, <2>1 DEF recordSubgroupEnded, IsGroup
  <2>2. CASE ~endOfGroup
    BY <1>3, <1>5, <2>2 DEF recordSubgroupEnded, IsGroup
  <2> QED BY <2>1, <2>2, Zenon
<1> HIDE DEF n
<1>9. n.at \in Nat /\ n.hard \in BOOLEAN /\ g.end.at \in Nat
  BY <1>5, <1>6, Zenon DEF EndType
<1>10. Carries
  <2>a. LET w == with(g.end, n.at, n.hard)
        IN  w.set /\ (g.end.set => w.at <= g.end.at)
    BY <1>5, <1>9, WithType, Zenon
  <2>1. g.end.set => h.end.set /\ h.end.at <= g.end.at
    BY <1>9, <1>8, <2>a
  <2> QED BY <1>2, <1>3, <1>4, <1>7, <1>8, <2>1, CarriesExtend, Zenon
<1>11. (Settled(p.group) \/ Known(p.group, p.object))'
  <2>1. Settled(p.group) \/ Known(p.group, p.object)
    OBVIOUS
  <2> QED BY <1>5, <1>10, <2>1, Zenon DEF Carries
<1>12. EndKnown(p.group, h.end)'
  <2>1. CASE endOfGroup
    <3>1. ~n.hard => (Settled(p.group) \/ Known(p.group, n.at))'
      BY <1>6, <1>11
    <3>2. EndKnown(p.group, with(g.end, n.at, n.hard))'
      BY <1>5, <1>6, <1>9, <1>10, <2>1, <3>1, WithKnown, Zenon
    <3> QED BY <1>8, <2>1, <3>2
  <2>2. CASE ~endOfGroup
    <3>1. EndKnown(p.group, g.end)'
      BY <1>5, <1>10, EndCarries
    <3> QED BY <1>8, <2>2, <3>1
  <2> QED BY <2>1, <2>2
<1>13. AbsentStays'
  BY StaysSame
<1>14. \A r \in groupGaps' : r[1] \in Int /\ r[2] \in Int
  BY DEF AbsInv
<1>15. \A d \in Contributors : last'[d] \in {last[d], NoObj}
  BY DEF ReadersOK
<1> QED BY <1>2, <1>4, <1>10, <1>12, <1>13, <1>14, <1>15, AbsExtend, Zenon

\* Every step keeps the absences.
LEMMA AbsStep ==
    LedgerInv /\ EndsInv /\ ReadersOK /\ AbsInv /\ [Next]_vars => AbsInv'
<1> SUFFICES ASSUME LedgerInv, EndsInv, ReadersOK, AbsInv, [Next]_vars PROVE AbsInv'
  OBVIOUS
<1> DEFINE Same == UNCHANGED <<delivered, deliveredFloor, groupGaps, accepted, gone, lapsed>>
           LastOf(d) == Settled(last[d].group) \/ Known(last[d].group, last[d].object)
<1>1. ASSUME NEW c, NEW o, NEW purge, NEW triggering, EndMalformed(c, o, purge, triggering)
      PROVE  AbsInv'
  <2>1. Same /\ \A d \in Contributors : last'[d] \in {last[d], NoObj}
    BY <1>1 DEF EndMalformed, ledger, absences, ReadersOK
  <2> QED BY <2>1, AbsSame
<1>2. ASSUME Same, last' = last \/ \E c \in Contributors : last' = [last EXCEPT ![c] = NoObj]
      PROVE  AbsInv'
  <2>1. \A d \in Contributors : last'[d] \in {last[d], NoObj}
    BY <1>2 DEF ReadersOK
  <2> QED BY <1>2, <2>1, AbsSame
<1>3. ASSUME NEW c \in Contributors, NEW o \in Objects, NEW step, Same, GoTo(c, step, o),
             Settled(o.group) \/ Known(o.group, o.object)
      PROVE  AbsInv'
  <2>1. \A d \in Contributors : last'[d] \in {last[d], o}
    BY <1>3 DEF GoTo, ReadersOK
  <2>2. (Settled(o.group) \/ Known(o.group, o.object))'
    BY <1>3 DEF Settled, Known, Held, Full
  <2>3. \A d \in Contributors : last'[d] = o => LastOf(d)'
    BY <2>2 DEF Settled, Known, Held, Full
  <2> QED BY <1>3, <2>1, <2>3, AbsSame
<1>4. ASSUME NEW c \in Contributors, NEW o \in Objects,
             ReadAfterTerminal(c, o) \/ ClaimMalformed(c, o)
      PROVE  AbsInv'
  BY <1>1, <1>4 DEF ReadAfterTerminal, ClaimMalformed
<1>5. ASSUME NEW c \in Contributors, NEW o \in Objects, ClaimAbsent(c, o)
      PROVE  AbsInv'
  <2>1. Same /\ GoTo(c, "check", o) /\ announcedAbsent(o)
    BY <1>5 DEF ClaimAbsent, ledger, absences
  <2>2. Settled(o.group) \/ Known(o.group, o.object)
    BY <2>1 DEF announcedAbsent, Settled, Known, GroupOf, NewGroup
  <2> QED BY <1>3, <2>1, <2>2
<1>6. ASSUME NEW c \in Contributors, NEW o \in Objects, NEW admitted \in BOOLEAN,
             ClaimAgedOut(c, o, admitted)
      PROVE  AbsInv'
  <2>1. Same /\ AgedOut(o) /\ \E step : GoTo(c, step, o)
    BY <1>6 DEF ClaimAgedOut, ledger, absences
  <2>2. Settled(o.group)
    BY <2>1 DEF AgedOut, Settled
  <2> QED BY <1>3, <2>1, <2>2
<1>7. ASSUME NEW c \in Contributors, NEW o \in Objects, ClaimRedundant(c, o)
      PROVE  AbsInv'
  BY <1>7, AbsRedundant
<1>8. ASSUME NEW c \in Contributors, NEW o \in Objects, ClaimFresh(c, o)
      PROVE  AbsInv'
  BY <1>8, AbsFresh
<1>9. ASSUME NEW c \in Contributors, Put(c) \/ Reset(c)
      PROVE  AbsInv'
  <2>1. Same /\ (last' = last \/ last' = [last EXCEPT ![c] = NoObj])
    BY <1>9 DEF Put, Reset, ledger, absences
  <2> QED BY <1>2, <2>1
<1>10. ASSUME NEW c \in Contributors, CheckDuplicate(c)
       PROVE  AbsInv'
  <2>1. CASE Same /\ last' = last
    BY <1>2, <2>1
  <2> QED BY <1>1, <1>10, <2>1 DEF CheckDuplicate, ledger, absences
<1>11. ASSUME NEW c \in Contributors, RecordDuplicate(c)
       PROVE  AbsInv'
  <2> DEFINE o == reader[c].obj
             e == recordEnds(delivered[o.group], o)
  <2>1. CASE Same /\ last' = last
    BY <1>2, <2>1
  <2>2. CASE /\ reader[c].step = "record"
             /\ o.object \in GroupOf(o.group).objects /\ ~checkEnds(o).malformed
             /\ delivered' = [delivered EXCEPT ![o.group] = e]
             /\ UNCHANGED <<deliveredFloor, groupGaps, last, accepted, lapsed>>
             /\ NoteAbsent
    <3>0. o \in Objects
      BY <2>2, ReaderObject
    <3>1. PICK p \in Objects : p = o
      BY <3>0
    <3> QED BY <2>2, <3>1, AbsRecord, Zenon
  <2> QED
    BY <1>1, <1>11, <2>1, <2>2 DEF RecordDuplicate, ledger, absences
<1>12. ASSUME NEW c \in Contributors, NEW endOfGroup \in BOOLEAN, Fin(c, endOfGroup)
       PROVE  AbsInv'
  <2> DEFINE o == last[c]
             e == recordSubgroupEnded(delivered[o.group], o, endOfGroup)
  <2>1. CASE Same /\ last' = [last EXCEPT ![c] = NoObj]
    BY <1>2, <2>1, Zenon
  <2>2. CASE /\ o # NoObj /\ Held(o.group) /\ ~(Normal(o) /\ o.object = MaxID)
             /\ ~checkSubgroupEnded(GroupOf(o.group), o, endOfGroup).malformed
             /\ delivered' = [delivered EXCEPT ![o.group] = e]
             /\ last' = [last EXCEPT ![c] = NoObj]
             /\ UNCHANGED <<deliveredFloor, groupGaps, accepted, lapsed>>
             /\ NoteAbsent
    <3>1. PICK p \in Objects : p = o
      BY <2>2 DEF ReadersOK
    <3>2. Settled(p.group) \/ Known(p.group, p.object)
      BY <2>2, <3>1 DEF AbsInv
    <3> QED BY <2>2, <3>1, <3>2, AbsFin, Zenon
  <2> QED
    BY <1>1, <1>12, <2>1, <2>2, Zenon DEF Fin, ledger, absences
<1>13. CASE UNCHANGED vars
  BY <1>2, <1>13 DEF vars, absences
<1> QED
  BY <1>4, <1>5, <1>6, <1>7, <1>8, <1>9, <1>10, <1>11, <1>12, <1>13 DEF Next

\* What the ledger knew not to exist is never claimed Fresh afterwards, unless its
\* Group's gap went while the window still reached below it (ClaimDelivered).
THEOREM AbsentStaysHolds == Spec => []AbsentStays
<1> DEFINE Inv == LedgerInv /\ EndsInv /\ ReadersOK /\ AbsInv
<1>1. Init => Inv
  <2> SUFFICES ASSUME Init PROVE AbsInv
    BY InitialLedger
  <2>1. /\ gone = {} /\ DOMAIN delivered = {} /\ groupGaps = {}
        /\ last = [c \in Contributors |-> NoObj]
    BY DEF Init
  <2> QED BY <2>1 DEF AbsInv, AbsentStays
<1>2. Inv /\ [Next]_vars => Inv'
  BY LedgerStep, EndsStep, ReadersStep, AbsStep
<1>3. Inv => AbsentStays
  BY DEF AbsInv
<1> QED
  BY <1>1, <1>2, <1>3, PTL DEF Spec
=============================================================================
