------------------------- MODULE TrackLedgerProofs -------------------------
(***************************************************************************)
(* The dedup ledger claims no Location Fresh twice, and forwards nothing   *)
(* past an end it holds, for every window, every number of contributors    *)
(* and every set of Objects.  The second: the largest IDs a Group and a    *)
(* Subgroup have received count every Object claimed (EndsInv), so that a  *)
(* new end checked against them is checked against them all.               *)
(***************************************************************************)
EXTENDS TrackLedger, FiniteSetTheorems, TLAPS

\* The window is a finite set of Groups, never larger than Window, with its
\* floor its lowest Group.
WindowInv ==
    /\ IsFiniteSet(DOMAIN delivered)
    /\ DOMAIN delivered \subseteq ID
    /\ Cardinality(DOMAIN delivered) <= Window
    /\ DOMAIN delivered # {} => IsLowest(deliveredFloor, DOMAIN delivered)
    /\ \A id \in DOMAIN delivered : "objects" \in DOMAIN delivered[id]

\* A Location claimed Fresh is in its Group's entry, or its Group was pruned
\* from a window that is still full and has only later Groups.
Remembered(o) ==
    \/ Held(o.group) /\ o.object \in delivered[o.group].objects
    \/ Full /\ o.group < deliveredFloor

\* The inductive invariant of the claims.
LedgerInv ==
    /\ WindowInv
    /\ accepted \in [Objects -> Nat]
    /\ \A o \in Objects : accepted[o] > 0 => Remembered(o)
    /\ ForwardedOnce

\* What an Object adds to a Group's entry leaves the entry's Object set alone.
LEMMA RecordKeepsObjects ==
    ASSUME NEW g, NEW o, "objects" \in DOMAIN g
    PROVE  /\ "objects" \in DOMAIN recordGaps(g, o)
           /\ recordGaps(g, o).objects = g.objects
           /\ "objects" \in DOMAIN recordEnds(g, o)
           /\ recordEnds(g, o).objects = g.objects
<1>1. /\ "objects" \in DOMAIN recordGaps(g, o)
      /\ recordGaps(g, o).objects = g.objects
  BY DEF recordGaps
<1>2. /\ "objects" \in DOMAIN withMaxima(g, o)
      /\ withMaxima(g, o).objects = g.objects
  BY DEF withMaxima
<1>3. /\ "objects" \in DOMAIN recordEnds(g, o)
      /\ recordEnds(g, o).objects = g.objects
  BY <1>2 DEF recordEnds
<1> QED
  BY <1>1, <1>3

\* So does the FIN of one of its Subgroups.
LEMMA SubgroupEndedKeepsObjects ==
    ASSUME NEW g, NEW o, NEW eog, "objects" \in DOMAIN g
    PROVE  /\ "objects" \in DOMAIN recordSubgroupEnded(g, o, eog)
           /\ recordSubgroupEnded(g, o, eog).objects = g.objects
  BY DEF recordSubgroupEnded

\* Group and Object IDs are natural numbers.
LEMMA ObjectTypes ==
    ASSUME NEW o \in Objects
    PROVE  o.group \in ID /\ o.object \in ID /\ ID \subseteq Nat
  BY ObjectsAssumption, ConstantsAssumption DEF ObjectInfo, ID

\* A step that leaves the window and the history alone keeps the invariant.
LEMMA SameLedger ==
    ASSUME LedgerInv,
           UNCHANGED <<delivered, deliveredFloor, accepted>>
    PROVE  LedgerInv'
  BY DEF LedgerInv, WindowInv, Remembered, ForwardedOnce, Held, Full

\* So does one that only extends a held Group's entry.
LEMMA ExtendEntry ==
    ASSUME LedgerInv, NEW id \in DOMAIN delivered, NEW e,
           delivered' = [delivered EXCEPT ![id] = e],
           "objects" \in DOMAIN e, delivered[id].objects \subseteq e.objects,
           UNCHANGED deliveredFloor
    PROVE  WindowInv' /\ \A o \in Objects : Remembered(o) => Remembered(o)'
<1>1. DOMAIN delivered' = DOMAIN delivered
  OBVIOUS
<1>2. WindowInv'
  BY <1>1 DEF LedgerInv, WindowInv
<1>3. ASSUME NEW o \in Objects, Remembered(o) PROVE Remembered(o)'
  BY <1>1, <1>3 DEF Remembered, Held, Full
<1> QED
  BY <1>2, <1>3

\* An Object about to be claimed Fresh was not claimed before, as itself or as
\* another Object at its Location: it is not in its Group's entry, and its
\* Group is not one the window has pruned.
LEMMA FreshIsNew ==
    ASSUME LedgerInv, NEW o \in Objects,
           ~AgedOut(o), o.object \notin GroupOf(o.group).objects
    PROVE  \A x \in Objects : Loc(x) = Loc(o) => accepted[x] = 0
<1> SUFFICES ASSUME NEW x \in Objects, Loc(x) = Loc(o), accepted[x] # 0
             PROVE  FALSE
  OBVIOUS
<1>1. x.group = o.group /\ x.object = o.object
  BY DEF Loc
<1>2. accepted[x] > 0
  BY DEF LedgerInv
<1>3. Remembered(x)
  BY <1>2 DEF LedgerInv
<1>4. CASE Held(x.group) /\ x.object \in delivered[x.group].objects
  BY <1>1, <1>4 DEF GroupOf
<1>5. CASE Full /\ x.group < deliveredFloor
  <2>1. Held(o.group)
    BY <1>1, <1>5 DEF AgedOut
  <2>2. deliveredFloor \in ID /\ deliveredFloor <= o.group
    BY <2>1 DEF LedgerInv, WindowInv, Held, IsLowest
  <2> QED
    BY <2>2, <1>1, <1>5, ObjectTypes
<1> QED
  BY <1>3, <1>4, <1>5 DEF Remembered

\* Adding a Group to the window keeps every claim remembered: what is pruned
\* is below the new floor, and the window it leaves is full.
LEMMA AddGroup ==
    ASSUME LedgerInv, NEW group \in ID, NEW g,
           group \notin DOMAIN delivered, ~(Full /\ group < deliveredFloor),
           "objects" \in DOMAIN g, addDeliveredGroup(group, g)
    PROVE  WindowInv' /\ \A o \in Objects : Remembered(o) => Remembered(o)'
<1> DEFINE D == DOMAIN delivered
<1>0. /\ ID \subseteq Nat /\ Window \in Nat /\ Window > 0
      /\ IsFiniteSet(D) /\ Cardinality(D) \in Nat /\ Cardinality(D) <= Window
      /\ D \subseteq ID
  BY ConstantsAssumption, FS_CardinalityType DEF ID, LedgerInv, WindowInv
<1>1. /\ DOMAIN delivered' = Kept \cup {group}
      /\ \A id \in Kept : id # group /\ delivered'[id] = delivered[id]
      /\ delivered'[group] = g
      /\ IsLowest(deliveredFloor', DOMAIN delivered')
  BY DEF addDeliveredGroup, Kept
<1>2. \A id \in DOMAIN delivered' : "objects" \in DOMAIN delivered'[id]
  BY <1>1 DEF LedgerInv, WindowInv, Kept
<1>3. CASE ~Full
  <2>1. Kept = D
    BY <1>3 DEF Kept, Pruned
  <2>2. /\ IsFiniteSet(DOMAIN delivered')
        /\ Cardinality(DOMAIN delivered') = Cardinality(D) + 1
    BY <1>0, <1>1, <2>1, FS_AddElement
  <2>3. WindowInv'
    BY <1>0, <1>1, <1>2, <1>3, <2>1, <2>2 DEF WindowInv, Full
  <2>4. ASSUME NEW o \in Objects, Remembered(o) PROVE Remembered(o)'
    BY <1>1, <1>3, <2>1, <2>4 DEF Remembered, Held
  <2> QED
    BY <2>3, <2>4
<1>4. CASE Full
  <2>1. Cardinality(D) = Window /\ D # {}
    BY <1>0, <1>4, FS_EmptySet DEF Full
  <2>2. deliveredFloor \in D /\ \A id \in D : deliveredFloor <= id
    BY <2>1 DEF LedgerInv, WindowInv, IsLowest
  <2>3. Kept = D \ {deliveredFloor}
    BY <1>4 DEF Kept, Pruned
  <2>4. IsFiniteSet(Kept) /\ Cardinality(Kept) = Window - 1
    BY <1>0, <2>1, <2>2, <2>3, FS_RemoveElement
  <2>5. /\ IsFiniteSet(DOMAIN delivered')
        /\ Cardinality(DOMAIN delivered') = Window
    <3>1. group \notin Kept
      BY <1>1
    <3>2. /\ IsFiniteSet(Kept \cup {group})
          /\ Cardinality(Kept \cup {group}) = Window - 1 + 1
      BY <2>4, <3>1, FS_AddElement
    <3> QED
      BY <1>0, <1>1, <3>2
  <2>6. WindowInv'
    BY <1>0, <1>1, <1>2, <2>3, <2>5 DEF WindowInv
  <2>7. deliveredFloor < deliveredFloor' /\ deliveredFloor' \in Nat
    <3>1. deliveredFloor' \in (D \ {deliveredFloor}) \cup {group}
      BY <1>1, <2>3 DEF IsLowest
    <3>2. deliveredFloor \in Nat /\ group \in Nat /\ deliveredFloor # group
      BY <1>0, <2>2, Zenon
    <3>3. deliveredFloor <= group
      BY <1>4, <3>2
    <3>4. CASE deliveredFloor' = group
      BY <3>2, <3>3, <3>4
    <3>5. CASE deliveredFloor' \in D \ {deliveredFloor}
      <4>1. deliveredFloor' \in Nat /\ deliveredFloor <= deliveredFloor'
        BY <1>0, <2>2, <3>5, Zenon
      <4> QED
        BY <3>2, <3>5, <4>1
    <3> QED
      BY <3>1, <3>4, <3>5
  <2>8. Full'
    BY <1>0, <2>5 DEF Full
  <2>9. ASSUME NEW o \in Objects, Remembered(o) PROVE Remembered(o)'
    <3>1. o.group \in Nat /\ deliveredFloor \in Nat
      BY <1>0, <2>2, ObjectTypes, Zenon
    <3>2. CASE o.group \in Kept /\ o.object \in delivered[o.group].objects
      BY <1>1, <3>2 DEF Remembered, Held
    <3>3. CASE o.group <= deliveredFloor
      BY <2>7, <2>8, <3>1, <3>3 DEF Remembered
    <3> QED
      BY <2>3, <2>9, <3>1, <3>2, <3>3 DEF Remembered, Held
  <2> QED
    BY <2>6, <2>9
<1> QED
  BY <1>3, <1>4

\* A Fresh claim keeps the invariant.
LEMMA FreshKeeps ==
    ASSUME LedgerInv, NEW c \in Contributors, NEW o \in Objects, ClaimFresh(c, o)
    PROVE  LedgerInv'
<1> DEFINE g == recordEnds(recordGaps(GroupOf(o.group), o), o)
           entry == [g EXCEPT !.objects = @ \cup {o.object}]
<1>1. /\ ~AgedOut(o)
      /\ o.object \notin GroupOf(o.group).objects
      /\ accepted' = [accepted EXCEPT ![o] = @ + 1]
      /\ \/ /\ Held(o.group)
            /\ delivered' = [delivered EXCEPT ![o.group] = entry]
            /\ UNCHANGED deliveredFloor
         \/ ~Held(o.group) /\ addDeliveredGroup(o.group, entry)
  BY DEF ClaimFresh, Admissible
<1>2. "objects" \in DOMAIN GroupOf(o.group)
  BY DEF GroupOf, NewGroup, LedgerInv, WindowInv, Held
<1>3. "objects" \in DOMAIN g /\ g.objects = GroupOf(o.group).objects
  BY <1>2, RecordKeepsObjects
<1> HIDE DEF g
<1>4. /\ "objects" \in DOMAIN entry
      /\ entry.objects = GroupOf(o.group).objects \cup {o.object}
  BY <1>3
<1> HIDE DEF entry
<1>5. /\ WindowInv'
      /\ \A x \in Objects : Remembered(x) => Remembered(x)'
      /\ Remembered(o)'
  <2>1. CASE /\ Held(o.group)
             /\ delivered' = [delivered EXCEPT ![o.group] = entry]
             /\ UNCHANGED deliveredFloor
    <3>1. GroupOf(o.group) = delivered[o.group] /\ o.group \in DOMAIN delivered
      BY <2>1 DEF GroupOf, Held
    <3>2. /\ WindowInv'
          /\ \A x \in Objects : Remembered(x) => Remembered(x)'
      BY <1>4, <2>1, <3>1, ExtendEntry, Zenon
    <3>3. Remembered(o)'
      BY <1>4, <2>1, <3>1 DEF Remembered, Held
    <3> QED
      BY <3>2, <3>3
  <2>2. CASE ~Held(o.group) /\ addDeliveredGroup(o.group, entry)
    <3>1. /\ WindowInv'
          /\ \A x \in Objects : Remembered(x) => Remembered(x)'
      BY <1>1, <1>4, <2>2, AddGroup, ObjectTypes DEF Held, AgedOut
    <3>2. Remembered(o)'
      BY <1>4, <2>2 DEF Remembered, Held, addDeliveredGroup
    <3> QED
      BY <3>1, <3>2
  <2> QED
    BY <1>1, <2>1, <2>2
<1>6. accepted \in [Objects -> Nat] /\ accepted' \in [Objects -> Nat]
  BY <1>1 DEF LedgerInv
<1>7. \A x \in Objects : accepted'[x] > 0 => Remembered(x)'
  BY <1>1, <1>5, <1>6 DEF LedgerInv
<1>8. \A x \in Objects : Loc(x) = Loc(o) => accepted[x] = 0
  BY <1>1, FreshIsNew
<1>9. ForwardedOnce'
  <2> SUFFICES ASSUME NEW a \in Objects, NEW b \in Objects,
                      Loc(a) = Loc(b), accepted'[a] > 0
               PROVE  accepted'[a] = 1 /\ (a # b => accepted'[b] = 0)
    BY DEF ForwardedOnce, Loc
  <2>1. CASE Loc(a) = Loc(o)
    <3>1. accepted[a] = 0 /\ accepted[b] = 0 /\ accepted[o] = 0
      BY <1>8, <2>1, Zenon
    <3>2. /\ accepted'[o] = accepted[o] + 1
          /\ a # o => accepted'[a] = accepted[a]
          /\ b # o => accepted'[b] = accepted[b]
      BY <1>1, <1>6
    <3> QED
      BY <3>1, <3>2
  <2>2. CASE Loc(a) # Loc(o)
    <3>1. accepted'[a] = accepted[a] /\ accepted'[b] = accepted[b]
      BY <1>1, <1>6, <2>2
    <3> QED
      BY <3>1 DEF LedgerInv, ForwardedOnce
  <2> QED
    BY <2>1, <2>2
<1> QED
  BY <1>5, <1>6, <1>7, <1>9 DEF LedgerInv

\* Every step keeps the invariant.
LEMMA LedgerStep == LedgerInv /\ [Next]_vars => LedgerInv'
<1> SUFFICES ASSUME LedgerInv, [Next]_vars PROVE LedgerInv'
  OBVIOUS
<1>1. ASSUME NEW c \in Contributors, NEW o \in Objects,
             ReadAfterTerminal(c, o) \/ ClaimMalformed(c, o) \/ ClaimAbsent(c, o)
      PROVE  LedgerInv'
  BY <1>1, SameLedger DEF ReadAfterTerminal, ClaimMalformed, ClaimAbsent,
                          EndMalformed, ledger
<1>2. ASSUME NEW c \in Contributors, NEW o \in Objects, NEW admitted \in BOOLEAN,
             ClaimAgedOut(c, o, admitted)
      PROVE  LedgerInv'
  BY <1>2, SameLedger DEF ClaimAgedOut, ledger
<1>3. ASSUME NEW c \in Contributors, NEW o \in Objects, ClaimRedundant(c, o)
      PROVE  LedgerInv'
  <2>1. o.group \in DOMAIN delivered
    BY <1>3 DEF ClaimRedundant, GroupOf, NewGroup, Held
  <2>2. /\ delivered' = [delivered EXCEPT ![o.group] =
                            recordGaps(delivered[o.group], o)]
        /\ UNCHANGED <<deliveredFloor, accepted>>
    BY <1>3 DEF ClaimRedundant
  <2>3. "objects" \in DOMAIN delivered[o.group]
    BY <2>1 DEF LedgerInv, WindowInv
  <2>4. /\ "objects" \in DOMAIN recordGaps(delivered[o.group], o)
        /\ recordGaps(delivered[o.group], o).objects = delivered[o.group].objects
    BY <2>3, RecordKeepsObjects
  <2>5. WindowInv' /\ \A x \in Objects : Remembered(x) => Remembered(x)'
    BY <2>1, <2>2, <2>4, ExtendEntry, Zenon
  <2> QED
    BY <2>2, <2>5 DEF LedgerInv, ForwardedOnce
<1>4. ASSUME NEW c \in Contributors, NEW o \in Objects, ClaimFresh(c, o)
      PROVE  LedgerInv'
  BY <1>4, FreshKeeps
<1>5. ASSUME NEW c \in Contributors, Put(c) \/ CheckDuplicate(c) \/ Reset(c)
      PROVE  LedgerInv'
  BY <1>5, SameLedger DEF Put, CheckDuplicate, Reset, EndMalformed, ledger
<1>6. ASSUME NEW c \in Contributors, RecordDuplicate(c)
      PROVE  LedgerInv'
  <2> DEFINE o == reader[c].obj
  <2>1. CASE UNCHANGED <<delivered, deliveredFloor, accepted>>
    BY <2>1, SameLedger
  <2>2. CASE /\ o.object \in GroupOf(o.group).objects
             /\ delivered' = [delivered EXCEPT ![o.group] =
                                recordEnds(delivered[o.group], o)]
             /\ UNCHANGED <<deliveredFloor, accepted>>
    <3>1. o.group \in DOMAIN delivered
      BY <2>2 DEF GroupOf, NewGroup, Held
    <3>2. "objects" \in DOMAIN delivered[o.group]
      BY <3>1 DEF LedgerInv, WindowInv
    <3>3. /\ "objects" \in DOMAIN recordEnds(delivered[o.group], o)
          /\ recordEnds(delivered[o.group], o).objects = delivered[o.group].objects
      BY <3>2, RecordKeepsObjects
    <3>4. WindowInv' /\ \A x \in Objects : Remembered(x) => Remembered(x)'
      BY <2>2, <3>1, <3>3, ExtendEntry, Zenon
    <3> QED
      BY <2>2, <3>4 DEF LedgerInv, ForwardedOnce
  <2> QED
    BY <1>6, <2>1, <2>2 DEF RecordDuplicate, EndMalformed, ledger
<1>7. ASSUME NEW c \in Contributors, NEW endOfGroup \in BOOLEAN, Fin(c, endOfGroup)
      PROVE  LedgerInv'
  <2> DEFINE o == last[c]
             e == recordSubgroupEnded(delivered[o.group], o, endOfGroup)
  <2>1. CASE UNCHANGED <<delivered, deliveredFloor, accepted>>
    BY <2>1, SameLedger
  <2>2. CASE /\ Held(o.group)
             /\ delivered' = [delivered EXCEPT ![o.group] = e]
             /\ UNCHANGED <<deliveredFloor, accepted>>
    <3>1. o.group \in DOMAIN delivered
      BY <2>2 DEF Held
    <3>2. "objects" \in DOMAIN delivered[o.group]
      BY <3>1 DEF LedgerInv, WindowInv
    <3>3. "objects" \in DOMAIN e /\ e.objects = delivered[o.group].objects
      BY <3>2, SubgroupEndedKeepsObjects
    <3> HIDE DEF e
    <3>4. WindowInv' /\ \A x \in Objects : Remembered(x) => Remembered(x)'
      BY <2>2, <3>1, <3>3, ExtendEntry, Zenon
    <3> QED
      BY <2>2, <3>4 DEF LedgerInv, ForwardedOnce
  <2> QED
    BY <1>7, <2>1, <2>2 DEF Fin, EndMalformed, ledger
<1>8. CASE UNCHANGED vars
  BY <1>8, SameLedger DEF vars
<1> QED
  BY <1>1, <1>2, <1>3, <1>4, <1>5, <1>6, <1>7, <1>8 DEF Next

\* The initial window holds nothing.
LEMMA InitialWindow == Init => LedgerInv
<1> SUFFICES ASSUME Init PROVE LedgerInv
  OBVIOUS
<1>1. DOMAIN delivered = {}
  BY DEF Init
<1>2. IsFiniteSet({}) /\ Cardinality({}) = 0 /\ 0 <= Window
  BY FS_EmptySet, ConstantsAssumption
<1>3. WindowInv
  BY <1>1, <1>2 DEF WindowInv
<1>4. accepted = [o \in Objects |-> 0]
  BY DEF Init
<1> QED
  BY <1>3, <1>4 DEF LedgerInv, ForwardedOnce

\* ClaimDelivered never reports one Location Fresh twice: whatever the window
\* has pruned, a second copy is redundant or aged out.
THEOREM ForwardedOnceHolds == Spec => []ForwardedOnce
<1>1. LedgerInv => ForwardedOnce
  BY DEF LedgerInv
<1> QED
  BY <1>1, InitialWindow, LedgerStep, PTL DEF Spec
----------------------------------------------------------------------------
EndType == [at : Nat, set : BOOLEAN, hard : BOOLEAN]

IsGroup(g) ==
    /\ DOMAIN g = {"objects", "maxNormal", "maxStatus", "subgroups", "end",
                   "objectGaps", "groupGap"}
    /\ g.maxNormal \in Int /\ g.maxStatus \in Int
    /\ g.end \in EndType
    /\ \A id \in DOMAIN g.subgroups : g.subgroups[id] \in SubgroupLedger

\* The maxima of a Group or a Subgroup count a.
Counted(m, a) == IF Normal(a) THEN a.object <= m.maxNormal ELSE a.object <= m.maxStatus

\* A Group's entry counts a, on its Subgroup too, and a is past no end of it.
Covers(g, a) ==
    /\ Counted(g, a)
    /\ ~a.datagram => a.subgroup \in DOMAIN g.subgroups /\ Counted(g.subgroups[a.subgroup], a)
Clear(g, a) ==
    /\ ~past(g.end, a.object, Normal(a))
    /\ (~a.datagram /\ a.subgroup \in DOMAIN g.subgroups)
         => ~past(g.subgroups[a.subgroup].end, a.object, Normal(a))

\* The maxima count every Object claimed, which is why checking them against a
\* new end is enough.
EndsInv ==
    /\ \A id \in DOMAIN delivered : IsGroup(delivered[id])
    /\ \A a \in Objects : accepted[a] > 0 /\ Held(a.group) =>
          Covers(delivered[a.group], a) /\ Clear(delivered[a.group], a)
    /\ trackEnd \in (ID \X ID) \cup {NoLoc}
    /\ \A a \in Objects : accepted[a] > 0 /\ trackEnd # NoLoc => ~Less(trackEnd, Loc(a))

\* The fields of an Object the ends depend on.
LEMMA EndFields ==
    ASSUME NEW o \in Objects
    PROVE  /\ o.object \in Nat /\ o.group \in Nat /\ o.object <= MaxID
           /\ o.subgroup \in ID /\ o.priority \in Nat /\ o.datagram \in BOOLEAN
           /\ Normal(o) \in BOOLEAN
           /\ groupEnd(o) \in EndType
           /\ EndAfter(o) \in EndType /\ EndAfter(o).set
           /\ \A e \in {groupEnd(o), EndAfter(o)} :
                 e.set => IF e.hard THEN e.at = o.object + 1 /\ Normal(o)
                                    ELSE e.at = o.object /\ ~Normal(o)
<1>1. /\ o.object \in ID /\ o.group \in ID /\ o.subgroup \in ID /\ o.priority \in Nat
      /\ o.datagram \in BOOLEAN /\ o.eog \in BOOLEAN
  BY ObjectsAssumption DEF ObjectInfo
<1>2. MaxID \in Nat
  BY ConstantsAssumption
<1>3. o.object \in Nat /\ o.group \in Nat /\ o.object <= MaxID
  BY <1>1, <1>2 DEF ID
<1>4. Normal(o) \in BOOLEAN
  BY DEF Normal
<1>5. /\ EndAfter(o) \in EndType /\ EndAfter(o).set
      /\ IF EndAfter(o).hard THEN EndAfter(o).at = o.object + 1 /\ Normal(o)
                             ELSE EndAfter(o).at = o.object /\ ~Normal(o)
  BY <1>3, <1>4 DEF EndAfter, End, EndType
<1>6. /\ groupEnd(o) \in EndType
      /\ groupEnd(o).set =>
           IF groupEnd(o).hard THEN groupEnd(o).at = o.object + 1 /\ Normal(o)
                               ELSE groupEnd(o).at = o.object /\ ~Normal(o)
  BY <1>1, <1>3, <1>4 DEF groupEnd, End, NoEnd, EndType
<1> QED BY <1>1, <1>3, <1>4, <1>5, <1>6

\* An end that no maximum is past is one nothing counted is past.
LEMMA CountedClear ==
    ASSUME NEW m, NEW a \in Objects, NEW e \in EndType,
           m.maxNormal \in Int, m.maxStatus \in Int,
           Counted(m, a), ~pastEnd(m, e)
    PROVE  ~past(e, a.object, Normal(a))
  BY EndFields DEF Counted, pastEnd, past, EndType

\* Ending at one more place leaves the end set, of its type and no higher.
LEMMA WithType ==
    ASSUME NEW e \in EndType, NEW at \in Nat, NEW hard \in BOOLEAN
    PROVE  /\ with(e, at, hard) \in EndType /\ with(e, at, hard).set
           /\ e.set => with(e, at, hard).at <= e.at
           /\ with(e, at, hard).at \in {at, e.at}
  BY DEF with, End, EndType

\* An Object that ends its Group or Subgroup is not past the new end.
LEMMA WithClear ==
    ASSUME NEW e \in EndType, NEW o \in Objects, NEW x \in {groupEnd(o), EndAfter(o)},
           x.set, ~past(e, o.object, Normal(o))
    PROVE  ~past(with(e, x.at, x.hard), o.object, Normal(o))
<1>1. x \in EndType /\ IF x.hard THEN x.at = o.object + 1 /\ Normal(o)
                                 ELSE x.at = o.object /\ ~Normal(o)
  BY EndFields
<1>2. o.object \in Nat /\ Normal(o) \in BOOLEAN
  BY EndFields
<1> QED BY <1>1, <1>2 DEF with, past, End, EndType

\* recordGaps touches no maximum, Subgroup or end.
LEMMA GapsKeepEnds ==
    ASSUME NEW g, NEW o, IsGroup(g)
    PROVE  /\ IsGroup(recordGaps(g, o))
           /\ recordGaps(g, o).maxNormal = g.maxNormal
           /\ recordGaps(g, o).maxStatus = g.maxStatus
           /\ recordGaps(g, o).subgroups = g.subgroups
           /\ recordGaps(g, o).end = g.end
           /\ recordGaps(g, o).objects = g.objects
           /\ g.objectGaps \subseteq recordGaps(g, o).objectGaps
  BY DEF IsGroup, recordGaps

\* The fields of a Group's entry after recordEnds.
LEMMA RecordEndsFields ==
    ASSUME NEW g, NEW o \in Objects, IsGroup(g)
    PROVE  LET r == recordEnds(g, o)
               e == groupEnd(o)
           IN /\ DOMAIN r = DOMAIN g
              /\ r.maxNormal = IF Normal(o) THEN MaxOf(g.maxNormal, o.object) ELSE g.maxNormal
              /\ r.maxStatus = IF Normal(o) THEN g.maxStatus ELSE MaxOf(g.maxStatus, o.object)
              /\ r.end = IF e.set THEN with(g.end, e.at, e.hard) ELSE g.end
              /\ r.subgroups = IF o.datagram THEN g.subgroups ELSE recordSubgroup(g, o)
              /\ r.objects = g.objects /\ r.objectGaps = g.objectGaps
<1>1. CASE Normal(o)
  BY <1>1 DEF recordEnds, withMaxima, IsGroup
<1>2. CASE ~Normal(o)
  BY <1>2 DEF recordEnds, withMaxima, IsGroup
<1> QED BY <1>1, <1>2

\* The Subgroups of a Group after recordSubgroup: only o's changes, by counting
\* o, and its end stays.
LEMMA RecordSubgroupFields ==
    ASSUME NEW g, NEW o \in Objects, IsGroup(g)
    PROVE  LET r == recordSubgroup(g, o)
               sg == SubgroupOf(g, o.subgroup, o.priority)
           IN /\ sg \in SubgroupLedger
              /\ DOMAIN r = DOMAIN g.subgroups \cup {o.subgroup}
              /\ \A id \in DOMAIN g.subgroups : id # o.subgroup => r[id] = g.subgroups[id]
              /\ r[o.subgroup] \in SubgroupLedger
              /\ r[o.subgroup].end = sg.end
              /\ r[o.subgroup].maxNormal = IF Normal(o) THEN MaxOf(sg.maxNormal, o.object) ELSE sg.maxNormal
              /\ r[o.subgroup].maxStatus = IF Normal(o) THEN sg.maxStatus ELSE MaxOf(sg.maxStatus, o.object)
<1> DEFINE sg == SubgroupOf(g, o.subgroup, o.priority)
           m == withMaxima(sg, o)
           e == [m EXCEPT !.minObject = IF @ = -1 \/ o.object < @ THEN o.object ELSE @]
<1>1. o.object \in Nat /\ o.priority \in Nat
  BY EndFields
<1>2. sg \in SubgroupLedger
  BY <1>1 DEF SubgroupOf, NewSubgroup, NoEnd, SubgroupLedger, IsGroup
<1>3. /\ m \in SubgroupLedger /\ m.end = sg.end
      /\ m.maxNormal = IF Normal(o) THEN MaxOf(sg.maxNormal, o.object) ELSE sg.maxNormal
      /\ m.maxStatus = IF Normal(o) THEN sg.maxStatus ELSE MaxOf(sg.maxStatus, o.object)
  <2> HIDE DEF sg
  <2>1. CASE Normal(o)
    BY <2>1, <1>1, <1>2 DEF withMaxima, SubgroupLedger, MaxOf
  <2>2. CASE ~Normal(o)
    BY <2>2, <1>1, <1>2 DEF withMaxima, SubgroupLedger, MaxOf
  <2> QED BY <2>1, <2>2
<1>4. /\ e \in SubgroupLedger /\ e.end = m.end
      /\ e.maxNormal = m.maxNormal /\ e.maxStatus = m.maxStatus
  <2> HIDE DEF m
  <2> QED BY <1>1, <1>3 DEF SubgroupLedger
<1>5. recordSubgroup(g, o) = Extend(g.subgroups, o.subgroup, e)
  BY DEF recordSubgroup
<1> HIDE DEF e, m, sg
<1>6. /\ DOMAIN recordSubgroup(g, o) = DOMAIN g.subgroups \cup {o.subgroup}
      /\ \A id \in DOMAIN g.subgroups : id # o.subgroup => recordSubgroup(g, o)[id] = g.subgroups[id]
      /\ recordSubgroup(g, o)[o.subgroup] = e
  BY <1>5 DEF Extend
<1>7. sg = SubgroupOf(g, o.subgroup, o.priority)
  BY DEF sg
<1> QED BY <1>2, <1>3, <1>4, <1>6, <1>7

\* Counting one Object more keeps those already counted.
LEMMA CountedGrows ==
    ASSUME NEW m, NEW n, NEW o \in Objects, NEW a \in Objects,
           m.maxNormal \in Int, m.maxStatus \in Int,
           n.maxNormal = IF Normal(o) THEN MaxOf(m.maxNormal, o.object) ELSE m.maxNormal,
           n.maxStatus = IF Normal(o) THEN m.maxStatus ELSE MaxOf(m.maxStatus, o.object)
    PROVE  Counted(n, o) /\ (Counted(m, a) => Counted(n, a))
<1>1. o.object \in Nat /\ a.object \in Nat
  BY EndFields
<1> QED BY <1>1 DEF Counted, MaxOf

\* An Object recorded on its Group's entry once the ends were checked: it is
\* counted and past no end, and so are those that were.
LEMMA RecordEndsKeeps ==
    ASSUME NEW g, NEW o \in Objects, IsGroup(g),
           ~past(g.end, o.object, Normal(o)),
           groupEnd(o).set => ~pastEnd(g, with(g.end, groupEnd(o).at, groupEnd(o).hard)),
           (~o.datagram /\ o.subgroup \in DOMAIN g.subgroups)
              => ~past(g.subgroups[o.subgroup].end, o.object, Normal(o))
    PROVE  /\ IsGroup(recordEnds(g, o))
           /\ Covers(recordEnds(g, o), o) /\ Clear(recordEnds(g, o), o)
           /\ \A a \in Objects : Covers(g, a) /\ Clear(g, a) =>
                 Covers(recordEnds(g, o), a) /\ Clear(recordEnds(g, o), a)
<1> DEFINE r == recordEnds(g, o)
           e == groupEnd(o)
           sg == SubgroupOf(g, o.subgroup, o.priority)
<1>1. /\ DOMAIN r = DOMAIN g
      /\ r.maxNormal = IF Normal(o) THEN MaxOf(g.maxNormal, o.object) ELSE g.maxNormal
      /\ r.maxStatus = IF Normal(o) THEN g.maxStatus ELSE MaxOf(g.maxStatus, o.object)
      /\ r.end = IF e.set THEN with(g.end, e.at, e.hard) ELSE g.end
      /\ r.subgroups = IF o.datagram THEN g.subgroups ELSE recordSubgroup(g, o)
  BY RecordEndsFields
<1>2. /\ sg \in SubgroupLedger
      /\ ~o.datagram =>
           /\ DOMAIN r.subgroups = DOMAIN g.subgroups \cup {o.subgroup}
           /\ \A id \in DOMAIN g.subgroups : id # o.subgroup => r.subgroups[id] = g.subgroups[id]
           /\ r.subgroups[o.subgroup] \in SubgroupLedger
           /\ r.subgroups[o.subgroup].end = sg.end
           /\ r.subgroups[o.subgroup].maxNormal = IF Normal(o) THEN MaxOf(sg.maxNormal, o.object) ELSE sg.maxNormal
           /\ r.subgroups[o.subgroup].maxStatus = IF Normal(o) THEN sg.maxStatus ELSE MaxOf(sg.maxStatus, o.object)
  <2> DEFINE q == recordSubgroup(g, o)
  <2>1. /\ sg \in SubgroupLedger
        /\ DOMAIN q = DOMAIN g.subgroups \cup {o.subgroup}
        /\ \A id \in DOMAIN g.subgroups : id # o.subgroup => q[id] = g.subgroups[id]
        /\ q[o.subgroup] \in SubgroupLedger
        /\ q[o.subgroup].end = sg.end
        /\ q[o.subgroup].maxNormal = IF Normal(o) THEN MaxOf(sg.maxNormal, o.object) ELSE sg.maxNormal
        /\ q[o.subgroup].maxStatus = IF Normal(o) THEN sg.maxStatus ELSE MaxOf(sg.maxStatus, o.object)
    BY RecordSubgroupFields, Zenon
  <2>2. ~o.datagram => r.subgroups = q
    BY <1>1
  <2> HIDE DEF q, r, sg
  <2> QED BY <2>1, <2>2
<1>3. /\ o.object \in Nat /\ o.datagram \in BOOLEAN /\ Normal(o) \in BOOLEAN
      /\ e \in EndType /\ g.end \in EndType /\ g.maxNormal \in Int /\ g.maxStatus \in Int
  BY EndFields DEF IsGroup
<1>4. r.end \in EndType
  <2>1. e.at \in Nat /\ e.hard \in BOOLEAN /\ e.set \in BOOLEAN
    BY <1>3 DEF EndType
  <2> QED BY <1>1, <1>3, <2>1, WithType, Zenon
<1>5. ~past(r.end, o.object, Normal(o))
  <2>1. CASE e.set
    BY <2>1, <1>1, <1>3, WithClear
  <2>2. CASE ~e.set
    BY <2>2, <1>1
  <2> QED BY <2>1, <2>2
<1>6. ASSUME NEW a \in Objects, Counted(g, a), ~past(g.end, a.object, Normal(a))
      PROVE  ~past(r.end, a.object, Normal(a))
  <2>1. CASE e.set
    <3>1. ~pastEnd(g, r.end)
      BY <2>1, <1>1
    <3> QED BY <3>1, <1>3, <1>4, <1>6, CountedClear
  <2>2. CASE ~e.set
    BY <2>2, <1>1, <1>6
  <2> QED BY <2>1, <2>2
<1>7. /\ Counted(r, o)
      /\ \A a \in Objects : Counted(g, a) => Counted(r, a)
  BY <1>1, <1>3, CountedGrows
<1>8. sg.maxNormal \in Int /\ sg.maxStatus \in Int /\ sg.end \in EndType
  BY <1>2 DEF SubgroupLedger, EndType
<1>9. /\ o.subgroup \in DOMAIN g.subgroups => sg = g.subgroups[o.subgroup]
      /\ o.subgroup \notin DOMAIN g.subgroups => sg.end = NoEnd
  BY DEF SubgroupOf, NewSubgroup
<1> HIDE DEF r, sg, e
<1>10. ~o.datagram =>
          /\ Counted(r.subgroups[o.subgroup], o)
          /\ \A a \in Objects : Counted(sg, a) => Counted(r.subgroups[o.subgroup], a)
  <2> SUFFICES ASSUME ~o.datagram, NEW a \in Objects
               PROVE  /\ Counted(r.subgroups[o.subgroup], o)
                      /\ Counted(sg, a) => Counted(r.subgroups[o.subgroup], a)
    OBVIOUS
  <2> DEFINE n == r.subgroups[o.subgroup]
  <2>1. /\ n.maxNormal = IF Normal(o) THEN MaxOf(sg.maxNormal, o.object) ELSE sg.maxNormal
        /\ n.maxStatus = IF Normal(o) THEN sg.maxStatus ELSE MaxOf(sg.maxStatus, o.object)
    BY <1>2
  <2> HIDE DEF n
  <2>2. Counted(n, o) /\ (Counted(sg, a) => Counted(n, a))
    BY <2>1, <1>8, CountedGrows
  <2> QED BY <2>2 DEF n
<1>11. Covers(r, o) /\ Clear(r, o)
  <2>1. ~o.datagram => ~past(sg.end, o.object, Normal(o))
    BY <1>9 DEF past, NoEnd
  <2> QED BY <1>2, <1>5, <1>7, <1>10, <2>1 DEF Covers, Clear
<1>12. ASSUME NEW a \in Objects, Covers(g, a), Clear(g, a)
       PROVE  Covers(r, a) /\ Clear(r, a)
  <2>1. Counted(r, a) /\ ~past(r.end, a.object, Normal(a))
    BY <1>6, <1>7, <1>12 DEF Covers, Clear
  <2>2. CASE a.datagram
    BY <2>1, <2>2 DEF Covers, Clear
  <2>3. CASE ~a.datagram /\ (o.datagram \/ a.subgroup # o.subgroup)
    <3>1. a.subgroup \in DOMAIN g.subgroups /\ r.subgroups[a.subgroup] = g.subgroups[a.subgroup]
      BY <2>3, <1>1, <1>2, <1>12 DEF Covers
    <3>2. a.subgroup \in DOMAIN r.subgroups
      BY <3>1, <1>1, <1>2, <2>3
    <3> QED BY <2>1, <2>3, <3>1, <3>2, <1>12 DEF Covers, Clear
  <2>4. CASE ~a.datagram /\ ~o.datagram /\ a.subgroup = o.subgroup
    <3>1. sg = g.subgroups[a.subgroup] /\ a.subgroup \in DOMAIN r.subgroups
      BY <2>4, <1>2, <1>9, <1>12 DEF Covers
    <3> QED BY <2>1, <2>4, <3>1, <1>2, <1>10, <1>12 DEF Covers, Clear
  <2>5. a.datagram \in BOOLEAN
    BY EndFields
  <2> QED BY <2>2, <2>3, <2>4, <2>5, <1>3
<1>13. IsGroup(r)
  <2>1. r.maxNormal \in Int /\ r.maxStatus \in Int
    BY <1>1, <1>3 DEF MaxOf
  <2>2. \A id \in DOMAIN r.subgroups : r.subgroups[id] \in SubgroupLedger
    BY <1>1, <1>2, <1>3 DEF IsGroup
  <2> QED BY <2>1, <2>2, <1>1, <1>4 DEF IsGroup
<1> QED BY <1>11, <1>12, <1>13 DEF r

\* The FIN of one of its Subgroups, once checked, likewise.
LEMMA SubgroupEndedKeeps ==
    ASSUME NEW g, NEW o \in Objects, NEW eog \in BOOLEAN, IsGroup(g),
           ~checkSubgroupEnded(g, o, eog).malformed
    PROVE  /\ IsGroup(recordSubgroupEnded(g, o, eog))
           /\ \A a \in Objects : Covers(g, a) /\ Clear(g, a) =>
                 /\ Covers(recordSubgroupEnded(g, o, eog), a)
                 /\ Clear(recordSubgroupEnded(g, o, eog), a)
<1> DEFINE r == recordSubgroupEnded(g, o, eog)
           e == EndAfter(o)
           sg == SubgroupOf(g, o.subgroup, o.priority)
           n == [sg EXCEPT !.end = with(@, e.at, e.hard)]
<1>1. /\ ~pastEnd(sg, with(sg.end, e.at, e.hard))
      /\ eog => ~pastEnd(g, with(g.end, e.at, e.hard))
  BY DEF checkSubgroupEnded, Malformed
<1>2. /\ e.at \in Nat /\ e.hard \in BOOLEAN /\ o.priority \in Nat
      /\ g.end \in EndType /\ g.maxNormal \in Int /\ g.maxStatus \in Int
  BY EndFields DEF IsGroup, EndType
<1>3. sg \in SubgroupLedger
  BY <1>2 DEF SubgroupOf, NewSubgroup, NoEnd, SubgroupLedger, IsGroup
<1>4. /\ DOMAIN r = DOMAIN g
      /\ r.maxNormal = g.maxNormal /\ r.maxStatus = g.maxStatus
      /\ r.end = IF eog THEN with(g.end, e.at, e.hard) ELSE g.end
      /\ r.subgroups = Extend(g.subgroups, o.subgroup, n)
  BY DEF recordSubgroupEnded, IsGroup
<1>5. o.subgroup \in DOMAIN g.subgroups => sg = g.subgroups[o.subgroup]
  BY DEF SubgroupOf
<1> HIDE DEF r, e, sg
<1>6. sg.end \in EndType /\ sg.maxNormal \in Int /\ sg.maxStatus \in Int
  BY <1>3 DEF SubgroupLedger, EndType
<1>7. with(sg.end, e.at, e.hard) \in EndType /\ with(g.end, e.at, e.hard) \in EndType
  BY <1>2, <1>6, WithType, Zenon
<1>8. /\ n \in SubgroupLedger /\ n.end = with(sg.end, e.at, e.hard)
      /\ n.maxNormal = sg.maxNormal /\ n.maxStatus = sg.maxStatus
  BY <1>3, <1>7 DEF SubgroupLedger, EndType
<1> HIDE DEF n
<1>9. /\ DOMAIN r.subgroups = DOMAIN g.subgroups \cup {o.subgroup}
      /\ r.subgroups[o.subgroup] = n
      /\ \A id \in DOMAIN g.subgroups : id # o.subgroup => r.subgroups[id] = g.subgroups[id]
  BY <1>4 DEF Extend
<1>10. IsGroup(r)
  <2>1. r.end \in EndType
    BY <1>2, <1>4, <1>7
  <2>2. \A id \in DOMAIN r.subgroups : r.subgroups[id] \in SubgroupLedger
    BY <1>8, <1>9 DEF IsGroup
  <2> QED BY <2>1, <2>2, <1>2, <1>4 DEF IsGroup
<1>11. ASSUME NEW a \in Objects, Covers(g, a), Clear(g, a)
       PROVE  Covers(r, a) /\ Clear(r, a)
  <2>1. Counted(r, a)
    BY <1>4, <1>11 DEF Covers, Counted
  <2>2. ~past(r.end, a.object, Normal(a))
    <3>1. CASE eog
      <4>1. ~pastEnd(g, r.end) /\ r.end \in EndType
        BY <3>1, <1>1, <1>4, <1>7
      <4> QED BY <4>1, <1>2, <1>11, CountedClear DEF Covers
    <3>2. CASE ~eog
      BY <3>2, <1>4, <1>11 DEF Clear
    <3> QED BY <3>1, <3>2
  <2>3. CASE ~a.datagram /\ a.subgroup = o.subgroup
    <3>1. Counted(sg, a)
      BY <2>3, <1>5, <1>11 DEF Covers
    <3>2. ~past(n.end, a.object, Normal(a))
      BY <3>1, <1>1, <1>6, <1>7, <1>8, CountedClear
    <3>3. Counted(n, a)
      BY <3>1, <1>8 DEF Counted
    <3> QED BY <2>1, <2>2, <2>3, <3>2, <3>3, <1>9 DEF Covers, Clear
  <2>4. CASE ~a.datagram /\ a.subgroup # o.subgroup
    BY <2>1, <2>2, <2>4, <1>9, <1>11 DEF Covers, Clear
  <2>5. CASE a.datagram
    BY <2>1, <2>2, <2>5 DEF Covers, Clear
  <2>6. a.datagram \in BOOLEAN
    BY EndFields
  <2> QED BY <2>3, <2>4, <2>5, <2>6
<1> QED BY <1>10, <1>11 DEF r

\* What checkEnds found in order: the Object is past no end known, and no Object
\* counted is past the end it adds.
LEMMA CheckedEnds ==
    ASSUME NEW o \in Objects, Held(o.group), ~checkEnds(o).malformed,
           IsGroup(delivered[o.group])
    PROVE  LET g == delivered[o.group]
           IN /\ ~past(g.end, o.object, Normal(o))
              /\ groupEnd(o).set => ~pastEnd(g, with(g.end, groupEnd(o).at, groupEnd(o).hard))
              /\ (~o.datagram /\ o.subgroup \in DOMAIN g.subgroups)
                   => ~past(g.subgroups[o.subgroup].end, o.object, Normal(o))
<1> DEFINE g == delivered[o.group]
<1>1. GroupOf(o.group) = g
  BY DEF GroupOf
<1>2. ~checkGroupEnd(g, o).malformed /\ ~checkSubgroup(g, o).malformed
  BY <1>1 DEF checkEnds
<1> HIDE DEF g
<1>3. /\ ~past(g.end, o.object, Normal(o))
      /\ groupEnd(o).set => ~pastEnd(g, with(g.end, groupEnd(o).at, groupEnd(o).hard))
  BY <1>2 DEF checkGroupEnd, Malformed
<1>4. (~o.datagram /\ o.subgroup \in DOMAIN g.subgroups)
         => ~past(g.subgroups[o.subgroup].end, o.object, Normal(o))
  BY <1>2 DEF checkSubgroup, Malformed, SubgroupOf
<1> QED BY <1>3, <1>4 DEF g

\* A full window holds a Group.
LEMMA FullHolds == Full => DOMAIN delivered # {}
<1>1. Cardinality({}) = 0 /\ Window \in Nat /\ Window > 0
  BY FS_EmptySet, ConstantsAssumption
<1> QED BY <1>1 DEF Full

\* A new end of the Track has nothing claimed past it.
LEMMA TrackEndKeeps ==
    ASSUME LedgerInv, EndsInv, NEW o \in Objects, ~checkEnds(o).malformed, ~AgedOut(o),
           recordTrackEnd(o)
    PROVE  /\ trackEnd' \in (ID \X ID) \cup {NoLoc}
           /\ \A a \in Objects : (accepted[a] > 0 \/ a = o) /\ trackEnd' # NoLoc
                 => ~Less(trackEnd', Loc(a))
<1>1. ~checkTrackEnd(o).malformed
  BY DEF checkEnds
<1>2. o.group \in ID /\ o.object \in ID /\ ID \subseteq Nat
  BY ObjectTypes
<1>3. CASE o.status # "EndOfTrack"
  <2>1. trackEnd' = trackEnd
    BY <1>3 DEF recordTrackEnd
  <2>2. trackEnd # NoLoc => ~Less(trackEnd, Loc(o))
    BY <1>1 DEF checkTrackEnd, Malformed
  <2> QED BY <2>1, <2>2 DEF EndsInv
<1>4. CASE o.status = "EndOfTrack"
  <2>1. trackEnd' = Loc(o)
    BY <1>4 DEF recordTrackEnd
  <2>2. GroupsPast(Loc(o)) = {}
    BY <1>1, <1>4 DEF checkTrackEnd, Malformed
  <2>3. ASSUME NEW a \in Objects, accepted[a] > 0 \/ a = o
        PROVE  ~Less(Loc(o), Loc(a))
    <3>0. a.group \in Nat /\ a.object \in Nat /\ o.group \in Nat /\ o.object \in Nat
      BY ObjectTypes
    <3>1. CASE a = o
      BY <3>0, <3>1 DEF Less, Loc
    <3>2. CASE accepted[a] > 0 /\ Held(a.group)
      <4>1. a.group \in DOMAIN delivered /\ a.group \notin GroupsPast(Loc(o))
        BY <3>2, <2>2 DEF Held
      <4>2. /\ ~(a.group > o.group)
            /\ a.group = o.group => ~pastEnd(delivered[a.group], End(o.object, FALSE))
        BY <4>1, Zenon DEF GroupsPast, Loc
      <4>3. CASE a.group = o.group
        <5>1. Counted(delivered[a.group], a) /\ IsGroup(delivered[a.group])
          BY <3>2 DEF EndsInv, Covers, Held
        <5>2. End(o.object, FALSE) \in EndType
          BY <3>0 DEF End, EndType
        <5>3. ~past(End(o.object, FALSE), a.object, Normal(a))
          BY <5>1, <5>2, <4>2, <4>3, CountedClear, Zenon DEF IsGroup
        <5> QED BY <5>3, <4>3, <3>0 DEF past, End, Less, Loc
      <4>4. CASE a.group # o.group
        BY <4>2, <4>4, <3>0 DEF Less, Loc
      <4> QED BY <4>3, <4>4
    <3>3. CASE accepted[a] > 0 /\ ~Held(a.group)
      <4>1. Full /\ a.group < deliveredFloor
        BY <3>3 DEF LedgerInv, Remembered
      <4>2. DOMAIN delivered # {}
        BY <4>1, FullHolds
      <4>3. deliveredFloor \in Nat
        BY <4>2, <1>2, Zenon DEF LedgerInv, WindowInv, IsLowest
      <4>4. deliveredFloor <= o.group
        BY <4>1, <4>2, <4>3, <3>0 DEF AgedOut, LedgerInv, WindowInv, IsLowest, Held
      <4> QED BY <4>1, <4>3, <4>4, <3>0 DEF Less, Loc
    <3> QED BY <2>3, <3>1, <3>2, <3>3
  <2> QED BY <2>1, <2>3, <1>2 DEF Loc
<1> QED BY <1>3, <1>4

\* Where an Object or a FIN after it ends its Group, as a range of IDs.
LEMMA EndRanges ==
    ASSUME NEW o \in Objects
    PROVE  /\ groupEnd(o).set => groupEnd(o).at \in ID
           /\ ~(Normal(o) /\ o.object = MaxID) => EndAfter(o).at \in ID
           /\ \A e \in {groupEnd(o), EndAfter(o)} :
                 e.set => /\ e.hard => e.at >= 1
                          /\ ~e.hard => e.at = o.object
<1>1. o.object \in ID /\ MaxID \in Nat /\ o.object \in Nat /\ o.object <= MaxID
  BY ObjectTypes, ConstantsAssumption, EndFields
<1>2. groupEnd(o).set => groupEnd(o).at \in ID
  BY <1>1 DEF groupEnd, End, NoEnd, ID
<1>3. ~(Normal(o) /\ o.object = MaxID) => EndAfter(o).at \in ID
  BY <1>1 DEF EndAfter, End, ID
<1>4. \A e \in {groupEnd(o), EndAfter(o)} :
         e.set => (e.hard => e.at >= 1) /\ (~e.hard => e.at = o.object)
  <2>1. \A e \in {groupEnd(o), EndAfter(o)} :
           e.set => IF e.hard THEN e.at = o.object + 1 /\ Normal(o)
                              ELSE e.at = o.object /\ ~Normal(o)
    BY EndFields
  <2> QED BY <1>1, <2>1
<1> QED BY <1>2, <1>3, <1>4

\* The successor of an ID is the next one, or 0.
LEMMA SuccCases ==
    ASSUME NEW id \in ID
    PROVE  Succ(id) = IF id < MaxID THEN id + 1 ELSE 0
<1>1. MaxID \in Nat /\ id \in Nat /\ id <= MaxID
  BY ConstantsAssumption DEF ID
<1>2. CASE id < MaxID
  <2>1. id + 1 \in 0..MaxID
    BY <1>1, <1>2
  <2>2. (id + 1) % (MaxID + 1) = id + 1
    BY <1>1, <2>1
  <2> QED BY <1>2, <2>2 DEF Succ
<1>3. CASE id = MaxID
  <2>1. (MaxID + 1) % (MaxID + 1) = 0
    BY <1>1
  <2> QED BY <1>1, <1>3, <2>1 DEF Succ
<1> QED BY <1>1, <1>2, <1>3

\* Ending at one more place that does not conflict: a soft end is the one added
\* or the one there was.
LEMMA WithCases ==
    ASSUME NEW e \in EndType, NEW at \in ID, NEW hard \in BOOLEAN,
           e.set => e.at \in ID /\ (e.hard => e.at >= 1),
           hard => at >= 1, ~conflicts(e, at, hard)
    PROVE  LET w == with(e, at, hard)
           IN /\ w.at \in ID
              /\ w.hard => w.at >= 1
              /\ ~w.hard => \/ ~hard /\ w.at = at
                            \/ e.set /\ ~e.hard /\ w.at = e.at
<1>1. at \in Nat /\ e.at \in Nat /\ ID \subseteq Nat /\ e.set \in BOOLEAN /\ e.hard \in BOOLEAN
  BY ConstantsAssumption DEF ID, EndType
<1>2. CASE ~e.set \/ ~(at < e.at)
  BY <1>1, <1>2 DEF with, End
<1>3. CASE e.set /\ at < e.at
  <2>1. with(e, at, hard).at = at /\ with(e, at, hard).hard = FALSE
    BY <1>1, <1>3 DEF with, End
  <2>2. ~hard
    <3>1. CASE hard /\ e.hard
      BY <1>1, <1>3, <3>1 DEF conflicts
    <3>2. CASE hard /\ ~e.hard
      <4>1. at = Succ(e.at)
        BY <1>1, <1>3, <3>2 DEF conflicts
      <4>2. Succ(e.at) = IF e.at < MaxID THEN e.at + 1 ELSE 0
        BY <1>3, SuccCases
      <4> QED BY <1>1, <1>3, <3>2, <4>1, <4>2
    <3> QED BY <1>1, <3>1, <3>2
  <2> QED BY <2>1, <2>2
<1> QED BY <1>1, <1>2, <1>3

\* What checkEnds and SubgroupEnded found in order conflicts with no end known.
LEMMA NoConflict ==
    ASSUME NEW o \in Objects
    PROVE  /\ ~checkEnds(o).malformed /\ groupEnd(o).set
                => ~conflicts(GroupOf(o.group).end, groupEnd(o).at, groupEnd(o).hard)
           /\ \A g : ~checkSubgroupEnded(g, o, TRUE).malformed
                => ~conflicts(g.end, EndAfter(o).at, EndAfter(o).hard)
<1>1. ASSUME ~checkEnds(o).malformed, groupEnd(o).set
      PROVE  ~conflicts(GroupOf(o.group).end, groupEnd(o).at, groupEnd(o).hard)
  <2>1. CASE Held(o.group)
    <3>1. ~checkGroupEnd(GroupOf(o.group), o).malformed
      BY <1>1, <2>1 DEF checkEnds
    <3> QED BY <1>1, <3>1 DEF checkGroupEnd, Malformed
  <2>2. CASE ~Held(o.group)
    BY <2>2 DEF GroupOf, NewGroup, NoEnd, conflicts
  <2> QED BY <2>1, <2>2
<1>2. ASSUME NEW g, ~checkSubgroupEnded(g, o, TRUE).malformed
      PROVE  ~conflicts(g.end, EndAfter(o).at, EndAfter(o).hard)
  BY <1>2 DEF checkSubgroupEnded, Malformed
<1> QED BY <1>1, <1>2, Zenon

\* The entry an Object is checked against, held or about to be added.
LEMMA CheckedEntry ==
    ASSUME EndsInv, NEW o \in Objects, ~checkEnds(o).malformed
    PROVE  LET g == GroupOf(o.group)
           IN /\ IsGroup(g)
              /\ ~past(g.end, o.object, Normal(o))
              /\ groupEnd(o).set => ~pastEnd(g, with(g.end, groupEnd(o).at, groupEnd(o).hard))
              /\ (~o.datagram /\ o.subgroup \in DOMAIN g.subgroups)
                   => ~past(g.subgroups[o.subgroup].end, o.object, Normal(o))
<1>1. CASE Held(o.group)
  <2>1. IsGroup(delivered[o.group]) /\ GroupOf(o.group) = delivered[o.group]
    BY <1>1 DEF EndsInv, Held, GroupOf
  <2> QED BY <1>1, <2>1, CheckedEnds
<1>2. CASE ~Held(o.group)
  <2>1. GroupOf(o.group) = NewGroup
    BY <1>2 DEF GroupOf
  <2>2. DOMAIN NewGroup.subgroups = {}
    BY DEF NewGroup
  <2>3. /\ IsGroup(NewGroup)
        /\ NewGroup.end = NoEnd /\ NewGroup.maxNormal = -1 /\ NewGroup.maxStatus = -1
    BY <2>2 DEF NewGroup, IsGroup, EndType, NoEnd
  <2>4. ~past(NoEnd, o.object, Normal(o))
    BY DEF past, NoEnd
  <2>5. \A e : ~pastEnd(NewGroup, e)
    BY <2>3 DEF pastEnd
  <2> QED BY <2>1, <2>2, <2>3, <2>4, <2>5
<1> QED BY <1>1, <1>2

\* The entry after a Fresh claim.
FreshEntry(o) ==
    [recordEnds(recordGaps(GroupOf(o.group), o), o) EXCEPT !.objects = @ \cup {o.object}]

\* It counts the Object claimed, and what the entry before it counted.
LEMMA FreshEntryKeeps ==
    ASSUME EndsInv, NEW o \in Objects, ~checkEnds(o).malformed
    PROVE  /\ IsGroup(FreshEntry(o))
           /\ Covers(FreshEntry(o), o) /\ Clear(FreshEntry(o), o)
           /\ \A a \in Objects : Covers(GroupOf(o.group), a) /\ Clear(GroupOf(o.group), a) =>
                 Covers(FreshEntry(o), a) /\ Clear(FreshEntry(o), a)
<1> DEFINE g == GroupOf(o.group)
           h == recordGaps(g, o)
           r == recordEnds(h, o)
           f == FreshEntry(o)
<1>1. /\ IsGroup(g)
      /\ ~past(g.end, o.object, Normal(o))
      /\ groupEnd(o).set => ~pastEnd(g, with(g.end, groupEnd(o).at, groupEnd(o).hard))
      /\ (~o.datagram /\ o.subgroup \in DOMAIN g.subgroups)
           => ~past(g.subgroups[o.subgroup].end, o.object, Normal(o))
  BY CheckedEntry
<1> HIDE DEF g
<1>2. /\ IsGroup(h) /\ h.maxNormal = g.maxNormal /\ h.maxStatus = g.maxStatus
      /\ h.subgroups = g.subgroups /\ h.end = g.end
  BY <1>1, GapsKeepEnds
<1>3. f = [r EXCEPT !.objects = @ \cup {o.object}]
  BY DEF FreshEntry, g
<1> HIDE DEF h, f
<1>4. groupEnd(o).set => ~pastEnd(h, with(h.end, groupEnd(o).at, groupEnd(o).hard))
  BY <1>1, <1>2, Zenon DEF pastEnd
<1>5. \A a \in Objects : Covers(g, a) /\ Clear(g, a) => Covers(h, a) /\ Clear(h, a)
  BY <1>2 DEF Covers, Clear, Counted
<1>6. /\ IsGroup(r) /\ Covers(r, o) /\ Clear(r, o)
      /\ \A a \in Objects : Covers(h, a) /\ Clear(h, a) => Covers(r, a) /\ Clear(r, a)
  BY <1>1, <1>2, <1>4, RecordEndsKeeps
<1> HIDE DEF r
<1>7. /\ DOMAIN f = DOMAIN r
      /\ f.maxNormal = r.maxNormal /\ f.maxStatus = r.maxStatus
      /\ f.subgroups = r.subgroups /\ f.end = r.end
  BY <1>3, <1>6 DEF IsGroup
<1>8. /\ IsGroup(f)
      /\ \A a \in Objects : Covers(r, a) /\ Clear(r, a) => Covers(f, a) /\ Clear(f, a)
  BY <1>6, <1>7 DEF IsGroup, Covers, Clear, Counted
<1> QED BY <1>5, <1>6, <1>8 DEF f, g

\* What a Fresh entry keeps, and where it says its Group ends.
LEMMA FreshEntryFields ==
    ASSUME EndsInv, NEW o \in Objects, ~checkEnds(o).malformed
    PROVE  LET g == GroupOf(o.group)
               f == FreshEntry(o)
               e == groupEnd(o)
           IN /\ IsGroup(g) /\ IsGroup(f)
              /\ f.objects = g.objects \cup {o.object}
              /\ g.objectGaps \subseteq f.objectGaps
              /\ f.end = IF e.set THEN with(g.end, e.at, e.hard) ELSE g.end
              /\ g.end.set => f.end.set /\ f.end.at <= g.end.at
<1> DEFINE g == GroupOf(o.group)
           h == recordGaps(g, o)
           r == recordEnds(h, o)
           f == FreshEntry(o)
           e == groupEnd(o)
<1>1. IsGroup(g) /\ IsGroup(f)
  BY CheckedEntry, FreshEntryKeeps
<1>2. f = [r EXCEPT !.objects = @ \cup {o.object}]
  BY DEF FreshEntry
<1> HIDE DEF g, f
<1>3. IsGroup(h) /\ h.end = g.end /\ h.objects = g.objects /\ g.objectGaps \subseteq h.objectGaps
  BY <1>1, GapsKeepEnds
<1> HIDE DEF h
<1>4. /\ DOMAIN r = DOMAIN h
      /\ r.end = IF e.set THEN with(h.end, e.at, e.hard) ELSE h.end
      /\ r.objects = h.objects /\ r.objectGaps = h.objectGaps
  BY <1>3, RecordEndsFields
<1> HIDE DEF r, e
<1>5. /\ f.objects = g.objects \cup {o.object}
      /\ g.objectGaps \subseteq f.objectGaps
      /\ f.end = IF e.set THEN with(g.end, e.at, e.hard) ELSE g.end
  BY <1>2, <1>3, <1>4 DEF IsGroup
<1>6. g.end.set => f.end.set /\ f.end.at <= g.end.at
  <2>1. g.end \in EndType /\ e \in EndType
    BY <1>1, EndFields DEF IsGroup, e
  <2>2. g.end.at \in Nat /\ e.at \in Nat /\ e.hard \in BOOLEAN
    BY <2>1 DEF EndType
  <2> QED BY <1>5, <2>1, <2>2, WithType
<1> QED BY <1>1, <1>5, <1>6 DEF e, f, g

\* What the readers are doing keeps its type.
ReadersOK ==
    /\ reader \in [Contributors -> {Idle} \cup [step : {"put", "check", "record"}, obj : Objects]]
    /\ last \in [Contributors -> Objects \cup {NoObj}]

\* A reader that is not idle holds an Object.
LEMMA ReaderObject ==
    ASSUME ReadersOK, NEW c \in Contributors, reader[c].step = "record"
    PROVE  reader[c].obj \in Objects
<1>1. reader[c] \in {Idle} \cup [step : {"put", "check", "record"}, obj : Objects]
  BY DEF ReadersOK
<1>2. reader[c] # Idle
  BY DEF Idle
<1>3. reader[c] \in [step : {"put", "check", "record"}, obj : Objects]
  BY <1>1, <1>2
<1> QED BY <1>3

\* Every step leaves each reader idle or with an Object (recordInbound).
LEMMA ReadersStep == ReadersOK /\ [Next]_vars => ReadersOK'
<1> SUFFICES ASSUME ReadersOK, [Next]_vars PROVE ReadersOK'
  OBVIOUS
<1>1. ASSUME NEW c \in Contributors, NEW o \in Objects,
             NEW step \in {"idle", "put", "check"}, GoTo(c, step, o)
      PROVE  ReadersOK'
  BY <1>1 DEF GoTo, ReadersOK
<1>2. ASSUME NEW c \in Contributors, NEW o, NEW purge, NEW triggering,
             EndMalformed(c, o, purge, triggering)
      PROVE  ReadersOK'
  BY <1>2 DEF EndMalformed, ReadersOK
<1>3. ASSUME NEW c \in Contributors, NEW o \in Objects,
             ReadAfterTerminal(c, o) \/ ClaimMalformed(c, o)
      PROVE  ReadersOK'
  BY <1>2, <1>3 DEF ReadAfterTerminal, ClaimMalformed
<1>4. ASSUME NEW c \in Contributors, NEW o \in Objects,
             ClaimAbsent(c, o) \/ ClaimRedundant(c, o) \/ ClaimFresh(c, o)
      PROVE  ReadersOK'
  <2>1. GoTo(c, "check", o) \/ GoTo(c, "put", o)
    BY <1>4 DEF ClaimAbsent, ClaimRedundant, ClaimFresh
  <2> QED BY <1>1, <2>1
<1>5. ASSUME NEW c \in Contributors, NEW o \in Objects, NEW admitted \in BOOLEAN,
             ClaimAgedOut(c, o, admitted)
      PROVE  ReadersOK'
  <2>1. GoTo(c, "check", o) \/ GoTo(c, "put", o) \/ GoTo(c, "idle", o)
    BY <1>5 DEF ClaimAgedOut
  <2> QED BY <1>1, <2>1
<1>6. ASSUME NEW c \in Contributors, Put(c) \/ Reset(c)
      PROVE  ReadersOK'
  BY <1>6 DEF Put, Reset, ReadersOK
<1>7. ASSUME NEW c \in Contributors, CheckDuplicate(c)
      PROVE  ReadersOK'
  <2>1. CASE /\ reader[c].step = "check"
             /\ reader' = [reader EXCEPT ![c].step = "record"] /\ UNCHANGED last
    <3>1. reader[c] \in [step : {"put", "check", "record"}, obj : Objects]
      BY <2>1 DEF ReadersOK, Idle
    <3>2. [reader[c] EXCEPT !.step = "record"]
             \in [step : {"put", "check", "record"}, obj : Objects]
      BY <3>1
    <3>3. reader' = [reader EXCEPT ![c] = [reader[c] EXCEPT !.step = "record"]]
      BY <2>1
    <3> QED BY <2>1, <3>2, <3>3 DEF ReadersOK
  <2> QED BY <1>2, <1>7, <2>1 DEF CheckDuplicate
<1>8. ASSUME NEW c \in Contributors, RecordDuplicate(c)
      PROVE  ReadersOK'
  <2>1. CASE reader' = [reader EXCEPT ![c] = Idle] /\ UNCHANGED last
    BY <2>1 DEF ReadersOK
  <2> QED BY <1>2, <1>8, <2>1 DEF RecordDuplicate
<1>9. ASSUME NEW c \in Contributors, NEW endOfGroup \in BOOLEAN, Fin(c, endOfGroup)
      PROVE  ReadersOK'
  <2>1. CASE last' = [last EXCEPT ![c] = NoObj] /\ UNCHANGED reader
    BY <2>1 DEF ReadersOK
  <2> QED BY <1>2, <1>9, <2>1 DEF Fin
<1>10. CASE UNCHANGED vars
  BY <1>10 DEF vars, ReadersOK
<1> QED
  BY <1>3, <1>4, <1>5, <1>6, <1>7, <1>8, <1>9, <1>10 DEF Next

\* A step that changes one held Group's entry, counting what it counted.
LEMMA EndsExtend ==
    ASSUME EndsInv, NEW id \in DOMAIN delivered, NEW e, IsGroup(e),
           delivered' = [delivered EXCEPT ![id] = e],
           \A a \in Objects : accepted'[a] > 0 /\ a.group = id => Covers(e, a) /\ Clear(e, a),
           \A a \in Objects : a.group # id => accepted'[a] = accepted[a],
           trackEnd' \in (ID \X ID) \cup {NoLoc},
           \A a \in Objects : accepted'[a] > 0 /\ trackEnd' # NoLoc => ~Less(trackEnd', Loc(a))
    PROVE  EndsInv'
<1>1. \A x \in DOMAIN delivered' : IsGroup(delivered'[x])
  BY DEF EndsInv
<1>2. ASSUME NEW a \in Objects, accepted'[a] > 0, a.group \in DOMAIN delivered'
      PROVE  Covers(delivered'[a.group], a) /\ Clear(delivered'[a.group], a)
  <2>1. CASE a.group = id
    BY <1>2, <2>1
  <2>2. CASE a.group # id
    BY <1>2, <2>2 DEF EndsInv, Held
  <2> QED BY <2>1, <2>2
<1> QED BY <1>1, <1>2 DEF EndsInv, Held

\* A step that leaves Groups, ends and claims alone.
LEMMA EndsSame ==
    ASSUME EndsInv, UNCHANGED <<delivered, trackEnd, accepted>>
    PROVE  EndsInv'
  BY DEF EndsInv, Held

\* A Fresh claim leaves nothing claimed past an end.
LEMMA EndsFresh ==
    ASSUME LedgerInv, EndsInv, NEW c \in Contributors, NEW o \in Objects, ClaimFresh(c, o)
    PROVE  EndsInv'
<1> DEFINE f == FreshEntry(o)
<1>1. /\ ~AgedOut(o) /\ ~checkEnds(o).malformed
      /\ accepted' = [accepted EXCEPT ![o] = @ + 1]
      /\ recordTrackEnd(o)
      /\ \/ Held(o.group) /\ delivered' = [delivered EXCEPT ![o.group] = f]
         \/ ~Held(o.group) /\ addDeliveredGroup(o.group, f)
  BY DEF ClaimFresh, Admissible, Rejected, FreshEntry
<1>2. /\ IsGroup(f) /\ Covers(f, o) /\ Clear(f, o)
      /\ \A a \in Objects : Covers(GroupOf(o.group), a) /\ Clear(GroupOf(o.group), a) =>
            Covers(f, a) /\ Clear(f, a)
  BY <1>1, FreshEntryKeeps
<1> HIDE DEF f
<1>3. /\ accepted \in [Objects -> Nat]
      /\ \A a \in Objects : accepted'[a] > 0 => accepted[a] > 0 \/ a = o
      /\ \A a \in Objects : a # o => accepted'[a] = accepted[a]
  BY <1>1 DEF LedgerInv
<1>4. /\ trackEnd' \in (ID \X ID) \cup {NoLoc}
      /\ \A a \in Objects : accepted'[a] > 0 /\ trackEnd' # NoLoc => ~Less(trackEnd', Loc(a))
  BY <1>1, <1>3, TrackEndKeeps
<1>5. CASE Held(o.group) /\ delivered' = [delivered EXCEPT ![o.group] = f]
  <2>1. o.group \in DOMAIN delivered /\ GroupOf(o.group) = delivered[o.group]
    BY <1>5 DEF Held, GroupOf
  <2>2. \A a \in Objects : accepted'[a] > 0 /\ a.group = o.group => Covers(f, a) /\ Clear(f, a)
    BY <1>2, <1>3, <2>1 DEF EndsInv, Held
  <2>3. \A a \in Objects : a.group # o.group => accepted'[a] = accepted[a]
    BY <1>3
  <2> QED BY <1>2, <1>4, <1>5, <2>1, <2>2, <2>3, EndsExtend, Zenon
<1>6. CASE ~Held(o.group) /\ addDeliveredGroup(o.group, f)
  <2>1. /\ DOMAIN delivered' = Kept \cup {o.group} /\ Kept \subseteq DOMAIN delivered
        /\ delivered'[o.group] = f
        /\ \A id \in Kept : id # o.group /\ delivered'[id] = delivered[id]
    BY <1>6 DEF addDeliveredGroup, Kept, Held
  <2>2. \A id \in DOMAIN delivered' : IsGroup(delivered'[id])
    BY <1>2, <2>1 DEF EndsInv
  <2>3. ASSUME NEW a \in Objects, accepted'[a] > 0, a.group \in DOMAIN delivered'
        PROVE  Covers(delivered'[a.group], a) /\ Clear(delivered'[a.group], a)
    <3>1. CASE a = o
      BY <3>1, <1>2, <2>1
    <3>2. CASE a # o /\ a.group = o.group
      <4>1. accepted[a] > 0
        BY <1>3, <2>3, <3>2
      <4>2. Full /\ a.group < deliveredFloor
        BY <4>1, <1>6, <3>2 DEF LedgerInv, Remembered
      <4> QED BY <4>2, <3>2, <1>1, <1>6 DEF AgedOut
    <3>3. CASE a.group # o.group
      <4>1. accepted[a] > 0 /\ a.group \in Kept
        BY <1>3, <2>1, <2>3, <3>3
      <4> QED BY <4>1, <2>1 DEF EndsInv, Held
    <3> QED BY <3>1, <3>2, <3>3
  <2> QED BY <2>2, <2>3, <1>4 DEF EndsInv, Held
<1> QED BY <1>1, <1>5, <1>6

\* Every step keeps the invariant of the ends.
LEMMA EndsStep == LedgerInv /\ EndsInv /\ ReadersOK /\ [Next]_vars => EndsInv'
<1> SUFFICES ASSUME LedgerInv, EndsInv, ReadersOK, [Next]_vars PROVE EndsInv'
  OBVIOUS
<1>1. ASSUME NEW c \in Contributors, NEW o \in Objects,
             ReadAfterTerminal(c, o) \/ ClaimMalformed(c, o) \/ ClaimAbsent(c, o)
      PROVE  EndsInv'
  BY <1>1, EndsSame DEF ReadAfterTerminal, ClaimMalformed, ClaimAbsent,
                        EndMalformed, ledger
<1>2. ASSUME NEW c \in Contributors, NEW o \in Objects, NEW admitted \in BOOLEAN,
             ClaimAgedOut(c, o, admitted)
      PROVE  EndsInv'
  BY <1>2, EndsSame DEF ClaimAgedOut, ledger
<1>3. ASSUME NEW c \in Contributors, NEW o \in Objects, ClaimRedundant(c, o)
      PROVE  EndsInv'
  <2> DEFINE e == recordGaps(delivered[o.group], o)
  <2>1. /\ o.group \in DOMAIN delivered
        /\ delivered' = [delivered EXCEPT ![o.group] = e]
        /\ UNCHANGED <<trackEnd, accepted>>
    BY <1>3 DEF ClaimRedundant, GroupOf, NewGroup, Held
  <2>2. IsGroup(delivered[o.group])
    BY <2>1 DEF EndsInv
  <2>3. /\ IsGroup(e)
        /\ e.maxNormal = delivered[o.group].maxNormal
        /\ e.maxStatus = delivered[o.group].maxStatus
        /\ e.subgroups = delivered[o.group].subgroups
        /\ e.end = delivered[o.group].end
    BY <2>2, GapsKeepEnds
  <2> HIDE DEF e
  <2>4. \A a \in Objects : accepted[a] > 0 /\ a.group = o.group => Covers(e, a) /\ Clear(e, a)
    BY <2>1, <2>3 DEF EndsInv, Held, Covers, Clear, Counted
  <2>5. /\ trackEnd \in (ID \X ID) \cup {NoLoc}
        /\ \A a \in Objects : accepted[a] > 0 /\ trackEnd # NoLoc => ~Less(trackEnd, Loc(a))
    BY DEF EndsInv
  <2> QED BY <2>1, <2>3, <2>4, <2>5, EndsExtend, Zenon
<1>4. ASSUME NEW c \in Contributors, NEW o \in Objects, ClaimFresh(c, o)
      PROVE  EndsInv'
  BY <1>4, EndsFresh
<1>5. ASSUME NEW c \in Contributors, Put(c) \/ CheckDuplicate(c) \/ Reset(c)
      PROVE  EndsInv'
  BY <1>5, EndsSame DEF Put, CheckDuplicate, Reset, EndMalformed, ledger
<1>6. ASSUME NEW c \in Contributors, RecordDuplicate(c)
      PROVE  EndsInv'
  <2> DEFINE o == reader[c].obj
             e == recordEnds(delivered[o.group], o)
  <2>1. CASE UNCHANGED <<delivered, trackEnd, accepted>>
    BY <2>1, EndsSame
  <2>2. CASE /\ reader[c].step = "record"
             /\ o.object \in GroupOf(o.group).objects /\ ~checkEnds(o).malformed
             /\ delivered' = [delivered EXCEPT ![o.group] = e]
             /\ recordTrackEnd(o) /\ UNCHANGED accepted
    <3>1. o \in Objects
      BY <2>2, ReaderObject
    <3>2. o.group \in DOMAIN delivered /\ Held(o.group) /\ ~AgedOut(o)
      BY <2>2 DEF GroupOf, NewGroup, Held, AgedOut
    <3>3. IsGroup(delivered[o.group])
      BY <3>2 DEF EndsInv
    <3>4. /\ IsGroup(e)
          /\ \A a \in Objects :
                Covers(delivered[o.group], a) /\ Clear(delivered[o.group], a)
                  => Covers(e, a) /\ Clear(e, a)
      <4> HIDE DEF o
      <4>1. LET g == delivered[o.group]
            IN /\ ~past(g.end, o.object, Normal(o))
               /\ groupEnd(o).set => ~pastEnd(g, with(g.end, groupEnd(o).at, groupEnd(o).hard))
               /\ (~o.datagram /\ o.subgroup \in DOMAIN g.subgroups)
                    => ~past(g.subgroups[o.subgroup].end, o.object, Normal(o))
        BY <2>2, <3>1, <3>2, <3>3, CheckedEnds
      <4> QED BY <3>1, <3>3, <4>1, RecordEndsKeeps
    <3> HIDE DEF o, e
    <3>5. \A a \in Objects : accepted[a] > 0 /\ a.group = o.group => Covers(e, a) /\ Clear(e, a)
      BY <3>2, <3>4 DEF EndsInv, Held
    <3>6. /\ trackEnd' \in (ID \X ID) \cup {NoLoc}
          /\ \A a \in Objects : accepted[a] > 0 /\ trackEnd' # NoLoc => ~Less(trackEnd', Loc(a))
      BY <2>2, <3>1, <3>2, TrackEndKeeps
    <3> QED BY <2>2, <3>2, <3>4, <3>5, <3>6, EndsExtend, Zenon
  <2> QED
    BY <1>6, <2>1, <2>2 DEF RecordDuplicate, EndMalformed, ledger
<1>7. ASSUME NEW c \in Contributors, NEW endOfGroup \in BOOLEAN, Fin(c, endOfGroup)
      PROVE  EndsInv'
  <2> DEFINE o == last[c]
             e == recordSubgroupEnded(delivered[o.group], o, endOfGroup)
  <2>1. CASE UNCHANGED <<delivered, trackEnd, accepted>>
    BY <2>1, EndsSame
  <2>2. CASE /\ o # NoObj /\ Held(o.group)
             /\ ~checkSubgroupEnded(GroupOf(o.group), o, endOfGroup).malformed
             /\ delivered' = [delivered EXCEPT ![o.group] = e]
             /\ UNCHANGED <<trackEnd, accepted>>
    <3>1. o \in Objects
      BY <2>2 DEF ReadersOK
    <3>2. /\ o.group \in DOMAIN delivered /\ GroupOf(o.group) = delivered[o.group]
          /\ IsGroup(delivered[o.group])
      BY <2>2 DEF GroupOf, Held, EndsInv
    <3>3. /\ IsGroup(e)
          /\ \A a \in Objects :
                Covers(delivered[o.group], a) /\ Clear(delivered[o.group], a)
                  => Covers(e, a) /\ Clear(e, a)
      <4> HIDE DEF o
      <4> QED BY <2>2, <3>1, <3>2, SubgroupEndedKeeps
    <3> HIDE DEF o, e
    <3>4. \A a \in Objects : accepted[a] > 0 /\ a.group = o.group => Covers(e, a) /\ Clear(e, a)
      BY <3>2, <3>3 DEF EndsInv, Held
    <3>5. /\ trackEnd \in (ID \X ID) \cup {NoLoc}
          /\ \A a \in Objects : accepted[a] > 0 /\ trackEnd # NoLoc => ~Less(trackEnd, Loc(a))
      BY DEF EndsInv
    <3> QED BY <2>2, <3>2, <3>3, <3>4, <3>5, EndsExtend, Zenon
  <2> QED
    BY <1>7, <2>1, <2>2 DEF Fin, EndMalformed, ledger
<1>8. CASE UNCHANGED vars
  BY <1>8, EndsSame DEF vars
<1> QED
  BY <1>1, <1>2, <1>3, <1>4, <1>5, <1>6, <1>7, <1>8 DEF Next

\* The initial ledger holds nothing.
LEMMA InitialLedger == Init => LedgerInv /\ EndsInv /\ ReadersOK
<1> SUFFICES ASSUME Init PROVE EndsInv /\ ReadersOK
  BY InitialWindow
<1>1. DOMAIN delivered = {} /\ trackEnd = NoLoc /\ accepted = [o \in Objects |-> 0]
  BY DEF Init
<1>2. EndsInv
  BY <1>1 DEF EndsInv, Held
<1>3. ReadersOK
  BY DEF Init, ReadersOK
<1> QED BY <1>2, <1>3

\* No Object claimed Fresh is past an end the ledger holds, whichever of END_OF_TRACK,
\* END_OF_GROUP, FIN and the Object came first (checkEndsLocked, SubgroupEnded).
THEOREM EndsRespectedHolds == Spec => []EndsRespected
<1> DEFINE Inv == LedgerInv /\ EndsInv /\ ReadersOK
<1>1. Init => Inv
  BY InitialLedger
<1>2. Inv /\ [Next]_vars => Inv'
  BY LedgerStep, EndsStep, ReadersStep
<1>3. Inv => EndsRespected
  BY DEF EndsInv, EndsRespected, Clear
<1> QED
  BY <1>1, <1>2, <1>3, PTL DEF Spec
=============================================================================
