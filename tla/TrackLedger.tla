---------------------------- MODULE TrackLedger ----------------------------
(***************************************************************************)
(* The per-track dedup ledger of the relay (TrackEntry.delivered and what  *)
(* is kept with it in pkg/relay/internal/registry/track_entry.go), and the *)
(* goroutines that use it: the inbound subgroup streams (runFanout in      *)
(* handler_fanout.go) and datagram loops (handleDatagram) that feed one    *)
(* track.  An Object is claimed under deliveredMu; what its reader does    *)
(* with the verdict, caching it or comparing it with the first copy,       *)
(* happens later, after other readers may have run.                        *)
(*                                                                         *)
(* An ObjectInfo is a record                                               *)
(*   [group, object, subgroup, datagram, priority, status, eog, groupGap,  *)
(*    objectGap, payload]                                                  *)
(* where eog is a datagram's END_OF_GROUP bit, a gap of -1 is an absent    *)
(* gap property and payload stands for the Object's bytes.                 *)
(***************************************************************************)
EXTENDS Integers, FiniteSets

CONSTANTS
    Objects,       \* the Objects publishers may send
    Contributors,  \* goroutines reading Objects of the track
    Window,        \* deliveredGroupWindow
    CacheSize,     \* Objects the track's cache holds
    MaxID          \* the largest Group or Object ID (2^64 - 1)

Statuses == {"Normal", "EndOfGroup", "EndOfTrack"}
ID == 0..MaxID

ObjectInfo ==
    [group : ID, object : ID, subgroup : ID, datagram : BOOLEAN,
     priority : Nat, status : Statuses, eog : BOOLEAN,
     groupGap : ID \cup {-1}, objectGap : ID \cup {-1}, payload : Nat]

ASSUME ConstantsAssumption == {Window, CacheSize} \subseteq Nat \ {0} /\ MaxID \in Nat
\* The session layer rejects a gap above the ID it is counted from.
ASSUME ObjectsAssumption ==
    /\ Objects \subseteq ObjectInfo
    /\ \A o \in Objects : o.groupGap <= o.group /\ o.objectGap <= o.object

VARIABLES
    delivered,       \* Group ID -> its deliveredGroup, for the Groups held
    deliveredFloor,  \* lowest Group held, while any is
    groupGaps,       \* Group ID ranges announced absent
    trackEnd,        \* Location of END_OF_TRACK, or NoLoc
    cache,           \* Objects in the track's ObjectCache
    reader,          \* what each contributor is doing with its last Object
    last,            \* last Object each contributor's open stream carried
    accepted,        \* history: how often each Object was claimed Fresh
    condemned,       \* history: accepted Objects that made the track malformed
    gone,            \* history: Locations known absent, unclaimed until then
    lapsed           \* history: Groups whose gap went before they aged out

ledger == <<delivered, deliveredFloor, groupGaps, trackEnd>>
absences == <<gone, lapsed>>
vars == <<delivered, deliveredFloor, groupGaps, trackEnd, cache, reader, last,
          accepted, condemned, absences>>

Loc(o) == <<o.group, o.object>>
Less(a, b) == a[1] < b[1] \/ (a[1] = b[1] /\ a[2] < b[2])
NoLoc == <<>>
NoObj == [object |-> -1]
Idle == [step |-> "idle", obj |-> NoObj]
Normal(o) == o.status = "Normal"
MaxOf(a, b) == IF a > b THEN a ELSE b
----------------------------------------------------------------------------
(* type end: where a Subgroup, Group or Track ends.                        *)

NoEnd == [at |-> 0, set |-> FALSE, hard |-> FALSE]
End(at, hard) == [at |-> at, set |-> TRUE, hard |-> hard]

past(e, id, normal) ==
    e.set /\ (id > e.at \/ (id = e.at /\ normal /\ e.hard))

\* IDs are uint64: the sums wrap at MaxID.
Succ(id) == (id + 1) % (MaxID + 1)
conflicts(e, at, hard) ==
    /\ e.set
    /\ e.at # at
    /\ CASE hard /\ ~e.hard -> at # Succ(e.at)
         [] ~hard /\ e.hard -> Succ(at) # e.at
         [] OTHER           -> TRUE

with(e, at, hard) ==
    CASE ~e.set              -> End(at, hard)
      [] e.set /\ at = e.at  -> End(at, e.hard \/ hard)
      [] e.set /\ at < e.at  -> End(at, FALSE)  \* a status end below a hard one
      [] e.set /\ at > e.at  -> e

lower(a, b) == IF b.at < a.at THEN b ELSE a
----------------------------------------------------------------------------
(* deliveredGroup and subgroupLedger.  A maximum of -1 is none received.   *)

NewSubgroup(priority) ==
    [priority |-> priority, maxNormal |-> -1, maxStatus |-> -1,
     end |-> NoEnd, minObject |-> -1]

NewGroup == [objects |-> {}, maxNormal |-> -1, maxStatus |-> -1,
             subgroups |-> <<>>, end |-> NoEnd, objectGaps |-> {},
             groupGap |-> -1]

Held(group) == group \in DOMAIN delivered
GroupOf(group) == IF Held(group) THEN delivered[group] ELSE NewGroup
SubgroupOf(g, id, priority) ==
    IF id \in DOMAIN g.subgroups THEN g.subgroups[id] ELSE NewSubgroup(priority)
Extend(f, x, y) == [z \in DOMAIN f \cup {x} |-> IF z = x THEN y ELSE f[z]]

\* deliveredGroup.pastEnd, and the same test on one Subgroup's maxima.
pastEnd(g, ended) ==
    \/ g.maxNormal >= 0 /\ past(ended, g.maxNormal, TRUE)
    \/ g.maxStatus >= 0 /\ past(ended, g.maxStatus, FALSE)

\* groupEnd: where o ends its Group, NoEnd if it does not.
groupEnd(o) ==
    IF ~Normal(o) THEN End(o.object, FALSE)
    ELSE IF o.datagram /\ o.eog /\ o.object < MaxID THEN End(o.object + 1, TRUE)
    ELSE NoEnd

\* Where a FIN after o ends its Subgroup.
EndAfter(o) == IF Normal(o) THEN End(o.object + 1, TRUE) ELSE End(o.object, FALSE)

gapRange(id, n) == IF n > 0 THEN {<<id - n, id - 1>>} ELSE {}
contains(r, id) == r[1] <= id /\ id <= r[2]

\* Fault: only Group gaps are looked up.
announcedAbsentGroupsOnly(o) == \E r \in groupGaps : contains(r, o.group)

announcedAbsent(o) ==
    \/ \E r \in groupGaps : contains(r, o.group)
    \/ \E r \in GroupOf(o.group).objectGaps : contains(r, o.object)
----------------------------------------------------------------------------
(* What a §12.1 condition removes from the cache.                          *)

\* purgePastLocked over a whole Group.
PastInGroup(group, ended) ==
    {c \in Objects : c.group = group /\ past(ended, c.object, Normal(c))}

\* purgePastLocked over one Subgroup.
PastInSubgroup(group, subgroup, ended) ==
    {c \in PastInGroup(group, ended) : ~c.datagram /\ c.subgroup = subgroup}

\* Fault: END_OF_TRACK is checked against its own Group only.
GroupsPastOwn(loc) ==
    {id \in DOMAIN delivered :
        id = loc[1] /\ pastEnd(delivered[id], End(loc[2], FALSE))}

\* purgeTrackPastLocked: the Groups with an Object received past loc.
GroupsPast(loc) ==
    {id \in DOMAIN delivered :
        \/ id > loc[1]
        \/ id = loc[1] /\ pastEnd(delivered[id], End(loc[2], FALSE))}

PastTrackEnd(loc) ==
    {c \in Objects : c.group \in GroupsPast(loc) /\ Less(loc, Loc(c))}

\* A verdict: whether the track is malformed and the Objects then purged.
OK == [malformed |-> FALSE, purge |-> {}]
Malformed(purge) == [malformed |-> TRUE, purge |-> purge]

\* checkEndsLocked, against the Track's end ...
checkTrackEnd(o) ==
    IF trackEnd # NoLoc /\ Less(trackEnd, Loc(o)) THEN Malformed({})
    ELSE IF o.status = "EndOfTrack" /\ (\/ trackEnd \notin {NoLoc, Loc(o)}
                                       \/ GroupsPast(Loc(o)) # {})
    THEN Malformed(PastTrackEnd(Loc(o)))
    ELSE OK

\* ... its Group's ...
checkGroupEnd(g, o) ==
    LET ends == groupEnd(o)
        gEnd == with(g.end, ends.at, ends.hard)
    IN IF past(g.end, o.object, Normal(o)) THEN Malformed({})
       ELSE IF ends.set /\ conflicts(g.end, ends.at, ends.hard)
       THEN Malformed(PastInGroup(o.group, lower(g.end, ends)))
       ELSE IF ends.set /\ pastEnd(g, gEnd)
       THEN Malformed(PastInGroup(o.group, gEnd))
       ELSE OK

\* ... and its Subgroup's, with its Publisher Priority.
checkSubgroup(g, o) ==
    LET sg == SubgroupOf(g, o.subgroup, o.priority)
    IN IF ~o.datagram /\ (\/ sg.priority # o.priority
                          \/ past(sg.end, o.object, Normal(o)))
       THEN Malformed({}) ELSE OK

checkEnds(o) ==
    LET g == GroupOf(o.group)
    IN IF checkTrackEnd(o).malformed THEN checkTrackEnd(o)
       ELSE IF ~Held(o.group) THEN OK
       ELSE IF checkGroupEnd(g, o).malformed THEN checkGroupEnd(g, o)
       ELSE checkSubgroup(g, o)
----------------------------------------------------------------------------
(* What an Object adds to its Group's ledger entry.                        *)

withMaxima(x, o) ==
    IF Normal(o) THEN [x EXCEPT !.maxNormal = MaxOf(@, o.object)]
                 ELSE [x EXCEPT !.maxStatus = MaxOf(@, o.object)]

\* recordEndsLocked on the Subgroup and on the Group.
recordSubgroup(g, o) ==
    LET sg == withMaxima(SubgroupOf(g, o.subgroup, o.priority), o)
    IN Extend(g.subgroups, o.subgroup,
              [sg EXCEPT !.minObject =
                  IF @ = -1 \/ o.object < @ THEN o.object ELSE @])

recordEnds(g, o) ==
    LET ends == groupEnd(o)
    IN [withMaxima(g, o) EXCEPT
          !.end = IF ends.set THEN with(@, ends.at, ends.hard) ELSE @,
          !.subgroups = IF o.datagram THEN @ ELSE recordSubgroup(g, o)]

recordTrackEnd(o) ==
    trackEnd' = IF o.status = "EndOfTrack" THEN Loc(o) ELSE trackEnd

\* recordGapsLocked: the Object gap on the Group, the Group gap on the track.
recordGaps(g, o) ==
    [g EXCEPT !.objectGaps = @ \cup gapRange(o.object, o.objectGap),
              !.groupGap = IF @ = -1 THEN o.groupGap ELSE @]
newGroupGaps(o) ==
    IF GroupOf(o.group).groupGap = -1 THEN gapRange(o.group, o.groupGap) ELSE {}

\* addDeliveredGroupLocked: in a full window the lowest Group makes room, and
\* the Group gaps below the lowest of the others are forgotten with it.
Full == Cardinality(DOMAIN delivered) >= Window
IsLowest(f, ids) == f \in ids /\ \A id \in ids : f <= id

Pruned == IF Full THEN {deliveredFloor} ELSE {}
Kept == DOMAIN delivered \ Pruned

addDeliveredGroup(group, g) ==
    /\ delivered' = [id \in Kept \cup {group} |->
                        IF id = group THEN g ELSE delivered[id]]
    /\ \E f \in Kept \cup {group} :
          IsLowest(f, Kept \cup {group}) /\ deliveredFloor' = f

keptGroupGaps ==
    IF Full THEN {r \in groupGaps : \E id \in Kept \cup {MaxID} : r[2] >= id}
    ELSE groupGaps

\* A Group added below the others has forgotten gaps above it.
Lapsing(group) ==
    {id \in ID : id > group /\ \E r \in groupGaps \ keptGroupGaps : contains(r, id)}
----------------------------------------------------------------------------
(* The readers.                                                            *)

Locations == {Loc(o) : o \in Objects}

\* KnownAbsent, of the Locations the model tells apart.
KnownAbsent ==
    {l \in Locations :
        \/ \E r \in groupGaps : contains(r, l[1])
        \/ /\ Held(l[1])
           /\ \/ delivered[l[1]].end.set /\ l[2] >= delivered[l[1]].end.at
              \/ \E r \in delivered[l[1]].objectGaps : contains(r, l[2])}

\* Locations an Object was claimed Fresh at.
Claimed == {Loc(o) : o \in {x \in Objects : accepted[x] > 0}}
NoteAbsent == gone' = gone \cup (KnownAbsent' \ Claimed')

Init ==
    /\ delivered = <<>> /\ deliveredFloor = 0
    /\ groupGaps = {} /\ trackEnd = NoLoc
    /\ cache = {}
    /\ reader = [c \in Contributors |-> Idle]
    /\ last = [c \in Contributors |-> NoObj]
    /\ accepted = [o \in Objects |-> 0]
    /\ condemned = {}
    /\ gone = {} /\ lapsed = {}

\* A stream carries one Subgroup's Objects, in ascending order (§2.2); the
\* session layer rejects any other.  A datagram stands alone.
CanRead(c, o) ==
    /\ reader[c] = Idle
    /\ ~o.datagram /\ last[c] # NoObj =>
        /\ last[c].object < o.object
        /\ last[c].group = o.group /\ last[c].subgroup = o.subgroup
        /\ last[c].priority = o.priority

\* runFanout's terminalSeen.
TerminalSeen(c, o) == ~o.datagram /\ last[c] # NoObj /\ ~Normal(last[c])

\* c goes on to step with o, its stream if any having carried o.
GoTo(c, step, o) ==
    /\ reader' = [reader EXCEPT ![c] =
                    IF step = "idle" THEN Idle ELSE [step |-> step, obj |-> o]]
    /\ last' = [last EXCEPT ![c] = IF o.datagram THEN @ ELSE o]

\* endMalformedTrack, as far as the ledger and the cache go: c's stream is
\* cancelled, and the Objects in purge have left the cache.  The Objects in
\* triggering are those a reader of §12.1 would say made it malformed.
EndMalformed(c, o, purge, triggering) ==
    /\ reader' = [reader EXCEPT ![c] = Idle]
    /\ last' = [last EXCEPT ![c] = IF o.datagram THEN @ ELSE NoObj]
    /\ cache' = cache \ purge
    /\ condemned' = condemned \cup {a \in triggering : accepted[a] > 0}
    /\ UNCHANGED <<ledger, accepted, absences>>

\* Objects past the end that o is.
Triggering(o) ==
    {a \in Objects :
        \/ o.status = "EndOfTrack" /\ Less(Loc(o), Loc(a))
        \/ a.group = o.group /\ past(groupEnd(o), a.object, Normal(a))}

\* Objects of the Subgroup past the end that a FIN after o is.
TriggeringFin(o) ==
    {a \in Objects :
        /\ ~a.datagram /\ a.group = o.group /\ a.subgroup = o.subgroup
        /\ past(EndAfter(o), a.object, Normal(a))}

\* Fault: only a Group below the last one forgotten counts as aged out.
AgedOutBelow(o) == ~Held(o.group) /\ Full /\ o.group + 1 < deliveredFloor

AgedOut(o) == ~Held(o.group) /\ Full /\ o.group < deliveredFloor

\* A second Prior Group ID Gap value in one Group (§10.8).
GapConflict(o) ==
    o.groupGap >= 0 /\ GroupOf(o.group).groupGap \notin {-1, o.groupGap}

Rejected(o) == GapConflict(o) \/ checkEnds(o).malformed

ReadAfterTerminal(c, o) ==
    /\ CanRead(c, o) /\ TerminalSeen(c, o)
    /\ EndMalformed(c, o, {}, {})

\* ClaimDelivered returns ClaimAgedOut.  Whether a stream's Object is then
\* forwarded is up to the Subgroup's writer set (SubgroupMerge).
ClaimAgedOut(c, o, admitted) ==
    /\ CanRead(c, o) /\ ~TerminalSeen(c, o)
    /\ AgedOut(o)
    /\ admitted => ~o.datagram
    /\ GoTo(c, IF o.datagram THEN "check" ELSE IF admitted THEN "put" ELSE "idle", o)
    /\ UNCHANGED <<ledger, cache, accepted, condemned, absences>>

\* ClaimDelivered returns an error.
ClaimMalformed(c, o) ==
    /\ CanRead(c, o) /\ ~TerminalSeen(c, o)
    /\ ~AgedOut(o)
    /\ Rejected(o)
    /\ EndMalformed(c, o, IF GapConflict(o) THEN {} ELSE checkEnds(o).purge,
                    Triggering(o))

Admissible(c, o) ==
    CanRead(c, o) /\ ~TerminalSeen(c, o) /\ ~AgedOut(o) /\ ~Rejected(o)

\* ClaimRedundant: inside a gap announced earlier.
ClaimAbsent(c, o) ==
    /\ Admissible(c, o)
    /\ announcedAbsent(o)
    /\ GoTo(c, "check", o)
    /\ UNCHANGED <<ledger, cache, accepted, condemned, absences>>

\* ClaimRedundant: a copy of an Object claimed earlier records only its gaps.
ClaimRedundant(c, o) ==
    /\ Admissible(c, o)
    /\ ~announcedAbsent(o)
    /\ o.object \in GroupOf(o.group).objects
    /\ delivered' = [delivered EXCEPT ![o.group] = recordGaps(@, o)]
    /\ groupGaps' = groupGaps \cup newGroupGaps(o)
    /\ GoTo(c, "check", o)
    /\ UNCHANGED <<deliveredFloor, trackEnd, cache, accepted, condemned, lapsed>>
    /\ NoteAbsent

\* ClaimFresh: the first copy.
ClaimFresh(c, o) ==
    LET g == recordEnds(recordGaps(GroupOf(o.group), o), o)
        entry == [g EXCEPT !.objects = @ \cup {o.object}]
    IN /\ Admissible(c, o)
       /\ ~announcedAbsent(o)
       /\ o.object \notin GroupOf(o.group).objects
       /\ \/ /\ Held(o.group)
             /\ delivered' = [delivered EXCEPT ![o.group] = entry]
             /\ groupGaps' = groupGaps \cup newGroupGaps(o)
             /\ UNCHANGED <<deliveredFloor, lapsed>>
          \/ /\ ~Held(o.group)
             /\ addDeliveredGroup(o.group, entry)
             /\ groupGaps' = keptGroupGaps \cup newGroupGaps(o)
             /\ lapsed' = lapsed \cup Lapsing(o.group)
       /\ recordTrackEnd(o)
       /\ accepted' = [accepted EXCEPT ![o] = @ + 1]
       /\ GoTo(c, "put", o)
       /\ UNCHANGED <<cache, condemned>>
       /\ NoteAbsent

\* The forwarded Object reaches the cache, replacing what was at its Location;
\* a full cache evicts another.
Put(c) ==
    LET o == reader[c].obj
        others == {x \in cache : Loc(x) # Loc(o)}
    IN /\ reader[c].step = "put"
       /\ \/ /\ Cardinality(others) < CacheSize
             /\ cache' = others \cup {o}
          \/ /\ Cardinality(others) >= CacheSize
             /\ \E x \in others : cache' = (others \ {x}) \cup {o}
       /\ reader' = [reader EXCEPT ![c] = Idle]
       /\ UNCHANGED <<ledger, last, accepted, condemned, absences>>

\* checkDuplicate's comparison.
Differs(first, dup) ==
    \/ first.datagram # dup.datagram
    \/ ~first.datagram /\ first.subgroup # dup.subgroup
    \/ first.priority # dup.priority
    \/ Normal(first) /\ Normal(dup) /\ first.payload # dup.payload

\* checkDuplicate: a copy unlike the cached one makes the track malformed.
CheckDuplicate(c) ==
    LET o == reader[c].obj
        differing == {x \in cache : Loc(x) = Loc(o) /\ Differs(x, o)}
    IN /\ reader[c].step = "check"
       /\ \/ /\ differing # {}
             /\ EndMalformed(c, o, differing, differing)
          \/ /\ differing = {}
             /\ reader' = [reader EXCEPT ![c].step = "record"]
             /\ UNCHANGED <<ledger, cache, last, accepted, condemned, absences>>

\* RecordDuplicate: the copy still counts for its Subgroup, Group and Track.
RecordDuplicate(c) ==
    LET o == reader[c].obj
    IN /\ reader[c].step = "record"
       /\ \/ /\ o.object \notin GroupOf(o.group).objects
             /\ reader' = [reader EXCEPT ![c] = Idle]
             /\ UNCHANGED <<ledger, cache, last, accepted, condemned, absences>>
          \/ /\ o.object \in GroupOf(o.group).objects
             /\ checkEnds(o).malformed
             /\ EndMalformed(c, o, checkEnds(o).purge, Triggering(o))
          \/ /\ o.object \in GroupOf(o.group).objects
             /\ ~checkEnds(o).malformed
             /\ delivered' = [delivered EXCEPT ![o.group] = recordEnds(@, o)]
             /\ recordTrackEnd(o)
             /\ reader' = [reader EXCEPT ![c] = Idle]
             /\ UNCHANGED <<deliveredFloor, groupGaps, cache, last, accepted,
                            condemned, lapsed>>
             /\ NoteAbsent

\* SubgroupEnded: how a FIN after lastObj, with the header's END_OF_GROUP if
\* endOfGroup, fits the Objects and ends recorded.
checkSubgroupEnded(g, lastObj, endOfGroup) ==
    LET ends  == EndAfter(lastObj)
        sg    == SubgroupOf(g, lastObj.subgroup, lastObj.priority)
        sgEnd == with(sg.end, ends.at, ends.hard)
        gEnd  == with(g.end, ends.at, ends.hard)
    IN IF conflicts(sg.end, ends.at, ends.hard)
       THEN Malformed(PastInSubgroup(lastObj.group, lastObj.subgroup,
                                     lower(sg.end, ends)))
       ELSE IF pastEnd(sg, sgEnd)
       THEN Malformed(PastInSubgroup(lastObj.group, lastObj.subgroup, sgEnd))
       ELSE IF endOfGroup /\ conflicts(g.end, ends.at, ends.hard)
       THEN Malformed(PastInGroup(lastObj.group, lower(g.end, ends)))
       ELSE IF endOfGroup /\ pastEnd(g, gEnd)
       THEN Malformed(PastInGroup(lastObj.group, gEnd))
       ELSE OK

\* What it records when it does fit.
recordSubgroupEnded(g, lastObj, endOfGroup) ==
    LET ends == EndAfter(lastObj)
        sg   == SubgroupOf(g, lastObj.subgroup, lastObj.priority)
    IN [g EXCEPT
          !.subgroups = Extend(@, lastObj.subgroup,
                               [sg EXCEPT !.end = with(@, ends.at, ends.hard)]),
          !.end = IF endOfGroup THEN with(@, ends.at, ends.hard) ELSE @]

\* inboundEnded on a FIN.  Nothing lies past a Normal Object at MaxID.
Fin(c, endOfGroup) ==
    LET o == last[c]
        g == GroupOf(o.group)
    IN /\ reader[c] = Idle /\ o # NoObj
       /\ \/ /\ ~Held(o.group) \/ (Normal(o) /\ o.object = MaxID)
             /\ last' = [last EXCEPT ![c] = NoObj]
             /\ UNCHANGED <<ledger, cache, reader, accepted, condemned, absences>>
          \/ /\ Held(o.group) /\ ~(Normal(o) /\ o.object = MaxID)
             /\ checkSubgroupEnded(g, o, endOfGroup).malformed
             /\ EndMalformed(c, o, checkSubgroupEnded(g, o, endOfGroup).purge,
                             TriggeringFin(o))
          \/ /\ Held(o.group) /\ ~(Normal(o) /\ o.object = MaxID)
             /\ ~checkSubgroupEnded(g, o, endOfGroup).malformed
             /\ delivered' = [delivered EXCEPT ![o.group] =
                                recordSubgroupEnded(@, o, endOfGroup)]
             /\ last' = [last EXCEPT ![c] = NoObj]
             /\ UNCHANGED <<deliveredFloor, groupGaps, trackEnd, cache, reader,
                            accepted, condemned, lapsed>>
             /\ NoteAbsent

\* inboundEnded on any other error: nothing is recorded.
Reset(c) ==
    /\ reader[c] = Idle /\ last[c] # NoObj
    /\ last' = [last EXCEPT ![c] = NoObj]
    /\ UNCHANGED <<ledger, cache, reader, accepted, condemned, absences>>

Next ==
    \/ \E c \in Contributors, o \in Objects :
        \/ ReadAfterTerminal(c, o)
        \/ \E admitted \in BOOLEAN : ClaimAgedOut(c, o, admitted)
        \/ ClaimMalformed(c, o)
        \/ ClaimAbsent(c, o)
        \/ ClaimRedundant(c, o)
        \/ ClaimFresh(c, o)
    \/ \E c \in Contributors :
        \/ Put(c)
        \/ CheckDuplicate(c)
        \/ RecordDuplicate(c)
        \/ \E endOfGroup \in BOOLEAN : Fin(c, endOfGroup)
        \/ Reset(c)

Spec == Init /\ [][Next]_vars
----------------------------------------------------------------------------
SubgroupLedger ==
    [priority : Nat, maxNormal : Int, maxStatus : Int, minObject : Int,
     end : [at : Nat, set : BOOLEAN, hard : BOOLEAN]]

IsDeliveredGroup(g) ==
    /\ DOMAIN g = DOMAIN NewGroup
    /\ g.objects \subseteq ID
    /\ {g.maxNormal, g.maxStatus, g.groupGap} \subseteq ID \cup {-1}
    /\ \A id \in DOMAIN g.subgroups : id \in ID /\ g.subgroups[id] \in SubgroupLedger

\* The type invariant.  The window never holds more Groups than
\* deliveredGroupWindow and its floor is the lowest of them, which is what
\* ClaimDelivered's aged-out test relies on.
TypeOK ==
    /\ DOMAIN delivered \subseteq ID
    /\ \A id \in DOMAIN delivered : IsDeliveredGroup(delivered[id])
    /\ Cardinality(DOMAIN delivered) <= Window
    /\ DOMAIN delivered # {} => IsLowest(deliveredFloor, DOMAIN delivered)
    /\ trackEnd \in (ID \X ID) \cup {NoLoc}
    /\ cache \subseteq Objects
    /\ \A c \in Contributors :
        /\ last[c] \in Objects \cup {NoObj}
        /\ \/ reader[c] = Idle
           \/ reader[c].step \in {"put", "check", "record"} /\ reader[c].obj \in Objects

\* No Location is claimed Fresh twice, whichever publishers send it, in
\* whatever Object they send it, and although the window forgets Groups: a
\* Group forgotten stays aged out (§7.3, ClaimDelivered).
ForwardedOnce ==
    \A a, b \in Objects :
        (Loc(a) = Loc(b) /\ accepted[a] > 0) =>
            /\ accepted[a] = 1
            /\ a # b => accepted[b] = 0

\* No Object claimed Fresh lies past an end the ledger holds for its Track,
\* Group or Subgroup: the ledger keeps only the largest IDs received, and
\* ends move as FINs and status Objects of several streams are merged, yet
\* checkEndsLocked and SubgroupEnded miss none (§12.1).
EndsRespected ==
    \A a \in Objects : accepted[a] > 0 =>
        /\ trackEnd # NoLoc => ~Less(trackEnd, Loc(a))
        /\ Held(a.group) =>
            LET g == delivered[a.group]
            IN /\ ~past(g.end, a.object, Normal(a))
               /\ (~a.datagram /\ a.subgroup \in DOMAIN g.subgroups)
                    => ~past(g.subgroups[a.subgroup].end, a.object, Normal(a))

\* What the ledger once knew not to exist is not forwarded afterwards, whatever
\* the window has since forgotten (ClaimDelivered), but for a Group whose gap
\* went while the window still reached below it.
AbsentStays ==
    \A o \in Objects : Normal(o) /\ accepted[o] > 0 /\ Loc(o) \in gone => o.group \in lapsed

\* "An Object inside a gap announced earlier is known not to exist, and that
\* is permanent" (ClaimDelivered, track_entry.go:281).
AbsentForever ==
    \A o \in Objects : Normal(o) /\ accepted[o] > 0 => Loc(o) \notin gone

\* An accepted Object that made the track malformed is not in the cache
\* (purgePastLocked: "Object(s) triggering Malformed Track status MUST NOT be
\* cached").
CondemnedNotCached == cache \cap condemned = {}
=============================================================================
