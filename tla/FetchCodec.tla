----------------------------- MODULE FetchCodec -----------------------------
(***************************************************************************)
(* The body of a FETCH stream: FetchObject's wire form (pkg/moqt/message/  *)
(* fetch_object.go) and the decoder that carries the previous element      *)
(* across objects (IncomingFetchStream.ReadDecoded in pkg/moqt/session/    *)
(* datastream_in.go).  The sender is any publisher that keeps to the       *)
(* format: it picks, object by object, any of the encodings its own record *)
(* of what it sent allows.  A stray sender sends any fields at all.  An ID *)
(* or delta is in 0..MaxID and sums wrap, as 64-bit ones do.               *)
(***************************************************************************)
EXTENDS Integers

CONSTANTS MaxID, MaxPriority

IDs == 0..MaxID
Priorities == 0..MaxPriority
Absent == -1  \* a field that is not on the wire, or a value nothing set
Modes == {"zero", "prior", "priorPlusOne", "explicit"}

(* One FetchObject: which fields are present, and their values. *)
Raw == [marker : BOOLEAN, group : IDs \cup {Absent}, object : IDs \cup {Absent}, mode : Modes,
        subgroup : IDs \cup {Absent}, priority : Priorities \cup {Absent}, datagram : BOOLEAN]

(* An Object or an End of Range marker at its absolute Location. *)
Element == [marker : BOOLEAN, group : IDs, object : IDs, datagram : BOOLEAN,
            subgroup : IDs, priority : Priorities]

(* A datagram has no Subgroup ID, and a marker only its Location. *)
Elements == {e \in Element : /\ e.datagram => e.subgroup = 0
                             /\ e.marker => ~e.datagram /\ e.subgroup = 0 /\ e.priority = 0}

(* The FetchObjects Append can be given. *)
Subgroups == {[mode |-> m, id |-> Absent] : m \in Modes \ {"explicit"}} \cup [mode : {"explicit"}, id : IDs]
RawObjects == {[marker |-> FALSE, group |-> g, object |-> o, mode |-> s.mode, subgroup |-> s.id,
                priority |-> p, datagram |-> d] :
                   g \in IDs \cup {Absent}, o \in IDs \cup {Absent}, s \in Subgroups,
                   p \in Priorities \cup {Absent}, d \in BOOLEAN}
RawMarkers == [marker : {TRUE}, group : IDs, object : IDs, mode : {"zero"},
               subgroup : {Absent}, priority : {Absent}, datagram : {FALSE}]

VARIABLES order,    \* the Group Order both ends agreed on
          honest,   \* does the sender keep to the format
          prior,    \* the sender's record: the values of the previous elements
          wire,     \* the FetchObject in transit, none when empty
          sent,     \* the element it stands for
          dec,      \* the decoder's dec* fields
          got,      \* the element the last ReadDecoded returned
          session   \* "open", or "closed" with PROTOCOL_VIOLATION

vars == <<order, honest, prior, wire, sent, dec, got, session>>

Nothing == [marker |-> TRUE, group |-> 0, object |-> 0, datagram |-> FALSE, subgroup |-> 0, priority |-> 0]
NoValues == [group |-> Absent, object |-> Absent, subgroup |-> Absent, priority |-> Absent]
Fresh == [group |-> 0, object |-> 0, subgroup |-> 0, priority |-> 0, havePrev |-> FALSE, haveActual |-> FALSE]
Flags0 == [marker |-> FALSE, group |-> Absent, object |-> Absent, mode |-> "zero",
           subgroup |-> Absent, priority |-> Absent, datagram |-> FALSE]
Idle == [Flags0 EXCEPT !.mode = "none"]
InTransit == wire # Idle

TypeOK ==
    /\ order \in {"ascending", "descending"} /\ honest \in BOOLEAN
    /\ prior \in [group : IDs \cup {Absent}, object : IDs \cup {Absent},
                  subgroup : IDs \cup {Absent}, priority : Priorities \cup {Absent}]
    /\ wire \in Raw \cup {Idle} /\ (wire.datagram => wire.mode = "zero" /\ wire.subgroup = Absent)
    /\ sent \in Element /\ got \in Element
    /\ dec \in [group : IDs, object : IDs, subgroup : IDs, priority : Priorities,
                havePrev : BOOLEAN, haveActual : BOOLEAN]
    /\ session \in {"open", "closed"}

Init ==
    /\ order \in {"ascending", "descending"} /\ honest \in BOOLEAN
    /\ prior = NoValues /\ wire = Idle /\ sent = Nothing
    /\ dec = Fresh /\ got = Nothing /\ session = "open"

-----------------------------------------------------------------------------
(* The sender. *)

(* The elements of a stream ascend within a group, and groups follow the   *)
(* Group Order.                                                            *)
Follows(e) ==
    \/ prior.group = Absent
    \/ e.group = prior.group /\ e.object > prior.object
    \/ order = "ascending" /\ e.group > prior.group
    \/ order = "descending" /\ e.group < prior.group

GroupDelta(e) ==
    IF prior.group = Absent THEN e.group
    ELSE IF e.group = prior.group THEN Absent
    ELSE IF order = "ascending" THEN e.group - prior.group - 1 ELSE prior.group - e.group - 1

(* The encodings of an Object that say what it is, given what was sent. *)
ObjectDeltas(e) ==
    {IF prior.group = e.group THEN e.object - prior.object ELSE e.object} \cup
    {d \in {Absent} : prior.group # Absent /\ e.object = prior.object + 1}

SubgroupModes(e) ==
    {m \in Modes : e.datagram \/ CASE m = "zero" -> e.subgroup = 0
                                   [] m = "prior" -> e.subgroup = prior.subgroup
                                   [] m = "priorPlusOne" -> prior.subgroup # Absent /\ e.subgroup = prior.subgroup + 1
                                   [] m = "explicit" -> TRUE}

Encodings(e) ==
    IF e.marker
    THEN {[Flags0 EXCEPT !.marker = TRUE, !.group = e.group, !.object = e.object]}
    ELSE {[marker |-> FALSE, group |-> GroupDelta(e), object |-> d, mode |-> m,
           subgroup |-> IF m = "explicit" THEN e.subgroup ELSE Absent, priority |-> p, datagram |-> e.datagram] :
              d \in ObjectDeltas(e), m \in SubgroupModes(e),
              p \in {e.priority} \cup {q \in {Absent} : prior.priority = e.priority}}

(* Append: a datagram's mode bits are cleared, and with them its Subgroup  *)
(* ID field.                                                               *)
Append(o) == IF o.datagram THEN [o EXCEPT !.mode = "zero", !.subgroup = Absent] ELSE o

Ready(keepsFormat) == honest = keepsFormat /\ ~InTransit /\ session = "open"

Send(e, o) ==
    /\ Follows(e)
    /\ wire' = Append(o) /\ sent' = e
    /\ prior' = [group |-> e.group, object |-> e.object,
                 subgroup |-> IF e.marker \/ e.datagram THEN prior.subgroup ELSE e.subgroup,
                 priority |-> IF e.marker THEN prior.priority ELSE e.priority]
    /\ UNCHANGED <<order, honest, dec, got, session>>

SendStray(o) ==
    /\ wire' = Append(o)
    /\ UNCHANGED <<order, honest, prior, sent, dec, got, session>>

-----------------------------------------------------------------------------
(* The decoder. *)

IsNewGroup == wire.group # Absent

(* The group and object an element decodes to before the overflow check. *)
SumGroup ==
    IF ~dec.havePrev THEN wire.group
    ELSE IF ~IsNewGroup THEN dec.group
    ELSE IF order = "descending" THEN dec.group - wire.group - 1 ELSE dec.group + wire.group + 1

\* Fault: a delta counts from the previous Object in a new group too.
SumObjectFromPrior ==
    IF ~dec.havePrev THEN wire.object
    ELSE IF wire.object = Absent THEN dec.object + 1 ELSE dec.object + wire.object

SumObject ==
    IF ~dec.havePrev THEN wire.object
    ELSE IF wire.object = Absent THEN dec.object + 1
    ELSE IF IsNewGroup THEN wire.object ELSE dec.object + wire.object

Wrapped(n) == n % (MaxID + 1)

(* What closes the session: a reference to a prior Object when there was   *)
(* none, a first element without its Location, an ID past either end.      *)
Violates ==
    \/ ~dec.haveActual /\ ~wire.datagram /\ wire.mode \in {"prior", "priorPlusOne"}
    \/ ~dec.haveActual /\ wire.priority = Absent
    \/ ~dec.havePrev /\ (wire.group = Absent \/ wire.object = Absent)
    \/ SumGroup \notin IDs \/ SumObject \notin IDs

SubgroupOnWire ==
    CASE wire.mode = "zero" -> 0
      [] wire.mode = "prior" -> dec.subgroup
      [] wire.mode = "priorPlusOne" -> Wrapped(dec.subgroup + 1)
      [] wire.mode = "explicit" -> wire.subgroup

(* decPrevSubgroup after the object: a datagram leaves it alone. *)
PrevSubgroup == IF wire.datagram THEN dec.subgroup ELSE SubgroupOnWire

Priority == IF wire.priority # Absent THEN wire.priority ELSE dec.priority

(* A marker is the prior Group and Object ID and nothing else. *)
ReadMarker ==
    /\ InTransit /\ wire.marker
    /\ got' = [Nothing EXCEPT !.group = wire.group, !.object = wire.object]
    /\ dec' = [dec EXCEPT !.group = wire.group, !.object = wire.object, !.havePrev = TRUE]
    /\ wire' = Idle
    /\ UNCHANGED <<order, honest, prior, sent, session>>

ReadDecoded ==
    /\ InTransit /\ ~wire.marker /\ ~Violates
    /\ got' = [marker |-> FALSE, group |-> Wrapped(SumGroup), object |-> Wrapped(SumObject),
               datagram |-> wire.datagram, subgroup |-> IF wire.datagram THEN 0 ELSE SubgroupOnWire,
               priority |-> Priority]
    /\ dec' = [group |-> Wrapped(SumGroup), object |-> Wrapped(SumObject), subgroup |-> PrevSubgroup,
               priority |-> Priority, havePrev |-> TRUE, haveActual |-> TRUE]
    /\ wire' = Idle
    /\ UNCHANGED <<order, honest, prior, sent, session>>

ReadViolation ==
    /\ InTransit /\ ~wire.marker /\ Violates
    /\ session' = "closed" /\ wire' = Idle
    /\ UNCHANGED <<order, honest, prior, sent, dec, got>>

Next ==
    \/ Ready(TRUE) /\ \E e \in Elements : \E o \in Encodings(e) : Send(e, o)
    \/ Ready(FALSE) /\ \E o \in RawObjects \cup RawMarkers : SendStray(o)
    \/ ReadMarker \/ ReadDecoded \/ ReadViolation

Spec == Init /\ [][Next]_vars

-----------------------------------------------------------------------------

(***************************************************************************)
(* Whatever encodings a sender chooses, along streams of any length the    *)
(* reader gets the elements that were sent: Locations, Subgroup IDs,       *)
(* priorities, datagrams and markers.                                      *)
(***************************************************************************)
DecodedAsSent == honest /\ ~InTransit => got = sent

(* And a sender that keeps to the format never loses its session to it. *)
HonestKeepsSession == honest => session = "open"

(***************************************************************************)
(* What is written on a FETCH stream is what is read, and costs a sender   *)
(* that keeps to the format no session (fetch_object.go).                  *)
(***************************************************************************)
ReadAsWritten == HonestKeepsSession /\ DecodedAsSent
=============================================================================
