--------------------------- MODULE SubgroupStream ---------------------------
(***************************************************************************)
(* One subgroup stream end to end.  The writer is OutgoingSubgroupStream   *)
(* (pkg/moqt/session/datastream_out.go): its header, Object ID deltas,     *)
(* delivery timeouts, and the FIN or reset that ends it.  The reader is    *)
(* AcceptDataStream and IncomingSubgroupStream (datastream_in.go), and the *)
(* wire form is that of pkg/moqt/message/subgroup.go, subgroup_object.go.  *)
(* An application that frames its own objects (WriteObject with a delta of *)
(* its choosing) is the writer with framed = FALSE.  IDs are in 0..MaxID   *)
(* and sums wrap, as 64-bit ones do; 0 is no timeout.                      *)
(***************************************************************************)
EXTENDS Integers, Sequences

CONSTANTS MaxID, Headers, Timeouts, Overrides, MaxAge

IDs == 0..MaxID
Wrapped(n) == n % (MaxID + 1)
NoID == -1
NoOverride == -1  \* the property is absent

(* The flags of a SUBGROUP_HEADER, its Subgroup ID mode and Subgroup ID. *)
Header == [properties : BOOLEAN, mode : {"zero", "firstObject", "explicit"}, endOfGroup : BOOLEAN,
           inlinePriority : BOOLEAN, replaying : BOOLEAN, subgroup : IDs]

VARIABLES framed,    \* does the application leave the deltas to WriteObjectAt
          header, pub, sub,  \* the stream's header, and the two halves of its timeouts
          eff,       \* the resolved objectTimeout and subgroupTimeout
          enc,       \* sawFirstObject, encHavePrev and encPrevObject
          paused,    \* the publication's Forward State is 0
          wire,      \* what the reader has not read: a header, then heads and bodies of objects
          fate,      \* of the stream: "new", "open", "fin" or "reset"
          reader,    \* the accepted header and the decoder's state
          written, got,   \* history: the IDs written, and the objects returned by ReadDecoded
          wellFormed,     \* history: Validate accepts every object handed over so far
          session

vars == <<framed, header, pub, sub, eff, enc, paused, wire, fate, reader, written, got, wellFormed, session>>
writerVars == <<framed, header, pub, sub>>

-----------------------------------------------------------------------------
(* The header. *)

Bit(b, n) == IF b THEN n ELSE 0
ModeBits == [zero |-> 0, firstObject |-> 2, explicit |-> 4]
Has(t, bit) == (t \div bit) % 2 = 1

(* SubgroupHeader.Type: bit 4 is always set, and two flags are inverted. *)
Type(h) ==
    16 + Bit(h.properties, 1) + ModeBits[h.mode] + Bit(h.endOfGroup, 8)
       + Bit(~h.inlinePriority, 32) + Bit(~h.replaying, 64)

IsSubgroupHeaderType(t) == t <= 127 /\ Has(t, 16) /\ ~(Has(t, 2) /\ Has(t, 4))
FetchHeaderType == 5
PaddingStreamType == 128  \* stands for 0x132B3E28, outside the header types as it is
StreamTypes == 0..128

DecodeSubgroupHeaderType(t) ==
    [properties |-> Has(t, 1), endOfGroup |-> Has(t, 8), inlinePriority |-> ~Has(t, 32), replaying |-> ~Has(t, 64),
     mode |-> IF Has(t, 4) THEN "explicit" ELSE IF Has(t, 2) THEN "firstObject" ELSE "zero"]

(* WriteSubgroupHeader: the Subgroup ID is a field of the explicit mode only. *)
HeaderItem(h) == [part |-> "header", value |-> Type(h), subgroup |-> IF h.mode = "explicit" THEN h.subgroup ELSE 0,
                  valid |-> TRUE]
HeadItem(delta, valid) == [part |-> "head", value |-> delta, subgroup |-> 0, valid |-> valid]
BodyItem == [part |-> "body", value |-> 0, subgroup |-> 0, valid |-> TRUE]

-----------------------------------------------------------------------------
(* Delivery timeouts. *)

effectiveDim(p, s) == IF p = 0 THEN s ELSE IF s = 0 THEN p ELSE IF p < s THEN p ELSE s

Effective(p, s) == [object |-> effectiveDim(p.object, s.object), subgroup |-> effectiveDim(p.subgroup, s.subgroup)]

(* Either property of the first object overrides its dimension. *)
ApplyObjectProperties(p, o) ==
    [dim \in {"object", "subgroup"} |-> IF o[dim] = NoOverride THEN p[dim] ELSE o[dim]]

(* The first object of the subgroup, unless this stream starts past it, may  *)
(* override the publisher's half.                                            *)
Resolved(o) ==
    IF enc.sawFirst \/ ~header.properties \/ header.replaying THEN eff
    ELSE Effective(ApplyObjectProperties(pub, o), sub)

Expired(age, o) == Resolved(o).object > 0 /\ age > Resolved(o).object

-----------------------------------------------------------------------------
(* The writer. *)

NoReader == [state |-> "accept", header |-> HeaderItem([properties |-> FALSE, mode |-> "zero", endOfGroup |-> FALSE,
                                                        inlinePriority |-> FALSE, replaying |-> FALSE, subgroup |-> 0]),
             have |-> FALSE, prev |-> 0, subgroup |-> NoID, pending |-> FALSE]

Init ==
    /\ framed \in BOOLEAN /\ header \in Headers /\ pub \in Timeouts /\ sub \in Timeouts
    /\ eff = Effective(pub, sub)
    /\ enc = [sawFirst |-> FALSE, have |-> FALSE, prev |-> 0]
    /\ paused = FALSE /\ wire = <<>> /\ fate = "new" /\ reader = NoReader
    /\ written = <<>> /\ got = <<>> /\ wellFormed = TRUE /\ session = "open"

(* openSubgroup, whose context may cut the header short with a reset. *)
Open ==
    /\ fate = "new" /\ session = "open"
    /\ \/ wire' = <<HeaderItem(header)>> /\ fate' = "open"
       \/ wire' \in {<<>>, <<HeaderItem(header)>>} /\ fate' = "reset"
    /\ UNCHANGED <<writerVars, eff, enc, paused, reader, written, got, wellFormed, session>>

(* The delta of an object at id: WriteObjectAt refuses an id that does not *)
(* increase and leaves the stream usable.                                  *)
DeltaOf(id) == IF enc.have THEN Wrapped(id - enc.prev - 1) ELSE id

Increases(id) == enc.have => id > enc.prev

(* WriteObjectReceivedAt, from the delta on: an object that carries the     *)
(* timeouts o and is age old by now.  A paused publication or an old object *)
(* resets the stream; a write that blocks past the deadline leaves part of  *)
(* the object behind, and the reset follows.  Nothing here validates the    *)
(* object: valid says whether the reader's Validate will accept its status. *)
WriteObject(delta, age, o, valid) ==
    LET id == IF enc.have THEN Wrapped(enc.prev + delta + 1) ELSE delta IN
    /\ eff' = Resolved(o)
    /\ wellFormed' = (wellFormed /\ valid)
    /\ \/ /\ paused \/ Expired(age, o)
          /\ fate' = "reset" /\ enc' = [enc EXCEPT !.sawFirst = TRUE] /\ UNCHANGED <<wire, written>>
       \/ /\ ~paused /\ ~Expired(age, o)
          /\ fate' = fate /\ enc' = [sawFirst |-> TRUE, have |-> TRUE, prev |-> id]
          /\ wire' = wire \o <<HeadItem(delta, valid), BodyItem>>
          /\ written' = Append(written, id)
       \/ /\ ~paused /\ ~Expired(age, o) /\ Resolved(o).object > 0
          /\ fate' = "reset" /\ enc' = [enc EXCEPT !.sawFirst = TRUE]
          /\ wire' \in {wire, Append(wire, HeadItem(delta, valid))}
          /\ UNCHANGED written

(* The reader never gets past an object Validate refuses, so that what would *)
(* be written after one is left out.                                         *)
WriteBound == Len(written) <= MaxID /\ wellFormed

WriteObjectAt(id, age, o, valid) ==
    /\ framed /\ fate = "open" /\ session = "open" /\ WriteBound
    /\ Increases(id) /\ WriteObject(DeltaOf(id), age, o, valid)
    /\ UNCHANGED <<writerVars, paused, reader, got, session>>

WriteObjectFramed(delta, age, valid) ==
    /\ ~framed /\ fate = "open" /\ session = "open" /\ WriteBound
    /\ WriteObject(delta, age, [object |-> NoOverride, subgroup |-> NoOverride], valid)
    /\ UNCHANGED <<writerVars, paused, reader, got, session>>

Pause ==
    /\ ~paused /\ fate = "open" /\ paused' = TRUE
    /\ UNCHANGED <<writerVars, eff, enc, wire, fate, reader, written, got, wellFormed, session>>

(* Close, and the timer it leaves behind when the subgroup has a timeout. *)
Close ==
    /\ fate = "open" /\ fate' = "fin"
    /\ UNCHANGED <<writerVars, eff, enc, paused, wire, reader, written, got, wellFormed, session>>

(* Cancel, or that timer before the peer acknowledged everything. *)
Cancel ==
    /\ fate = "open" \/ (fate = "fin" /\ eff.subgroup > 0 /\ wire # <<>>)
    /\ fate' = "reset"
    /\ UNCHANGED <<writerVars, eff, enc, paused, wire, reader, written, got, wellFormed, session>>

-----------------------------------------------------------------------------
(* The reader. *)

ReaderTakes(r) ==
    /\ reader' = r /\ wire' = Tail(wire)
    /\ UNCHANGED <<writerVars, eff, enc, paused, fate, written, wellFormed>>

(* acceptDataStream on a complete header. *)
AcceptDataStream ==
    /\ session = "open" /\ reader.state = "accept" /\ wire # <<>>
    /\ IsSubgroupHeaderType(Head(wire).value)
    /\ ReaderTakes([reader EXCEPT !.state = "read", !.header = Head(wire)])
    /\ UNCHANGED <<got, session>>

(* It takes a stream that ended before its header for nothing at all, and  *)
(* so does it a padding stream; a reserved or unknown type is a violation. *)
AcceptAborted ==
    /\ session = "open" /\ reader.state = "accept" /\ wire = <<>> /\ fate = "reset"
    /\ reader' = [reader EXCEPT !.state = "done"]
    /\ UNCHANGED <<writerVars, eff, enc, paused, wire, fate, written, got, wellFormed, session>>

AcceptOther(t) ==
    /\ session = "open" /\ reader.state = "accept" /\ ~framed /\ fate = "new"
    /\ ~IsSubgroupHeaderType(t) /\ t \notin {FetchHeaderType, PaddingStreamType}
    /\ session' = "closed"
    /\ UNCHANGED <<writerVars, eff, enc, paused, wire, fate, reader, written, got, wellFormed>>

(* NextSubgroupObjectID: past MaxID is ErrIDOverflow. *)
NextSubgroupObjectID(prev, delta) == prev + delta + 1

ObjectID(delta) == IF reader.have THEN NextSubgroupObjectID(reader.prev, delta) ELSE delta

(* The Subgroup ID is resolved once, at the first object. *)
SubgroupID(id) ==
    LET h == DecodeSubgroupHeaderType(reader.header.value) IN
    IF reader.subgroup # NoID THEN reader.subgroup
    ELSE IF h.mode = "zero" THEN 0 ELSE IF h.mode = "explicit" THEN reader.header.subgroup ELSE id

AtHead == session = "open" /\ reader.state = "read" /\ ~reader.pending

(* Validate comes first (only an object without payload can fail it), then  *)
(* the Object ID; a failure of either closes the session.                   *)
HeadViolates == ~Head(wire).valid \/ ObjectID(Head(wire).value) \notin IDs

ReadObjectHeader ==
    /\ AtHead /\ wire # <<>> /\ ~HeadViolates
    /\ LET id == ObjectID(Head(wire).value) IN
       ReaderTakes([reader EXCEPT !.have = TRUE, !.prev = id, !.subgroup = SubgroupID(id), !.pending = TRUE])
    /\ UNCHANGED <<got, session>>

ReadViolation ==
    /\ AtHead /\ wire # <<>> /\ HeadViolates
    /\ session' = "closed" /\ ReaderTakes(reader) /\ UNCHANGED got

(* ReadObjectPayload, and with it ReadDecoded. *)
ReadObjectPayload ==
    /\ session = "open" /\ reader.state = "read" /\ reader.pending /\ wire # <<>>
    /\ ReaderTakes([reader EXCEPT !.pending = FALSE])
    /\ got' = Append(got, [id |-> reader.prev, subgroup |-> reader.subgroup])
    /\ UNCHANGED session

(* The end of the stream: io.EOF between objects; a FIN inside one closes  *)
(* the session (checkFINMidObject), a reset never does, and loses whatever *)
(* was not read.                                                           *)
ReadEnd ==
    /\ session = "open" /\ reader.state = "read"
    /\ fate = "reset" \/ (fate = "fin" /\ wire = <<>>)
    /\ reader' = [reader EXCEPT !.state = "done"] /\ wire' = <<>>
    /\ session' = IF fate = "fin" /\ reader.pending THEN "closed" ELSE "open"
    /\ UNCHANGED <<writerVars, eff, enc, paused, fate, written, got, wellFormed>>

Next ==
    \/ Open \/ Pause \/ Close \/ Cancel
    \/ \E id \in IDs, age \in 1..MaxAge, o \in Overrides, valid \in BOOLEAN :
          WriteObjectAt(id, age, o, valid)
    \/ \E delta \in IDs, age \in 1..MaxAge, valid \in BOOLEAN : WriteObjectFramed(delta, age, valid)
    \/ AcceptDataStream \/ AcceptAborted \/ ReadObjectHeader \/ ReadViolation
    \/ ReadObjectPayload \/ ReadEnd
    \/ \E t \in StreamTypes : AcceptOther(t)

Spec == Init /\ [][Next]_vars

-----------------------------------------------------------------------------

(* Types; what the reader takes next is what it expects next, so it never  *)
(* reads a payload as a header.                                            *)
TypeOK ==
    /\ framed \in BOOLEAN /\ header \in Header /\ paused \in BOOLEAN
    /\ wellFormed \in BOOLEAN
    /\ fate \in {"new", "open", "fin", "reset"} /\ session \in {"open", "closed"}
    /\ \A i \in DOMAIN wire : wire[i].part \in {"header", "head", "body"}
    /\ reader.state \in {"accept", "read", "done"}
    /\ wire # <<>> /\ session = "open" =>
         Head(wire).part = CASE reader.state = "accept" -> "header"
                             [] reader.state = "read" -> IF reader.pending THEN "body" ELSE "head"
                             [] OTHER -> "none"

(***************************************************************************)
(* What ReadDecoded returns is a prefix of what was written, object by     *)
(* object, each in the subgroup the header means, whichever mode names it  *)
(* and wherever a reset cuts the stream.                                   *)
(***************************************************************************)
DecodedPrefix ==
    framed => \A i \in DOMAIN got :
        /\ i \in DOMAIN written /\ got[i].id = written[i]
        /\ got[i].subgroup = CASE header.mode = "zero" -> 0
                               [] header.mode = "explicit" -> header.subgroup
                               [] header.mode = "firstObject" -> written[1]

(***************************************************************************)
(* An application that leaves framing to WriteObjectAt, and hands it only  *)
(* objects that Validate accepts, never costs the session, wherever        *)
(* pauses, timeouts, blocked writes, Close and Cancel leave the stream: a  *)
(* stream cut inside an object is reset, never FINished.  (WriteObjectAt   *)
(* does not call Validate itself, as SendDatagram does: an object with an  *)
(* undefined status is written, and the peer closes the session.)          *)
(***************************************************************************)
FramedKeepsSession == framed /\ wellFormed => session = "open"

(***************************************************************************)
(* What is written on a subgroup stream is what is read, as far as it is,  *)
(* and costs no session where framing is the library's and objects valid.  *)
(***************************************************************************)
ReadAsWritten == FramedKeepsSession /\ DecodedPrefix
=============================================================================
