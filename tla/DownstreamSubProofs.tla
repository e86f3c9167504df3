------------------------ MODULE DownstreamSubProofs ------------------------
(***************************************************************************)
(* Type correctness and the safety of one downstream subscription, for any *)
(* number of data streams, datagrams, PUBLISH_DONE codes and updates.      *)
(***************************************************************************)
EXTENDS DownstreamSub, FiniteSetTheorems, SequenceTheorems, TLAPS

Opening == {s \in Streams : stream[s] = "opening"}
Open    == {s \in Streams : stream[s] = "open"}
Sending == {d \in Datagrams : dgram[d] = "sending"}
Quiet   == Opening = {} /\ Open = {} /\ Sending = {}
Ended   == \E i \in DOMAIN wire : wire[i].kind \in {"PUBLISH_DONE", "REQUEST_ERROR"}

\* The counters of DownstreamSub count what their names say.
CountInv ==
    /\ streamsOpening = Cardinality(Opening)
    /\ streamsOpen = Cardinality(Open)
    /\ streamsOpened = Cardinality(Opened)
    /\ datagramsSending = Cardinality(Sending)

\* A termination's answer is pending, or being sent, or sent: never two of
\* these, and from the moment it is being sent nothing is open.
AnswerInv ==
    /\ pendingDone # NoDone => state = "Terminated" /\ answers = <<>> /\ ~Ended
    /\ answers # <<>> =>
        /\ state = "Terminated" /\ ~Ended /\ Quiet
        /\ Len(answers) = 1 /\ answers[1].count = Cardinality(Opened)
    /\ Ended => state = "Terminated"
    /\ DoneIsLast

\* The request handler's place decides who may write, and what is written.
WireInv ==
    /\ writeMu <=> handler \in {"writingOK", "writingUpdateOK", "writingUpdateError"}
    /\ writeMu => ~Ended
    /\ handler \in {"registered", "writingOK"} => ~okSent
    /\ handler \in {"awaitOK", "serving", "writingUpdateOK", "writingUpdateError",
                    "failing"} => okSent
    /\ ~okSent => wire = <<>> \/ Ended
    /\ handler \in {"writingUpdateOK", "writingUpdateError"} => updates < MaxUpdates
    /\ OneAnswer

\* A writer resetting the request stream is the one that ended the
\* subscription, so no answer is or will be under way.
CancelInv ==
    (\E s \in Streams : writer[s] = "cancelling") =>
        /\ state = "Terminated" /\ pendingDone = NoDone /\ answers = <<>>
        /\ Kinds("PUBLISH_DONE") = {}

\* The inductive invariant.
SubInv == TypeOK /\ CountInv /\ AnswerInv /\ WireInv /\ CancelInv
----------------------------------------------------------------------------
(* What each part of the invariant depends on.                             *)

\* The counters depend on the streams and datagrams only.
LEMMA CountFrame ==
    ASSUME CountInv, UNCHANGED <<streamsOpened, streamsOpening, streamsOpen,
                                 datagramsSending, stream, dgram>>
    PROVE  CountInv'
  BY DEF CountInv, Opening, Open, Opened, Sending

\* The answer depends on the lifecycle, the wire and what is open.
LEMMA AnswerFrame ==
    ASSUME AnswerInv, UNCHANGED <<state, pendingDone, answers, wire, stream, dgram>>
    PROVE  AnswerInv'
  BY DEF AnswerInv, Ended, Quiet, Opening, Open, Opened, Sending, DoneIsLast, Kinds

\* The wire invariant depends on the request side only.
LEMMA WireFrame ==
    ASSUME WireInv, UNCHANGED <<writeMu, handler, okSent, wire, side, updates>>
    PROVE  WireInv'
  BY DEF WireInv, Ended, OneAnswer, Kinds

\* The cancelling writers depend on the answer and the writers only.
LEMMA CancelFrame ==
    ASSUME CancelInv, UNCHANGED <<state, pendingDone, answers, wire, writer>>
    PROVE  CancelInv'
  BY DEF CancelInv, Kinds

\* The counted sets are finite, so that their sizes are natural numbers.
LEMMA SetsFinite ==
    ASSUME TypeOK
    PROVE  /\ IsFiniteSet(Opening) /\ IsFiniteSet(Open) /\ IsFiniteSet(Opened)
           /\ IsFiniteSet(Sending)
           /\ Cardinality(Opening) \in Nat /\ Cardinality(Open) \in Nat
           /\ Cardinality(Opened) \in Nat /\ Cardinality(Sending) \in Nat
<1>1. Opening \in SUBSET Streams /\ Open \in SUBSET Streams
      /\ Opened \in SUBSET Streams /\ Sending \in SUBSET Datagrams
  BY DEF Opening, Open, Opened, Sending
<1> QED
  BY <1>1, FiniteAssumption, FS_Subset, FS_CardinalityType

\* Before any answer was started, takeReadyDoneLocked either keeps done
\* pending or starts the answer, and then nothing is open.
LEMMA ReadyDone ==
    ASSUME SubInv, NEW done \in Codes \cup {NoDone}, takeReadyDone(done),
           answers = <<>>, Kinds("PUBLISH_DONE") = {}, wire' = wire,
           done # NoDone => state' = "Terminated" /\ ~Ended,
           Ended => state' = "Terminated",
           CountInv', streamsOpened' \in Nat,
           IsFiniteSet(Opening'), IsFiniteSet(Open'), IsFiniteSet(Sending')
    PROVE  /\ AnswerInv'
           /\ answers' \in Seq([code : Codes, count : Nat])
           /\ pendingDone' \in Codes \cup {NoDone}
           /\ done = NoDone => pendingDone' = NoDone /\ answers' = <<>>
<1>1. Ended' = Ended /\ Kinds("PUBLISH_DONE")' = {}
  BY DEF Ended, Kinds
<1>2. DoneIsLast'
  BY <1>1 DEF DoneIsLast
<1>3. CASE pendingDone' = done /\ answers' = <<>>
  BY <1>1, <1>2, <1>3 DEF AnswerInv
<1>4. CASE /\ done # NoDone /\ pendingDone' = NoDone
           /\ answers' = <<[code |-> done, count |-> streamsOpened']>>
           /\ ~(streamsOpen' > 0) /\ ~(streamsOpening' > 0) /\ ~(datagramsSending' > 0)
  <2>1. Cardinality(Opening') = 0 /\ Cardinality(Open') = 0 /\ Cardinality(Sending') = 0
    BY <1>4, FS_CardinalityType DEF CountInv
  <2>2. Quiet'
    BY <2>1, FS_EmptySet DEF Quiet
  <2>3. Len(answers') = 1 /\ answers'[1].count = Cardinality(Opened')
    BY <1>4 DEF CountInv
  <2>4. answers' \in Seq([code : Codes, count : Nat])
    BY <1>4
  <2> QED
    BY <1>1, <1>2, <1>4, <2>2, <2>3, <2>4 DEF AnswerInv
<1> QED
  BY <1>3, <1>4 DEF takeReadyDone

\* A stream changing state moves between the counted sets.
LEMMA BeginStreamStep ==
    ASSUME SubInv, NEW s \in Streams, BeginStream(s)
    PROVE  SubInv'
<1>1. Opening' = Opening \cup {s} /\ s \notin Opening
      /\ Open' = Open /\ Opened' = Opened /\ Sending' = Sending
  BY DEF BeginStream, Opening, Open, Opened, Sending, SubInv, TypeOK
<1>2. Cardinality(Opening') = Cardinality(Opening) + 1
  BY <1>1, FS_AddElement, SetsFinite DEF SubInv
<1>3. CountInv'
  BY <1>1, <1>2 DEF SubInv, CountInv, BeginStream
<1>4. TypeOK'
  BY DEF SubInv, TypeOK, BeginStream, request
<1>5. AnswerInv'
  <2>1. pendingDone = NoDone /\ answers = <<>> /\ ~Ended
    BY DEF SubInv, AnswerInv, BeginStream
  <2>2. pendingDone' = NoDone /\ answers' = <<>> /\ ~Ended' /\ wire' = wire
    BY <2>1 DEF BeginStream, Ended, request
  <2>3. Kinds("PUBLISH_DONE")' = {}
    BY <2>2 DEF Ended, Kinds
  <2> QED
    BY <2>2, <2>3 DEF AnswerInv, DoneIsLast
<1>6. WireInv'
  BY WireFrame DEF SubInv, BeginStream, request
<1>7. CancelInv'
  BY CancelFrame DEF SubInv, BeginStream, request
<1> QED
  BY <1>3, <1>4, <1>5, <1>6, <1>7 DEF SubInv

\* endStream keeps the invariant, whether the open succeeded or not.
LEMMA EndStreamStep ==
    ASSUME SubInv, NEW s \in Streams, NEW opened \in BOOLEAN, EndStream(s, opened)
    PROVE  SubInv'
<1>1. /\ stream[s] = "opening" /\ stream' = [stream EXCEPT ![s] =
                                        IF opened THEN "open" ELSE "failed"]
      /\ dgram' = dgram /\ wire' = wire /\ writer' = writer /\ state' = state
  BY DEF EndStream, request
<1>2. /\ Opening' = Opening \ {s} /\ s \in Opening
      /\ Open' = IF opened THEN Open \cup {s} ELSE Open
      /\ Opened' = IF opened THEN Opened \cup {s} ELSE Opened
      /\ s \notin Open /\ s \notin Opened /\ Sending' = Sending
  BY <1>1 DEF Opening, Open, Opened, Sending, SubInv, TypeOK
<1>3. /\ Cardinality(Opening') = Cardinality(Opening) - 1 /\ IsFiniteSet(Opening')
      /\ Cardinality(Open \cup {s}) = Cardinality(Open) + 1 /\ IsFiniteSet(Open')
      /\ Cardinality(Opened \cup {s}) = Cardinality(Opened) + 1
      /\ IsFiniteSet(Sending')
  BY <1>2, FS_AddElement, FS_RemoveElement, SetsFinite DEF SubInv
<1>4. Cardinality(Opening') \in Nat
  BY <1>3, FS_CardinalityType
<1>5. CountInv'
  BY <1>2, <1>3 DEF SubInv, CountInv, EndStream
<1>6. answers = <<>> /\ Kinds("PUBLISH_DONE") = {}
  BY <1>2 DEF SubInv, AnswerInv, Quiet, DoneIsLast, Opening
<1>7. streamsOpened' \in Nat
  BY DEF EndStream, SubInv, TypeOK
<1>8. /\ AnswerInv'
      /\ answers' \in Seq([code : Codes, count : Nat])
      /\ pendingDone' \in Codes \cup {NoDone}
      /\ pendingDone = NoDone => pendingDone' = NoDone /\ answers' = <<>>
  <2>1. takeReadyDone(pendingDone) /\ pendingDone \in Codes \cup {NoDone}
    BY DEF EndStream, SubInv, TypeOK
  <2>2. /\ pendingDone # NoDone => state' = "Terminated" /\ ~Ended
        /\ Ended => state' = "Terminated"
    BY <1>1 DEF SubInv, AnswerInv
  <2> QED
    BY <1>1, <1>3, <1>5, <1>6, <1>7, <2>1, <2>2, ReadyDone
<1>9. TypeOK'
  <2>1. streamsOpening' \in Nat
    BY <1>4, <1>5 DEF CountInv
  <2>2. streamsOpen' \in Nat
    BY DEF EndStream, SubInv, TypeOK
  <2>3. stream' \in [Streams -> {"none", "opening", "open", "failed", "closed"}]
    BY <1>1 DEF SubInv, TypeOK
  <2>4. UNCHANGED <<state, datagramsSending, okSent, writeMu, side, handler,
                    updates, writer, dgram, wire>>
    BY DEF EndStream, request
  <2> QED
    BY <1>7, <1>8, <2>1, <2>2, <2>3, <2>4 DEF SubInv, TypeOK
<1>10. WireInv'
  BY WireFrame DEF SubInv, EndStream, request
<1>11. CancelInv'
  BY <1>1, <1>6, <1>8 DEF SubInv, CancelInv, Kinds
<1> QED
  BY <1>5, <1>8, <1>9, <1>10, <1>11 DEF SubInv

\* streamClosed keeps the invariant: the last close starts the answer.
LEMMA StreamClosedStep ==
    ASSUME SubInv, NEW s \in Streams, NEW next \in {"done", "slow"},
           StreamClosed(s, next)
    PROVE  SubInv'
<1>1. /\ stream[s] = "open" /\ stream' = [stream EXCEPT ![s] = "closed"]
      /\ dgram' = dgram /\ wire' = wire /\ state' = state
      /\ writer' = [writer EXCEPT ![s] = next]
  BY DEF StreamClosed, request
<1>2. /\ Open' = Open \ {s} /\ s \in Open
      /\ Opening' = Opening /\ Opened' = Opened /\ Sending' = Sending
  BY <1>1 DEF Opening, Open, Opened, Sending, SubInv, TypeOK
<1>3. /\ Cardinality(Open') = Cardinality(Open) - 1 /\ IsFiniteSet(Open')
      /\ IsFiniteSet(Opening') /\ IsFiniteSet(Sending')
  BY <1>2, FS_RemoveElement, SetsFinite DEF SubInv
<1>4. Cardinality(Open') \in Nat
  BY <1>3, FS_CardinalityType
<1>5. CountInv'
  BY <1>2, <1>3 DEF SubInv, CountInv, StreamClosed
<1>6. answers = <<>> /\ Kinds("PUBLISH_DONE") = {}
  BY <1>2 DEF SubInv, AnswerInv, Quiet, DoneIsLast, Open
<1>7. /\ AnswerInv'
      /\ answers' \in Seq([code : Codes, count : Nat])
      /\ pendingDone' \in Codes \cup {NoDone}
      /\ pendingDone = NoDone => pendingDone' = NoDone /\ answers' = <<>>
  <2>1. /\ takeReadyDone(pendingDone) /\ pendingDone \in Codes \cup {NoDone}
        /\ streamsOpened' \in Nat
    BY DEF StreamClosed, SubInv, TypeOK
  <2>2. /\ pendingDone # NoDone => state' = "Terminated" /\ ~Ended
        /\ Ended => state' = "Terminated"
    BY <1>1 DEF SubInv, AnswerInv
  <2> QED
    BY <1>1, <1>3, <1>5, <1>6, <2>1, <2>2, ReadyDone
<1>8. TypeOK'
  <2>1. streamsOpen' \in Nat
    BY <1>4, <1>5 DEF CountInv
  <2>2. /\ stream' \in [Streams -> {"none", "opening", "open", "failed", "closed"}]
        /\ writer' \in [Streams -> {"running", "slow", "cancelling", "done"}]
    BY <1>1 DEF SubInv, TypeOK
  <2>3. UNCHANGED <<state, streamsOpened, streamsOpening, datagramsSending, okSent,
                    writeMu, side, handler, updates, dgram, wire>>
    BY DEF StreamClosed, request
  <2> QED
    BY <1>7, <2>1, <2>2, <2>3 DEF SubInv, TypeOK
<1>9. WireInv'
  BY WireFrame DEF SubInv, StreamClosed, request
<1>10. CancelInv'
  <2>1. \A t \in Streams : writer'[t] = "cancelling" => writer[t] = "cancelling"
    BY <1>1 DEF SubInv, TypeOK
  <2> QED
    BY <1>1, <1>6, <1>7, <2>1 DEF SubInv, CancelInv, Kinds
<1> QED
  BY <1>5, <1>7, <1>8, <1>9, <1>10 DEF SubInv

\* beginDatagram keeps the invariant: nothing is sent once terminated.
LEMMA BeginDatagramStep ==
    ASSUME SubInv, NEW d \in Datagrams, BeginDatagram(d)
    PROVE  SubInv'
<1>1. Sending' = Sending \cup {d} /\ d \notin Sending
      /\ Open' = Open /\ Opened' = Opened /\ Opening' = Opening
  BY DEF BeginDatagram, Opening, Open, Opened, Sending, SubInv, TypeOK
<1>2. Cardinality(Sending') = Cardinality(Sending) + 1
  BY <1>1, FS_AddElement, SetsFinite DEF SubInv
<1>3. CountInv'
  BY <1>1, <1>2 DEF SubInv, CountInv, BeginDatagram
<1>4. TypeOK'
  BY DEF SubInv, TypeOK, BeginDatagram, request
<1>5. AnswerInv'
  <2>1. pendingDone = NoDone /\ answers = <<>> /\ ~Ended
    BY DEF SubInv, AnswerInv, BeginDatagram
  <2>2. pendingDone' = NoDone /\ answers' = <<>> /\ ~Ended' /\ wire' = wire
    BY <2>1 DEF BeginDatagram, Ended, request
  <2>3. Kinds("PUBLISH_DONE")' = {}
    BY <2>2 DEF Ended, Kinds
  <2> QED
    BY <2>2, <2>3 DEF AnswerInv, DoneIsLast
<1>6. WireInv'
  BY WireFrame DEF SubInv, BeginDatagram, request
<1>7. CancelInv'
  BY CancelFrame DEF SubInv, BeginDatagram, request
<1> QED
  BY <1>3, <1>4, <1>5, <1>6, <1>7 DEF SubInv

\* endDatagram keeps the invariant: the last send starts the answer.
LEMMA EndDatagramStep ==
    ASSUME SubInv, NEW d \in Datagrams, EndDatagram(d)
    PROVE  SubInv'
<1>1. /\ dgram[d] = "sending" /\ dgram' = [dgram EXCEPT ![d] = "sent"]
      /\ stream' = stream /\ wire' = wire /\ writer' = writer /\ state' = state
  BY DEF EndDatagram, request
<1>2. /\ Sending' = Sending \ {d} /\ d \in Sending
      /\ Opening' = Opening /\ Open' = Open /\ Opened' = Opened
  BY <1>1 DEF Opening, Open, Opened, Sending, SubInv, TypeOK
<1>3. /\ Cardinality(Sending') = Cardinality(Sending) - 1 /\ IsFiniteSet(Sending')
      /\ IsFiniteSet(Opening') /\ IsFiniteSet(Open')
  BY <1>2, FS_RemoveElement, SetsFinite DEF SubInv
<1>4. Cardinality(Sending') \in Nat
  BY <1>3, FS_CardinalityType
<1>5. CountInv'
  BY <1>2, <1>3 DEF SubInv, CountInv, EndDatagram
<1>6. answers = <<>> /\ Kinds("PUBLISH_DONE") = {}
  BY <1>2 DEF SubInv, AnswerInv, Quiet, DoneIsLast, Sending
<1>7. /\ AnswerInv'
      /\ answers' \in Seq([code : Codes, count : Nat])
      /\ pendingDone' \in Codes \cup {NoDone}
      /\ pendingDone = NoDone => pendingDone' = NoDone /\ answers' = <<>>
  <2>1. /\ takeReadyDone(pendingDone) /\ pendingDone \in Codes \cup {NoDone}
        /\ streamsOpened' \in Nat
    BY DEF EndDatagram, SubInv, TypeOK
  <2>2. /\ pendingDone # NoDone => state' = "Terminated" /\ ~Ended
        /\ Ended => state' = "Terminated"
    BY <1>1 DEF SubInv, AnswerInv
  <2> QED
    BY <1>1, <1>3, <1>5, <1>6, <2>1, <2>2, ReadyDone
<1>8. TypeOK'
  <2>1. datagramsSending' \in Nat
    BY <1>4, <1>5 DEF CountInv
  <2>2. dgram' \in [Datagrams -> {"none", "sending", "sent"}]
    BY <1>1 DEF SubInv, TypeOK
  <2>3. UNCHANGED <<state, streamsOpened, streamsOpening, streamsOpen, okSent,
                    writeMu, side, handler, updates, stream, writer, wire>>
    BY DEF EndDatagram, request
  <2> QED
    BY <1>7, <2>1, <2>2, <2>3 DEF SubInv, TypeOK
<1>9. WireInv'
  BY WireFrame DEF SubInv, EndDatagram, request
<1>10. CancelInv'
  BY <1>1, <1>6, <1>7 DEF SubInv, CancelInv, Kinds
<1> QED
  BY <1>5, <1>7, <1>8, <1>9, <1>10 DEF SubInv

\* A slow reader's writer keeps the invariant at each of its three steps.
LEMMA SlowReaderStep ==
    ASSUME SubInv, NEW s \in Streams,
           SlowBeforeOpen(s) \/ SlowReaderTerminate(s) \/ SlowReaderCancel(s)
    PROVE  SubInv'
<1>1. CASE SlowBeforeOpen(s)
  <2>1. UNCHANGED <<lifecycle, request, stream, dgram>>
        /\ writer' = [writer EXCEPT ![s] = "slow"]
    BY <1>1 DEF SlowBeforeOpen
  <2>2. TypeOK' /\ CountInv' /\ AnswerInv' /\ WireInv'
    BY <2>1, CountFrame, AnswerFrame, WireFrame
       DEF SubInv, TypeOK, lifecycle, request
  <2>3. \A t \in Streams : writer'[t] = "cancelling" => writer[t] = "cancelling"
    BY <2>1 DEF SubInv, TypeOK
  <2>4. CancelInv'
    BY <2>1, <2>3 DEF SubInv, CancelInv, Kinds, lifecycle, request
  <2> QED
    BY <2>2, <2>4 DEF SubInv
<1>2. CASE SlowReaderTerminate(s)
  <2>1. /\ UNCHANGED <<streamsOpened, streamsOpening, streamsOpen, datagramsSending,
                       pendingDone, answers, wire, stream, dgram>>
        /\ UNCHANGED request
        /\ state' = "Terminated"
        /\ writer' = [writer EXCEPT ![s] = IF state = "Established" THEN "cancelling"
                                                                   ELSE "done"]
    BY <1>2 DEF SlowReaderTerminate, request
  <2>2. TypeOK' /\ CountInv' /\ WireInv'
    BY <2>1, CountFrame, WireFrame DEF SubInv, TypeOK, request
  <2>3. AnswerInv'
    BY <2>1 DEF SubInv, AnswerInv, Ended, Quiet, Opening, Open, Opened, Sending,
                DoneIsLast, Kinds
  <2>4. CASE state = "Established"
    <3>1. pendingDone = NoDone /\ answers = <<>> /\ ~Ended
      BY <2>4 DEF SubInv, AnswerInv
    <3>2. CancelInv'
      BY <2>1, <3>1 DEF CancelInv, Ended, Kinds
    <3> QED
      BY <2>2, <2>3, <3>2 DEF SubInv
  <2>5. CASE state # "Established"
    <3>1. \A t \in Streams : writer'[t] = "cancelling" => writer[t] = "cancelling"
      BY <2>1, <2>5 DEF SubInv, TypeOK
    <3>2. CancelInv'
      BY <2>1, <3>1 DEF SubInv, CancelInv, Kinds
    <3> QED
      BY <2>2, <2>3, <3>2 DEF SubInv
  <2> QED
    BY <2>4, <2>5
<1>3. CASE SlowReaderCancel(s)
  <2>1. /\ UNCHANGED <<lifecycle, okSent, writeMu, wire, handler, updates, stream, dgram>>
        /\ writer[s] = "cancelling" /\ writer' = [writer EXCEPT ![s] = "done"]
        /\ side' = IF side = "open" THEN "reset" ELSE side
    BY <1>3 DEF SlowReaderCancel
  <2>2. TypeOK' /\ CountInv' /\ AnswerInv'
    BY <2>1, CountFrame, AnswerFrame DEF SubInv, TypeOK, lifecycle
  <2>3. Kinds("PUBLISH_DONE") = {}
    BY <2>1 DEF SubInv, CancelInv
  <2>4. WireInv'
    BY <2>1, <2>3 DEF SubInv, WireInv, OneAnswer, Ended, Kinds
  <2>5. \A t \in Streams : writer'[t] = "cancelling" => writer[t] = "cancelling"
    BY <2>1 DEF SubInv, TypeOK
  <2>6. CancelInv'
    BY <2>1, <2>5 DEF SubInv, CancelInv, Kinds, lifecycle
  <2> QED
    BY <2>2, <2>4, <2>6 DEF SubInv
<1> QED
  BY <1>1, <1>2, <1>3

\* Whoever terminates the subscription first owns its answer.
LEMMA TerminateStep ==
    ASSUME SubInv, NEW code \in Codes, terminateWithPublishDone(code),
           UNCHANGED <<stream, writer, dgram, wire>>
    PROVE  /\ CountInv' /\ AnswerInv' /\ CancelInv'
           /\ answers' \in Seq([code : Codes, count : Nat])
           /\ pendingDone' \in Codes \cup {NoDone}
           /\ state' \in {"Established", "Terminated"}
           /\ UNCHANGED <<streamsOpened, streamsOpening, streamsOpen,
                          datagramsSending>>
<1>1. CASE state = "Terminated"
  <2>1. UNCHANGED lifecycle
    BY <1>1 DEF terminateWithPublishDone
  <2> QED
    BY <2>1, CountFrame, AnswerFrame, CancelFrame DEF SubInv, TypeOK, lifecycle
<1>2. CASE state # "Terminated"
  <2>1. /\ state' = "Terminated" /\ takeReadyDone(code)
        /\ UNCHANGED <<streamsOpened, streamsOpening, streamsOpen, datagramsSending>>
    BY <1>2 DEF terminateWithPublishDone
  <2>2. pendingDone = NoDone /\ answers = <<>> /\ ~Ended
    BY <1>2 DEF SubInv, AnswerInv
  <2>3. Kinds("PUBLISH_DONE") = {}
    BY <2>2 DEF Ended, Kinds
  <2>4. CountInv'
    BY <2>1, CountFrame DEF SubInv
  <2>5. IsFiniteSet(Opening') /\ IsFiniteSet(Open') /\ IsFiniteSet(Sending')
    BY SetsFinite DEF SubInv, Opening, Open, Sending
  <2>6. streamsOpened' \in Nat
    BY <2>1 DEF SubInv, TypeOK
  <2>7. /\ AnswerInv'
        /\ answers' \in Seq([code : Codes, count : Nat])
        /\ pendingDone' \in Codes \cup {NoDone}
    BY <2>1, <2>2, <2>3, <2>4, <2>5, <2>6, ReadyDone
  <2>8. CancelInv'
    BY <1>2 DEF SubInv, CancelInv
  <2> QED
    BY <2>1, <2>4, <2>7, <2>8
<1> QED
  BY <1>1, <1>2

\* The two ways a termination owes an answer keep the invariant.
LEMMA AnswersStep ==
    ASSUME SubInv,
           \/ \E code \in Codes : TerminateWithPublishDone(code)
           \/ FailUpdate
    PROVE  SubInv'
<1>1. ASSUME NEW code \in Codes, TerminateWithPublishDone(code) PROVE SubInv'
  <2>1. terminateWithPublishDone(code) /\ UNCHANGED <<request, stream, writer, dgram>>
    BY <1>1 DEF TerminateWithPublishDone
  <2>2. UNCHANGED <<okSent, writeMu, wire, side, handler, updates>>
    BY <2>1 DEF request
  <2>3. WireInv'
    BY <2>2, WireFrame DEF SubInv
  <2> QED
    BY <2>1, <2>2, <2>3, TerminateStep DEF SubInv, TypeOK
<1>2. ASSUME FailUpdate PROVE SubInv'
  <2>1. /\ terminateWithPublishDone(UpdateFailed) /\ UpdateFailed \in Codes
        /\ handler = "failing" /\ handler' = "serving"
        /\ UNCHANGED <<okSent, writeMu, wire, side, updates, stream, writer, dgram>>
    BY <1>2, CodesAssumption DEF FailUpdate
  <2>2. WireInv'
    BY <2>1 DEF SubInv, WireInv, OneAnswer, Ended, Kinds
  <2> QED
    BY <2>1, <2>2, TerminateStep DEF SubInv, TypeOK
<1> QED
  BY <1>1, <1>2

\* What a write leaves on the wire.
LEMMA WrittenWire ==
    ASSUME SubInv, NEW m, NEW ok \in BOOLEAN, written(m, ok),
           m \in [kind : {"SUBSCRIBE_OK", "REQUEST_ERROR", "PUBLISH_DONE",
                          "REQUEST_UPDATE_OK", "UPDATE_ERROR"},
                  code : Codes \cup {NoDone}, count : Nat]
    PROVE  /\ \/ wire' = wire
              \/ /\ side # "reset" /\ ok
                 /\ Len(wire') = Len(wire) + 1 /\ Len(wire) \in Nat
                 /\ DOMAIN wire' = 1..(Len(wire) + 1)
                 /\ DOMAIN wire = 1..Len(wire)
                 /\ \A i \in 1..Len(wire) : wire'[i] = wire[i]
                 /\ wire'[Len(wire) + 1] = m
           /\ wire' \in Seq([kind : {"SUBSCRIBE_OK", "REQUEST_ERROR", "PUBLISH_DONE",
                                     "REQUEST_UPDATE_OK", "UPDATE_ERROR"},
                             code : Codes \cup {NoDone}, count : Nat])
<1> DEFINE M == [kind : {"SUBSCRIBE_OK", "REQUEST_ERROR", "PUBLISH_DONE",
                         "REQUEST_UPDATE_OK", "UPDATE_ERROR"},
                 code : Codes \cup {NoDone}, count : Nat]
<1>1. wire \in Seq(M) /\ m \in M
  BY DEF SubInv, TypeOK
<1> HIDE DEF M
<1>2. CASE wire' = wire
  BY <1>1, <1>2 DEF M
<1>3. CASE ok /\ side # "reset" /\ wire' = Append(wire, m)
  <2>1. wire' \in Seq(M)
    BY <1>1, <1>3
  <2>2. /\ Len(wire') = Len(wire) + 1 /\ Len(wire) \in Nat
        /\ DOMAIN wire' = 1..(Len(wire) + 1)
        /\ DOMAIN wire = 1..Len(wire)
        /\ \A i \in 1..Len(wire) : wire'[i] = wire[i]
        /\ wire'[Len(wire) + 1] = m
    BY <1>1, <1>3
  <2> QED
    BY <1>3, <2>1, <2>2 DEF M
<1> QED
  BY <1>2, <1>3 DEF written

\* A sequence of one element.
LEMMA SingletonSeq ==
    ASSUME NEW q \in Seq([code : Codes, count : Nat]), Len(q) = 1
    PROVE  /\ Head(q) = q[1] /\ Tail(q) = <<>>
           /\ Head(q).code \in Codes /\ Head(q).count \in Nat
<1> DEFINE A == [code : Codes, count : Nat]
<1> HIDE DEF A
<1>1. q \in Seq(A)
  BY DEF A
<1>2. q # <<>>
  <2>1. Len(<<>>) = 0
    BY EmptySeq
  <2>2. 1 # 0
    OBVIOUS
  <2> QED
    BY <2>1, <2>2, Zenon
<1>3. Head(q) \in A /\ Tail(q) \in Seq(A) /\ Len(Tail(q)) = 0
  BY <1>1, <1>2, HeadTailProperties
<1>4. Tail(q) = <<>>
  BY <1>3, EmptySeq
<1>5. Head(q) = q[1]
  BY <1>2
<1> QED
  BY <1>3, <1>4, <1>5 DEF A

\* The answer is the last message, and is written when nothing is open.
LEMMA SendPublishDoneStep ==
    ASSUME SubInv, NEW ok \in BOOLEAN, SendPublishDone(ok)
    PROVE  SubInv'
<1> DEFINE m == IF okSent THEN PublishDone(Head(answers).code, Head(answers).count)
                          ELSE Msg("REQUEST_ERROR")
<1>1. /\ answers # <<>> /\ answers \in Seq([code : Codes, count : Nat])
      /\ ~writeMu /\ written(m, ok) /\ answers' = Tail(answers)
      /\ UNCHANGED <<state, streamsOpened, streamsOpening, streamsOpen,
                     datagramsSending, pendingDone, okSent, writeMu, handler,
                     updates, stream, writer, dgram>>
      /\ side' = IF side # "open" THEN side ELSE IF ok \/ okSent THEN "fin" ELSE "reset"
  BY DEF SendPublishDone, SubInv, TypeOK
<1>2. /\ state = "Terminated" /\ ~Ended /\ Quiet /\ pendingDone = NoDone
      /\ Len(answers) = 1 /\ answers[1].count = Cardinality(Opened)
  BY <1>1 DEF SubInv, AnswerInv
<1>3. /\ Head(answers) = answers[1] /\ answers' = <<>>
      /\ Head(answers).code \in Codes /\ Head(answers).count \in Nat
  BY <1>1, <1>2, SingletonSeq
<1>4. /\ m \in [kind : {"SUBSCRIBE_OK", "REQUEST_ERROR", "PUBLISH_DONE",
                          "REQUEST_UPDATE_OK", "UPDATE_ERROR"},
                  code : Codes \cup {NoDone}, count : Nat]
      /\ m.kind = IF okSent THEN "PUBLISH_DONE" ELSE "REQUEST_ERROR"
      /\ okSent => m.count = Cardinality(Opened)
  BY <1>2, <1>3 DEF PublishDone, Msg
<1> HIDE DEF m
<1>5. /\ \/ wire' = wire
         \/ /\ side # "reset" /\ ok
            /\ Len(wire') = Len(wire) + 1 /\ Len(wire) \in Nat
            /\ DOMAIN wire' = 1..(Len(wire) + 1)
            /\ DOMAIN wire = 1..Len(wire)
            /\ \A i \in 1..Len(wire) : wire'[i] = wire[i]
            /\ wire'[Len(wire) + 1] = m
      /\ wire' \in Seq([kind : {"SUBSCRIBE_OK", "REQUEST_ERROR", "PUBLISH_DONE",
                                "REQUEST_UPDATE_OK", "UPDATE_ERROR"},
                        code : Codes \cup {NoDone}, count : Nat])
  BY <1>1, <1>4, WrittenWire
<1>6. side' \in {"open", "fin", "reset"} /\ (side # "reset" /\ ok => side' = "fin")
  BY <1>1 DEF SubInv, TypeOK
<1>7. TypeOK'
  BY <1>1, <1>3, <1>5, <1>6 DEF SubInv, TypeOK
<1>8. CountInv'
  BY <1>1, CountFrame DEF SubInv
<1>9. Quiet' /\ Opened' = Opened
  BY <1>1, <1>2 DEF Quiet, Opening, Open, Sending, Opened
<1>10. AnswerInv'
  <2>1. DoneIsLast'
    <3> SUFFICES ASSUME NEW i \in Kinds("PUBLISH_DONE")'
                 PROVE  wire'[i].count = Cardinality(Opened)
      BY <1>9 DEF DoneIsLast, Quiet, Opening, Open, Sending
    <3> QED
      BY <1>2, <1>4, <1>5 DEF Ended, Kinds
  <2> QED
    BY <1>1, <1>2, <1>3, <2>1 DEF AnswerInv
<1>11. ~(\E s \in Streams : writer[s] = "cancelling")
  BY <1>1 DEF SubInv, CancelInv
<1>12. CancelInv'
  BY <1>1, <1>11 DEF CancelInv
<1>13. WireInv'
  <2>1. CASE wire' = wire
    BY <1>1, <1>2, <2>1 DEF SubInv, WireInv, OneAnswer, Ended, Kinds
  <2>2. CASE wire' # wire
    <3>1. /\ Len(wire') = Len(wire) + 1 /\ Len(wire) \in Nat
          /\ DOMAIN wire' = 1..(Len(wire) + 1) /\ DOMAIN wire = 1..Len(wire)
          /\ \A i \in 1..Len(wire) : wire'[i] = wire[i]
          /\ wire'[Len(wire) + 1] = m /\ side' = "fin"
      BY <1>5, <1>6, <2>2
    <3>2. Ended'
      BY <1>4, <3>1 DEF Ended
    <3>3. \A i \in Kinds("PUBLISH_DONE")' \cup Kinds("REQUEST_ERROR")' : i = Len(wire')
      BY <1>2, <3>1 DEF Ended, Kinds
    <3>4. Kinds("PUBLISH_DONE")' # {} => okSent'
      BY <1>1, <1>2, <1>4, <3>1 DEF Ended, Kinds
    <3>5. CASE okSent
      <4>1. Kinds("SUBSCRIBE_OK")' = Kinds("SUBSCRIBE_OK") /\ Kinds("REQUEST_ERROR")' = {}
        BY <1>2, <1>4, <3>1, <3>5 DEF Ended, Kinds
      <4>2. Kinds("REQUEST_ERROR") = {}
        BY <1>2 DEF Ended, Kinds
      <4>3. OneAnswer'
        BY <3>1, <3>3, <3>4, <4>1, <4>2 DEF SubInv, WireInv, OneAnswer
      <4> QED
        BY <1>1, <3>5, <4>3 DEF SubInv, WireInv
    <3>6. CASE ~okSent
      <4>1. wire = <<>>
        BY <1>2, <3>6 DEF SubInv, WireInv
      <4>2. Len(wire) = 0
        BY <4>1
      <4>3. Kinds("SUBSCRIBE_OK")' = {} /\ Kinds("REQUEST_ERROR")' = {1}
        BY <1>4, <3>1, <3>6, <4>2 DEF Kinds
      <4>4. Cardinality({} \cup {1}) <= 1
        <5>1. {} \cup {1} = {1}
          OBVIOUS
        <5>2. Cardinality({1}) = 1
          BY FS_Singleton
        <5> QED
          BY <5>1, <5>2
      <4>5. OneAnswer'
        BY <3>1, <3>3, <3>4, <4>3, <4>4 DEF OneAnswer
      <4> QED
        BY <1>1, <3>2, <3>6, <4>5 DEF SubInv, WireInv
    <3> QED
      BY <3>5, <3>6
  <2> QED
    BY <2>1, <2>2
<1> QED
  BY <1>7, <1>8, <1>10, <1>12, <1>13 DEF SubInv

\* A writer that takes writeMu has seen the subscription established, so no
\* answer was written.
LEMMA LockStep ==
    ASSUME SubInv,
           \/ BeginSubscribeOK
           \/ \E accepted \in BOOLEAN : BeginUpdate(accepted)
    PROVE  SubInv'
<1>1. UNCHANGED <<lifecycle, okSent, wire, side, updates, stream, writer, dgram>>
  BY DEF BeginSubscribeOK, BeginUpdate, lockAndCheck
<1>2. CountInv' /\ AnswerInv' /\ CancelInv'
  BY <1>1, CountFrame, AnswerFrame, CancelFrame DEF SubInv, lifecycle
<1>3. /\ ~writeMu
      /\ \/ /\ state = "Terminated" /\ writeMu' = writeMu
            /\ \/ handler = "registered" /\ handler' = "leaving"
               \/ handler = "serving" /\ handler' \in {"serving", "failing"}
         \/ /\ state # "Terminated" /\ writeMu' = TRUE
            /\ \/ handler = "registered" /\ handler' = "writingOK"
               \/ /\ handler = "serving" /\ updates < MaxUpdates
                  /\ handler' \in {"writingUpdateOK", "writingUpdateError"}
  BY DEF BeginSubscribeOK, BeginUpdate, lockAndCheck
<1>4. TypeOK'
  BY <1>1, <1>3 DEF SubInv, TypeOK, lifecycle
<1>5. state # "Terminated" => ~Ended'
  BY <1>1 DEF SubInv, AnswerInv, Ended
<1>6. Ended' = Ended /\ OneAnswer' = OneAnswer
  BY <1>1 DEF Ended, OneAnswer, Kinds
<1>7. WireInv'
  BY <1>1, <1>3, <1>5, <1>6 DEF SubInv, WireInv
<1> QED
  BY <1>2, <1>4, <1>7 DEF SubInv

\* SUBSCRIBE_OK is written ahead of everything else, under writeMu.
LEMMA WriteSubscribeOKStep ==
    ASSUME SubInv, NEW ok \in BOOLEAN, WriteSubscribeOK(ok)
    PROVE  SubInv'
<1> DEFINE m == Msg("SUBSCRIBE_OK")
<1>1. /\ UNCHANGED <<lifecycle, side, updates, stream, writer, dgram>>
      /\ handler = "writingOK" /\ written(m, ok) /\ writeMu' = FALSE
      /\ okSent' = (ok /\ side # "reset")
      /\ handler' = IF ok /\ side # "reset" THEN "serving" ELSE "leaving"
  BY DEF WriteSubscribeOK
<1>2. ~Ended /\ wire = <<>> /\ ~okSent
  BY <1>1 DEF SubInv, WireInv
<1>3. /\ m \in [kind : {"SUBSCRIBE_OK", "REQUEST_ERROR", "PUBLISH_DONE",
                        "REQUEST_UPDATE_OK", "UPDATE_ERROR"},
                code : Codes \cup {NoDone}, count : Nat]
      /\ m.kind = "SUBSCRIBE_OK"
  BY DEF Msg
<1> HIDE DEF m
<1>4. wire' = wire \/ wire' = <<m>>
  BY <1>1, <1>2 DEF written
<1>5. wire' \in Seq([kind : {"SUBSCRIBE_OK", "REQUEST_ERROR", "PUBLISH_DONE",
                            "REQUEST_UPDATE_OK", "UPDATE_ERROR"},
                    code : Codes \cup {NoDone}, count : Nat])
  BY <1>1, <1>3, WrittenWire
<1>6. /\ ~Ended' /\ Kinds("PUBLISH_DONE")' = {} /\ Kinds("REQUEST_ERROR")' = {}
      /\ Kinds("SUBSCRIBE_OK")' \in {{}, {1}}
  BY <1>2, <1>3, <1>4 DEF Ended, Kinds
<1>7. TypeOK'
  BY <1>1, <1>5 DEF SubInv, TypeOK, lifecycle
<1>8. CountInv'
  BY <1>1, CountFrame DEF SubInv, lifecycle
<1>9. AnswerInv'
  <2>1. DoneIsLast'
    BY <1>6 DEF DoneIsLast
  <2>2. Quiet' = Quiet /\ Opened' = Opened
    BY <1>1 DEF Quiet, Opening, Open, Sending, Opened
  <2> QED
    BY <1>1, <1>6, <2>1, <2>2 DEF SubInv, AnswerInv, lifecycle
<1>10. OneAnswer'
  <2>1. Cardinality({}) = 0 /\ Cardinality({1}) = 1
    BY FS_EmptySet, FS_Singleton
  <2>2. Kinds("SUBSCRIBE_OK")' \cup Kinds("REQUEST_ERROR")' \in {{}, {1}}
    BY <1>6
  <2>3. Cardinality(Kinds("SUBSCRIBE_OK")' \cup Kinds("REQUEST_ERROR")') <= 1
    BY <2>1, <2>2
  <2> QED
    BY <1>6, <2>2, <2>3 DEF OneAnswer
<1>11. WireInv'
  <2>1. ~okSent' => wire' = <<>>
    BY <1>1, <1>2 DEF written
  <2>2. okSent' => handler' = "serving"
    BY <1>1
  <2>3. ~okSent' => handler' = "leaving"
    BY <1>1
  <2> QED
    BY <1>1, <1>10, <2>1, <2>2, <2>3 DEF WireInv
<1>12. CancelInv'
  BY <1>1, <1>6 DEF SubInv, CancelInv, lifecycle
<1> QED
  BY <1>7, <1>8, <1>9, <1>11, <1>12 DEF SubInv

\* The reply to a REQUEST_UPDATE is neither an answer nor after one.
LEMMA WriteUpdateReplyStep ==
    ASSUME SubInv, NEW ok \in BOOLEAN, WriteUpdateReply(ok)
    PROVE  SubInv'
<1> DEFINE m == Msg(IF handler = "writingUpdateOK" THEN "REQUEST_UPDATE_OK"
                                                   ELSE "UPDATE_ERROR")
<1>1. /\ UNCHANGED <<lifecycle, okSent, side, stream, writer, dgram>>
      /\ handler \in {"writingUpdateOK", "writingUpdateError"}
      /\ written(m, ok) /\ writeMu' = FALSE /\ updates' = updates + 1
      /\ handler' \in {"serving", "failing"}
  BY DEF WriteUpdateReply
<1>2. ~Ended /\ okSent /\ updates < MaxUpdates
  BY <1>1 DEF SubInv, WireInv
<1>3. /\ m \in [kind : {"SUBSCRIBE_OK", "REQUEST_ERROR", "PUBLISH_DONE",
                        "REQUEST_UPDATE_OK", "UPDATE_ERROR"},
                code : Codes \cup {NoDone}, count : Nat]
      /\ m.kind \in {"REQUEST_UPDATE_OK", "UPDATE_ERROR"}
  BY DEF Msg
<1> HIDE DEF m
<1>4. /\ \/ wire' = wire
         \/ /\ side # "reset" /\ ok
            /\ Len(wire') = Len(wire) + 1 /\ Len(wire) \in Nat
            /\ DOMAIN wire' = 1..(Len(wire) + 1)
            /\ DOMAIN wire = 1..Len(wire)
            /\ \A i \in 1..Len(wire) : wire'[i] = wire[i]
            /\ wire'[Len(wire) + 1] = m
      /\ wire' \in Seq([kind : {"SUBSCRIBE_OK", "REQUEST_ERROR", "PUBLISH_DONE",
                                "REQUEST_UPDATE_OK", "UPDATE_ERROR"},
                        code : Codes \cup {NoDone}, count : Nat])
  BY <1>1, <1>3, WrittenWire
<1>5. Kinds("PUBLISH_DONE") = {} /\ Kinds("REQUEST_ERROR") = {}
  BY <1>2 DEF Ended, Kinds
<1>6. Kinds("SUBSCRIBE_OK")' = Kinds("SUBSCRIBE_OK")
  BY <1>3, <1>4 DEF Kinds
<1>7. Kinds("PUBLISH_DONE")' = {} /\ Kinds("REQUEST_ERROR")' = {} /\ ~Ended'
  <2>1. ~Ended'
    BY <1>2, <1>3, <1>4 DEF Ended
  <2> QED
    BY <2>1 DEF Ended, Kinds
<1>8. TypeOK'
  <2>1. updates' \in 0..MaxUpdates
    BY <1>1, <1>2, UpdatesAssumption DEF SubInv, TypeOK
  <2>2. handler' \in {"serving", "failing"} /\ writeMu' \in BOOLEAN
    BY <1>1
  <2> QED
    BY <1>1, <1>4, <2>1, <2>2 DEF SubInv, TypeOK, lifecycle
<1>9. CountInv'
  BY <1>1, CountFrame DEF SubInv, lifecycle
<1>10. AnswerInv'
  <2>1. DoneIsLast'
    BY <1>7 DEF DoneIsLast
  <2>2. Quiet' = Quiet /\ Opened' = Opened
    BY <1>1 DEF Quiet, Opening, Open, Sending, Opened
  <2> QED
    BY <1>1, <1>7, <2>1, <2>2 DEF SubInv, AnswerInv, lifecycle
<1>11. WireInv'
  <2>1. OneAnswer'
    BY <1>5, <1>6, <1>7 DEF SubInv, WireInv, OneAnswer
  <2> QED
    BY <1>1, <1>2, <2>1 DEF WireInv
<1>12. CancelInv'
  BY <1>1, <1>7 DEF SubInv, CancelInv, lifecycle
<1> QED
  BY <1>8, <1>9, <1>10, <1>11, <1>12 DEF SubInv

\* The handler's other steps write nothing: the subscriber accepts or refuses
\* the forwarded PUBLISH, and the deferred Cancel runs.
LEMMA HandlerStep ==
    ASSUME SubInv, PublishAccepted \/ PublishRefused \/ CloseRefused \/ Cancel
    PROVE  SubInv'
<1>1. CASE PublishAccepted
  <2>1. /\ UNCHANGED <<lifecycle, okSent, writeMu, wire, side, updates, stream,
                       writer, dgram>>
        /\ handler = "awaitOK" /\ handler' = "serving"
    BY <1>1 DEF PublishAccepted
  <2>2. TypeOK' /\ CountInv' /\ AnswerInv' /\ CancelInv'
    BY <2>1, CountFrame, AnswerFrame, CancelFrame DEF SubInv, TypeOK, lifecycle
  <2>3. WireInv'
    BY <2>1 DEF SubInv, WireInv, OneAnswer, Ended, Kinds
  <2> QED
    BY <2>2, <2>3 DEF SubInv
<1>2. CASE PublishRefused
  <2>1. /\ UNCHANGED <<streamsOpened, streamsOpening, streamsOpen, datagramsSending,
                       answers, okSent, writeMu, wire, side, updates, stream,
                       writer, dgram>>
        /\ handler = "awaitOK" /\ handler' \in {"closing", "leaving"}
        /\ state' = "Terminated" /\ pendingDone' = NoDone
    BY <1>2 DEF PublishRefused
  <2>2. TypeOK' /\ CountInv' /\ CancelInv'
    BY <2>1, CountFrame DEF SubInv, TypeOK, CancelInv, Kinds
  <2>3. AnswerInv'
    BY <2>1 DEF SubInv, AnswerInv, Ended, Quiet, Opening, Open, Opened, Sending,
                DoneIsLast, Kinds
  <2>4. WireInv'
    BY <2>1 DEF SubInv, WireInv, OneAnswer, Ended, Kinds
  <2> QED
    BY <2>2, <2>3, <2>4 DEF SubInv
<1>3. CASE CloseRefused
  <2>1. /\ UNCHANGED <<lifecycle, okSent, writeMu, wire, updates, stream, writer,
                       dgram>>
        /\ handler = "closing" /\ handler' = "leaving"
        /\ side' = IF side = "open" THEN "fin" ELSE side
    BY <1>3 DEF CloseRefused
  <2>2. TypeOK' /\ CountInv' /\ AnswerInv' /\ CancelInv'
    BY <2>1, CountFrame, AnswerFrame, CancelFrame DEF SubInv, TypeOK, lifecycle
  <2>3. WireInv'
    BY <2>1 DEF SubInv, WireInv, OneAnswer, Ended, Kinds
  <2> QED
    BY <2>2, <2>3 DEF SubInv
<1>4. CASE Cancel
  <2>1. /\ UNCHANGED <<streamsOpened, streamsOpening, streamsOpen, datagramsSending,
                       pendingDone, answers, okSent, writeMu, wire, side, updates,
                       stream, writer, dgram>>
        /\ handler \in {"serving", "leaving"} /\ handler' = "gone"
        /\ state' = "Terminated"
    BY <1>4 DEF Cancel
  <2>2. TypeOK' /\ CountInv' /\ CancelInv'
    BY <2>1, CountFrame DEF SubInv, TypeOK, CancelInv, Kinds
  <2>3. AnswerInv'
    BY <2>1 DEF SubInv, AnswerInv, Ended, Quiet, Opening, Open, Opened, Sending,
                DoneIsLast, Kinds
  <2>4. WireInv'
    BY <2>1 DEF SubInv, WireInv, OneAnswer, Ended, Kinds
  <2> QED
    BY <2>2, <2>3, <2>4 DEF SubInv
<1> QED
  BY <1>1, <1>2, <1>3, <1>4
----------------------------------------------------------------------------
(* The theorems.                                                           *)

\* A new subscription satisfies the invariant.
LEMMA SubInit ==
    ASSUME Init
    PROVE  SubInv
<1>1. Opening = {} /\ Open = {} /\ Opened = {} /\ Sending = {}
  BY DEF Init, Opening, Open, Opened, Sending
<1>2. Kinds("PUBLISH_DONE") = {} /\ Kinds("REQUEST_ERROR") = {}
      /\ Kinds("SUBSCRIBE_OK") = {} /\ ~Ended
  BY DEF Init, Kinds, Ended
<1>3. Cardinality({}) = 0 /\ {} \cup {} = {}
  BY FS_EmptySet
<1>4. TypeOK
  <2>1. 0 \in 0..MaxUpdates
    BY UpdatesAssumption
  <2>2. /\ <<>> \in Seq([code : Codes, count : Nat])
        /\ <<>> \in Seq([kind : {"SUBSCRIBE_OK", "REQUEST_ERROR", "PUBLISH_DONE",
                                 "REQUEST_UPDATE_OK", "UPDATE_ERROR"},
                         code : Codes \cup {NoDone}, count : Nat])
    BY EmptySeq
  <2> QED
    BY <2>1, <2>2 DEF Init, TypeOK
<1>5. CountInv
  BY <1>1, <1>3 DEF Init, CountInv
<1>6. AnswerInv
  BY <1>2 DEF Init, AnswerInv, DoneIsLast
<1>7. WireInv
  <2>1. Cardinality(Kinds("SUBSCRIBE_OK") \cup Kinds("REQUEST_ERROR")) <= 1
    BY <1>2, <1>3
  <2>2. OneAnswer
    BY <1>2, <2>1 DEF OneAnswer
  <2> QED
    BY <1>2, <2>2 DEF Init, WireInv
<1>8. CancelInv
  BY DEF Init, CancelInv
<1> QED
  BY <1>4, <1>5, <1>6, <1>7, <1>8 DEF SubInv

\* Every step of every goroutine keeps the invariant.
LEMMA SubStep ==
    ASSUME SubInv, [Next]_vars
    PROVE  SubInv'
<1>1. CASE UNCHANGED vars
  BY <1>1, CountFrame, AnswerFrame, WireFrame, CancelFrame
     DEF SubInv, TypeOK, vars, lifecycle, request
<1>2. CASE Next
  BY <1>2, BeginStreamStep, EndStreamStep, StreamClosedStep, SlowReaderStep,
     BeginDatagramStep, EndDatagramStep, AnswersStep, SendPublishDoneStep,
     LockStep, WriteSubscribeOKStep, WriteUpdateReplyStep, HandlerStep
     DEF Next
<1> QED
  BY <1>1, <1>2

\* Every reachable state satisfies the invariant.
LEMMA SubInvariant == Spec => []SubInv
<1>1. Init => SubInv
  BY SubInit
<1>2. SubInv /\ [Next]_vars => SubInv'
  BY SubStep
<1> QED
  BY <1>1, <1>2, PTL DEF Spec

\* PUBLISH_DONE is the last thing that happens to a subscription: when it is
\* written nothing is open, opening or being sent, its Stream Count is the
\* number of streams that were ever opened, and a slow reader's reset never
\* discards it (TerminateWithPublishDone, finishStream).
THEOREM DoneKeptHolds == Spec => []DoneKept
<1>1. SubInv => TypeOK /\ DoneIsLast
  BY DEF SubInv, AnswerInv
<1>2. SubInv => ResetSparesDone
  BY DEF SubInv, CancelInv, ResetSparesDone
<1>3. SubInv => DoneKept
  BY <1>1, <1>2 DEF DoneKept
<1> QED
  BY <1>3, SubInvariant, PTL

\* However SUBSCRIBE_OK, the update replies and a termination interleave
\* (WriteSubscribeOK, WriteMessage, SendPublishDone), the request stream
\* carries one response first and one end last.
THEOREM OneAnswerHolds == Spec => []OneAnswer
<1>1. SubInv => OneAnswer
  BY DEF SubInv, WireInv
<1> QED
  BY <1>1, SubInvariant, PTL
=============================================================================
