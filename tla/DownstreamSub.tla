--------------------------- MODULE DownstreamSub ---------------------------
(***************************************************************************)
(* The life of one downstream subscription (DownstreamSub in               *)
(* pkg/relay/internal/registry/subscription.go), from its registration to  *)
(* the last byte the relay writes on its request stream.                   *)
(*                                                                         *)
(* Several goroutines touch it at once: the request handler                *)
(* (handleSubscribe, or serveForwardedPublish when the relay's own PUBLISH *)
(* opened it), one writer per subgroup or fill stream, the datagram        *)
(* writer, whoever ends the track (RemoveUpstream, endMalformedTrack), and *)
(* the goroutine sendPublishDone starts.  Each critical section of mu is   *)
(* one step.  A critical section of writeMu that reads the lifecycle state *)
(* and then writes is two, because Terminate needs only mu.                *)
(***************************************************************************)
EXTENDS Integers, Sequences, FiniteSets

CONSTANTS
    Streams,      \* data streams the subscription's writers may open
    Datagrams,    \* datagram sends the datagram writer may reserve
    Codes,        \* PUBLISH_DONE codes a termination may carry
    UpdateFailed, \* the code of a refused REQUEST_UPDATE
    MaxUpdates    \* bound on the REQUEST_UPDATEs the subscriber sends

NoDone == "none"

ASSUME CodesAssumption == UpdateFailed \in Codes /\ NoDone \notin Codes
ASSUME UpdatesAssumption == MaxUpdates \in Nat
ASSUME FiniteAssumption == IsFiniteSet(Streams) /\ IsFiniteSet(Datagrams)

VARIABLES
    state,            \* Subscription.state
    streamsOpened, streamsOpening, streamsOpen, datagramsSending,
    pendingDone,      \* the PUBLISH_DONE waiting for the streams, or NoDone
    answers,          \* goroutines sendPublishDone started and not yet run
    okSent,
    writeMu,          \* TRUE while the request handler holds it
    wire,             \* what the relay has written on the request stream
    side,             \* the relay's side of it: open, fin or reset
    handler,          \* where the request handler is
    updates,          \* REQUEST_UPDATEs handled
    stream,           \* each data stream of the subscription
    writer,           \* the goroutine that owns each stream
    dgram             \* what the datagram writer has done with each send

lifecycle == <<state, streamsOpened, streamsOpening, streamsOpen,
               datagramsSending, pendingDone, answers>>
request   == <<okSent, writeMu, wire, side, handler, updates>>
vars      == <<lifecycle, request, stream, writer, dgram>>

Msg(kind) == [kind |-> kind, code |-> NoDone, count |-> 0]
PublishDone(code, count) ==
    [kind |-> "PUBLISH_DONE", code |-> code, count |-> count]
Kinds(k) == {i \in DOMAIN wire : wire[i].kind = k}

\* NewDownstreamSub, then registration.  A SUBSCRIBE still owes its response;
\* a forwarded PUBLISH does not (OpenedByPublish) and awaits the subscriber's.
Init ==
    /\ state = "Established"
    /\ streamsOpened = 0 /\ streamsOpening = 0 /\ streamsOpen = 0
    /\ datagramsSending = 0
    /\ pendingDone = NoDone
    /\ answers = <<>>
    /\ \/ okSent = FALSE /\ handler = "registered"
       \/ okSent = TRUE  /\ handler = "awaitOK"
    /\ writeMu = FALSE
    /\ wire = <<>>
    /\ side = "open"
    /\ updates = 0
    /\ stream = [s \in Streams |-> "none"]
    /\ writer = [s \in Streams |-> "running"]
    /\ dgram = [d \in Datagrams |-> "none"]

\* Fault: opens in flight do not hold the PUBLISH_DONE back.
takeReadyDoneIgnoringOpens(done) ==
    IF done = NoDone \/ streamsOpen' > 0 \/ datagramsSending' > 0
    THEN pendingDone' = done /\ UNCHANGED answers
    ELSE /\ pendingDone' = NoDone
         /\ answers' = Append(answers,
                              [code |-> done, count |-> streamsOpened'])

(***************************************************************************)
(* takeReadyDoneLocked and the sendPublishDone that follows it: done is    *)
(* the pending PUBLISH_DONE as the critical section leaves it.             *)
(***************************************************************************)
takeReadyDone(done) ==
    IF done = NoDone \/ streamsOpen' > 0 \/ streamsOpening' > 0
                     \/ datagramsSending' > 0
    THEN pendingDone' = done /\ UNCHANGED answers
    ELSE /\ pendingDone' = NoDone
         /\ answers' = Append(answers,
                              [code |-> done, count |-> streamsOpened'])
----------------------------------------------------------------------------
(* The data streams' and datagrams' accounting.                            *)

BeginStream(s) ==
    /\ stream[s] = "none" /\ writer[s] = "running"
    /\ state = "Established"
    /\ streamsOpening' = streamsOpening + 1
    /\ stream' = [stream EXCEPT ![s] = "opening"]
    /\ UNCHANGED <<state, streamsOpened, streamsOpen, datagramsSending,
                   pendingDone, answers, request, writer, dgram>>

\* opened says that OpenSubgroupContext returned the stream; one whose header
\* was written and which its context reset just after counts as not opened.
EndStream(s, opened) ==
    /\ stream[s] = "opening"
    /\ streamsOpening' = streamsOpening - 1
    /\ streamsOpened' = IF opened THEN streamsOpened + 1 ELSE streamsOpened
    /\ streamsOpen' = IF opened THEN streamsOpen + 1 ELSE streamsOpen
    /\ UNCHANGED <<state, datagramsSending>>
    /\ takeReadyDone(pendingDone)
    /\ stream' = [stream EXCEPT ![s] = IF opened THEN "open" ELSE "failed"]
    /\ UNCHANGED <<request, writer, dgram>>

\* The writer FINs or resets its stream and reports it (closeOut, dropOut);
\* next is what the writer does then.
StreamClosed(s, next) ==
    /\ stream[s] = "open"
    /\ streamsOpen' = streamsOpen - 1
    /\ UNCHANGED <<state, streamsOpened, streamsOpening, datagramsSending>>
    /\ takeReadyDone(pendingDone)
    /\ stream' = [stream EXCEPT ![s] = "closed"]
    /\ writer' = [writer EXCEPT ![s] = next]
    /\ UNCHANGED <<request, dgram>>

BeginDatagram(d) ==
    /\ dgram[d] = "none"
    /\ state = "Established"
    /\ datagramsSending' = datagramsSending + 1
    /\ dgram' = [dgram EXCEPT ![d] = "sending"]
    /\ UNCHANGED <<state, streamsOpened, streamsOpening, streamsOpen,
                   pendingDone, answers, request, stream, writer>>

EndDatagram(d) ==
    /\ dgram[d] = "sending"
    /\ datagramsSending' = datagramsSending - 1
    /\ UNCHANGED <<state, streamsOpened, streamsOpening, streamsOpen>>
    /\ takeReadyDone(pendingDone)
    /\ dgram' = [dgram EXCEPT ![d] = "sent"]
    /\ UNCHANGED <<request, stream, writer>>

(***************************************************************************)
(* finishStream on a slow reader: the stream, if one was opened, is closed *)
(* (StreamClosed), then Terminate decides whether this writer ended the    *)
(* subscription, and only then is the request stream reset.                *)
(***************************************************************************)
SlowBeforeOpen(s) ==
    /\ stream[s] = "none" /\ writer[s] = "running"
    /\ writer' = [writer EXCEPT ![s] = "slow"]
    /\ UNCHANGED <<lifecycle, request, stream, dgram>>

SlowReaderTerminate(s) ==
    /\ writer[s] = "slow"
    /\ writer' = [writer EXCEPT
                    ![s] = IF state = "Established" THEN "cancelling"
                                                    ELSE "done"]
    /\ state' = "Terminated"
    /\ UNCHANGED <<streamsOpened, streamsOpening, streamsOpen,
                   datagramsSending, pendingDone, answers, request, stream,
                   dgram>>

SlowReaderCancel(s) ==
    /\ writer[s] = "cancelling"
    /\ writer' = [writer EXCEPT ![s] = "done"]
    /\ side' = IF side = "open" THEN "reset" ELSE side
    /\ UNCHANGED <<lifecycle, okSent, writeMu, wire, handler, updates, stream,
                   dgram>>
----------------------------------------------------------------------------
(* Terminations that answer the request.                                   *)

terminateWithPublishDone(code) ==
    IF state = "Terminated"
    THEN UNCHANGED lifecycle
    ELSE /\ state' = "Terminated"
         /\ UNCHANGED <<streamsOpened, streamsOpening, streamsOpen,
                        datagramsSending>>
         /\ takeReadyDone(code)

\* RemoveUpstream of the last upstream, RemoveSession, or endMalformedTrack.
TerminateWithPublishDone(code) ==
    /\ state = "Established"
    /\ terminateWithPublishDone(code)
    /\ UNCHANGED <<request, stream, writer, dgram>>

\* A message is written unless the stream is reset or its write fails.  One
\* handed to the stream after its FIN is recorded too: there must be none.
written(m, ok) == wire' = IF ok /\ side # "reset" THEN Append(wire, m) ELSE wire

\* The goroutine sendPublishDone starts; ok is whether its write succeeds.
SendPublishDone(ok) ==
    /\ answers # <<>>
    /\ ~writeMu
    /\ answers' = Tail(answers)
    /\ written(IF okSent
               THEN PublishDone(Head(answers).code, Head(answers).count)
               ELSE Msg("REQUEST_ERROR"), ok)
    /\ side' = IF side # "open" THEN side
               ELSE IF ok \/ okSent THEN "fin" ELSE "reset"
    /\ UNCHANGED <<state, streamsOpened, streamsOpening, streamsOpen,
                   datagramsSending, pendingDone, okSent, writeMu, handler,
                   updates, stream, writer, dgram>>
----------------------------------------------------------------------------
(* The request handler.                                                    *)

\* Fault: a write does not look whether the subscription was terminated.
lockUnchecked(writing, refused) ==
    /\ ~writeMu
    /\ handler' = writing
    /\ writeMu' = TRUE
    /\ UNCHANGED <<lifecycle, okSent, wire, side, updates, stream, writer, dgram>>

\* A write under writeMu, first half: refused once terminated (at refused),
\* else the lock is held while the message is written (at writing).
lockAndCheck(writing, refused) ==
    /\ ~writeMu
    /\ IF state = "Terminated"
       THEN handler' = refused /\ UNCHANGED writeMu
       ELSE handler' = writing /\ writeMu' = TRUE
    /\ UNCHANGED <<lifecycle, okSent, wire, side, updates, stream, writer, dgram>>

BeginSubscribeOK ==
    handler = "registered" /\ lockAndCheck("writingOK", "leaving")

WriteSubscribeOK(ok) ==
    /\ handler = "writingOK"
    /\ written(Msg("SUBSCRIBE_OK"), ok)
    /\ okSent' = (ok /\ side # "reset")
    /\ handler' = IF ok /\ side # "reset" THEN "serving" ELSE "leaving"
    /\ writeMu' = FALSE
    /\ UNCHANGED <<lifecycle, side, updates, stream, writer, dgram>>

\* AwaitPublishOK: the subscriber accepts the forwarded PUBLISH.
PublishAccepted ==
    /\ handler = "awaitOK"
    /\ handler' = "serving"
    /\ UNCHANGED <<lifecycle, okSent, writeMu, wire, side, updates, stream,
                   writer, dgram>>

\* EndRefused, first half: the subscriber refused the forwarded PUBLISH.
PublishRefused ==
    /\ handler = "awaitOK"
    /\ handler' = IF state # "Terminated" \/ pendingDone # NoDone
                  THEN "closing" ELSE "leaving"
    /\ state' = "Terminated"
    /\ pendingDone' = NoDone
    /\ UNCHANGED <<streamsOpened, streamsOpening, streamsOpen,
                   datagramsSending, answers, okSent, writeMu, wire, side,
                   updates, stream, writer, dgram>>

\* EndRefused, second half, under writeMu.
CloseRefused ==
    /\ handler = "closing"
    /\ ~writeMu
    /\ handler' = "leaving"
    /\ side' = IF side = "open" THEN "fin" ELSE side
    /\ UNCHANGED <<lifecycle, okSent, writeMu, wire, updates, stream, writer, dgram>>

\* handleSubscribeUpdate: an accepted update is answered with REQUEST_OK.  A
\* refused one gets REQUEST_ERROR, then the subscription ends UPDATE_FAILED.
BeginUpdate(accepted) ==
    /\ handler = "serving"
    /\ updates < MaxUpdates
    /\ IF accepted THEN lockAndCheck("writingUpdateOK", "serving")
                   ELSE lockAndCheck("writingUpdateError", "failing")

WriteUpdateReply(ok) ==
    /\ handler \in {"writingUpdateOK", "writingUpdateError"}
    /\ written(Msg(IF handler = "writingUpdateOK" THEN "REQUEST_UPDATE_OK"
                                                  ELSE "UPDATE_ERROR"), ok)
    /\ handler' = IF handler = "writingUpdateOK" THEN "serving" ELSE "failing"
    /\ writeMu' = FALSE
    /\ updates' = updates + 1
    /\ UNCHANGED <<lifecycle, okSent, side, stream, writer, dgram>>

FailUpdate ==
    /\ handler = "failing"
    /\ terminateWithPublishDone(UpdateFailed)
    /\ handler' = "serving"
    /\ UNCHANGED <<okSent, writeMu, wire, side, updates, stream, writer, dgram>>

\* Fault: cancelling drops the PUBLISH_DONE a termination left pending.
CancelDropsDone ==
    /\ handler \in {"serving", "leaving"}
    /\ handler' = "gone"
    /\ state' = "Terminated"
    /\ pendingDone' = NoDone
    /\ UNCHANGED <<streamsOpened, streamsOpening, streamsOpen,
                   datagramsSending, answers, okSent, writeMu, wire, side,
                   updates, stream, writer, dgram>>

\* The subscriber cancels or its session ends (from serving), or the handler
\* returned early: its deferred sub.Cancel runs.
Cancel ==
    /\ handler \in {"serving", "leaving"}
    /\ handler' = "gone"
    /\ state' = "Terminated"
    /\ UNCHANGED <<streamsOpened, streamsOpening, streamsOpen,
                   datagramsSending, pendingDone, answers, okSent, writeMu,
                   wire, side, updates, stream, writer, dgram>>
----------------------------------------------------------------------------
Next ==
    \/ \E s \in Streams :
          \/ BeginStream(s)
          \/ \E opened \in BOOLEAN : EndStream(s, opened)
          \/ \E next \in {"done", "slow"} : StreamClosed(s, next)
          \/ SlowBeforeOpen(s)
          \/ SlowReaderTerminate(s)
          \/ SlowReaderCancel(s)
    \/ \E d \in Datagrams : BeginDatagram(d) \/ EndDatagram(d)
    \/ \E code \in Codes : TerminateWithPublishDone(code)
    \/ \E ok \in BOOLEAN : SendPublishDone(ok)
    \/ BeginSubscribeOK
    \/ \E ok \in BOOLEAN : WriteSubscribeOK(ok)
    \/ PublishAccepted
    \/ PublishRefused
    \/ CloseRefused
    \/ \E accepted \in BOOLEAN : BeginUpdate(accepted)
    \/ \E ok \in BOOLEAN : WriteUpdateReply(ok)
    \/ FailUpdate
    \/ Cancel

(***************************************************************************)
(* Fairness: an open that has begun returns, an open stream is in the end  *)
(* closed (its inbound Subgroup ends, or its next write fails once the     *)
(* subscription is cancelled), a reserved datagram is sent or dropped, a   *)
(* goroutine that can take writeMu runs, and a writeMu holder finishes its *)
(* write.  Nothing obliges the subscriber or the publisher to act.         *)
(***************************************************************************)
Fairness ==
    /\ \A s \in Streams :
          /\ WF_vars(\E opened \in BOOLEAN : EndStream(s, opened))
          /\ WF_vars(\E next \in {"done", "slow"} : StreamClosed(s, next))
    /\ \A d \in Datagrams : WF_vars(EndDatagram(d))
    /\ WF_vars(\E ok \in BOOLEAN : SendPublishDone(ok))
    /\ WF_vars(\E ok \in BOOLEAN : WriteSubscribeOK(ok))
    /\ WF_vars(\E ok \in BOOLEAN : WriteUpdateReply(ok))
    /\ WF_vars(CloseRefused)

Spec == Init /\ [][Next]_vars /\ Fairness
----------------------------------------------------------------------------
(* The type invariant: the shapes of the fields of DownstreamSub and of    *)
(* the goroutines around it.                                               *)
TypeOK ==
    /\ state \in {"Established", "Terminated"}
    /\ streamsOpened \in Nat /\ streamsOpening \in Nat /\ streamsOpen \in Nat
    /\ datagramsSending \in Nat
    /\ pendingDone \in Codes \cup {NoDone}
    /\ answers \in Seq([code : Codes, count : Nat])
    /\ okSent \in BOOLEAN /\ writeMu \in BOOLEAN
    /\ side \in {"open", "fin", "reset"}
    /\ handler \in {"registered", "writingOK", "awaitOK", "serving",
                    "writingUpdateOK", "writingUpdateError", "failing",
                    "closing", "leaving", "gone"}
    /\ updates \in 0..MaxUpdates
    /\ stream \in [Streams -> {"none", "opening", "open", "failed", "closed"}]
    /\ writer \in [Streams -> {"running", "slow", "cancelling", "done"}]
    /\ dgram \in [Datagrams -> {"none", "sending", "sent"}]
    /\ wire \in Seq([kind : {"SUBSCRIBE_OK", "REQUEST_ERROR", "PUBLISH_DONE",
                             "REQUEST_UPDATE_OK", "UPDATE_ERROR"},
                     code : Codes \cup {NoDone}, count : Nat])

Opened == {s \in Streams : stream[s] \in {"open", "closed"}}

\* When PUBLISH_DONE is on the wire, no data stream is open or opening and no
\* datagram is being sent, and none will be: the Stream Count it carries is
\* the number of streams ever opened for the subscription
\* (TerminateWithPublishDone: "so its Stream Count is exact").
DoneIsLast ==
    \A i \in Kinds("PUBLISH_DONE") :
        /\ \A s \in Streams : stream[s] \notin {"opening", "open"}
        /\ \A d \in Datagrams : dgram[d] # "sending"
        /\ wire[i].count = Cardinality(Opened)

\* The request gets at most one response, ahead of everything else, and at
\* most one PUBLISH_DONE, behind everything else: whichever of SUBSCRIBE_OK
\* and a termination wins, the subscriber reads OK ... DONE or just
\* REQUEST_ERROR, never both and never a message after the FIN.
OneAnswer ==
    /\ Cardinality(Kinds("SUBSCRIBE_OK") \cup Kinds("REQUEST_ERROR")) <= 1
    /\ Kinds("SUBSCRIBE_OK") \cup Kinds("REQUEST_ERROR") \subseteq {1}
    /\ \A i \in Kinds("PUBLISH_DONE") \cup Kinds("REQUEST_ERROR") :
          i = Len(wire)
    /\ Kinds("PUBLISH_DONE") # {} => okSent /\ side = "fin"

\* A slow reader's reset never discards a PUBLISH_DONE under way
\* (finishStream: "Only if this writer ended it: otherwise a PUBLISH_DONE may
\* be under way, and the reset could discard it").
ResetSparesDone ==
    (\E s \in Streams : writer[s] = "cancelling") =>
        pendingDone = NoDone /\ answers = <<>> /\ Kinds("PUBLISH_DONE") = {}

\* A termination's answer is not lost: once pending, the relay's side of the
\* request stream is eventually finished, by the PUBLISH_DONE or REQUEST_ERROR
\* with its FIN, by the reset of a failed write, or by EndRefused.
PendingAnswered == (pendingDone # NoDone) ~> (side # "open")

\* PUBLISH_DONE comes last, with the exact Stream Count, and no reset of a slow
\* reader's request stream takes it away (TerminateWithPublishDone,
\* finishStream).
DoneKept == TypeOK /\ DoneIsLast /\ ResetSparesDone
=============================================================================
