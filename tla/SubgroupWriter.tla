--------------------------- MODULE SubgroupWriter ---------------------------
(***************************************************************************)
(* One subscriber's writer of one Subgroup (subgroupWriter in              *)
(* pkg/relay/handler_fanout.go): the contributors of the Subgroup put its  *)
(* Objects in a bounded inbox, under sg.Mu, and the run goroutine drains   *)
(* it onto outbound streams, resetting one and opening another whenever an *)
(* Object is not the next one of the stream.                               *)
(*                                                                         *)
(* A contributor's claim in the dedup ledger and its hand-over to the      *)
(* writer are two steps: they are under different locks.  The goroutine's  *)
(* steps are the points where it blocks: the inbox, the open of a stream,  *)
(* a write, the end.  Lag and expiry compare clocks with limits: they may  *)
(* strike at any Object they apply to.                                     *)
(***************************************************************************)
EXTENDS Integers, Sequences, FiniteSets, FiniteSetsExt

CONSTANTS
    Sources,    \* inbound streams that carry the Subgroup
    Starts,     \* the Objects the sources may start at, one per source
    Published,  \* its Object IDs
    Gap,        \* the Prior Object ID Gap each Object announces, 0 for none
    WithProps,  \* Objects that carry Object Properties
    Expiring,   \* Objects with a MAX_CACHE_DURATION that may elapse
    QueueSize,  \* the inbox's capacity
    MaxDrops,   \* maxDropsBeforeReset, 0 to disable it
    Lag,        \* whether a maxLag is configured
    Updates,    \* filters and Forward State its REQUEST_UPDATEs may set
    MaxUpdates  \* bound on the subscriber's REQUEST_UPDATEs

ASSUME PublishedAssumption ==
    Published # {} /\ IsFiniteSet(Published) /\ Published \subseteq Nat
ASSUME GapAssumption ==
    \A id \in Published :
        Gap[id] \in 0..id /\ Published \cap ((id - Gap[id])..(id - 1)) = {}
ASSUME StartsAssumption == Starts \subseteq [Sources -> Published]
ASSUME UpdatesAssumption ==
    Updates \subseteq [start : Nat, inRange : BOOLEAN, paused : BOOLEAN,
                       filtered : SUBSET Published]
ASSUME BoundsAssumption ==
    QueueSize \in Nat \ {0} /\ MaxDrops \in Nat /\ MaxUpdates \in Nat

First == Min(Published)
Past  == Max(Published) + 1
None  == -1

VARIABLES
    source,   \* each inbound stream: what it reads next, its position
    claimed,  \* Objects the dedup ledger holds as delivered
    sub,      \* the subscription: its state and filters
    w,        \* the writer's fields under dropsMu and sg.Mu
    inbox,
    run,      \* the goroutine's position and locals
    streams,  \* every outbound stream opened, in order
    out,      \* the current one's index, 0 for none
    reported, \* streams reported closed to the subscription
    io,       \* whether w.ctx is live
    given     \* history: what the contributors handed over, and the verdicts

vars == <<source, claimed, sub, w, inbox, run, streams, out, reported, io, given>>

NoPos == [src |-> "none", seq |-> 0]

\* Each inbound stream carries a run of the Subgroup from some Object on: from
\* the first, or from a later one (a replay).  The goroutine has started.
Init ==
    /\ \E from \in Starts :
          source = [s \in Sources |-> [from |-> from[s], next |-> from[s], seq |-> 0,
                                      pc |-> "reading"]]
    /\ claimed = {}
    /\ sub = [state |-> "Established", start |-> 0, paused |-> FALSE,
              filtered |-> {}, inRange |-> TRUE, updates |-> 0]
    /\ w = [closed |-> FALSE, ended |-> FALSE, reset |-> FALSE, drops |-> 0,
            incomplete |-> FALSE, lastAdmitted |-> None, lastPos |-> NoPos]
    /\ inbox = <<>>
    /\ run = [pc |-> "next", cur |-> None, first |-> FALSE, prevID |-> 0,
              hasWritten |-> FALSE, failed |-> FALSE, dropped |-> FALSE,
              withProps |-> FALSE, lag |-> FALSE]
    /\ streams = <<>> /\ out = 0 /\ reported = 0
    /\ io = "live"
    /\ given = {}
----------------------------------------------------------------------------
(* The subscription.                                                       *)

ForwardDecision(id) ==
    CASE sub.state = "Terminated" -> "SkipEnded"
      [] sub.state = "Established" /\ sub.paused -> "SkipPaused"
      [] sub.state = "Established" /\ ~sub.paused /\ ~sub.inRange -> "SkipGroup"
      [] OTHER -> IF id < sub.start THEN "SkipBeforeStart"
                  ELSE IF id \in sub.filtered THEN "SkipObject" ELSE "Forward"

\* A REQUEST_UPDATE sets the Start Location, the range, a Range Filter or the
\* Forward State.
RequestUpdate ==
    /\ sub.state = "Established" /\ sub.updates < MaxUpdates
    /\ \E f \in Updates :
          sub' = [sub EXCEPT !.start = f.start, !.inRange = f.inRange,
                             !.filtered = f.filtered, !.paused = f.paused,
                             !.updates = @ + 1]
    /\ UNCHANGED <<source, claimed, w, inbox, run, streams, out, reported, io, given>>

\* The track ends: terminated, its streams left to finish (PUBLISH_DONE).
Terminate ==
    /\ sub.state = "Established"
    /\ sub' = [sub EXCEPT !.state = "Terminated"]
    /\ UNCHANGED <<source, claimed, w, inbox, run, streams, out, reported, io, given>>

\* cancelIO: the bridge resets the open stream and blocked operations fail.
cancelIO ==
    /\ io' = "cancelled"
    /\ streams' = [i \in DOMAIN streams |->
          IF i = out /\ streams[i].end = "open"
          THEN [streams[i] EXCEPT !.end = "reset"] ELSE streams[i]]

\* The subscriber cancels: sub.Cancelled reaches the writer (unwatchSub).
Cancel ==
    /\ io = "live" /\ run.pc # "done"
    /\ sub' = [sub EXCEPT !.state = "Terminated"]
    /\ cancelIO
    /\ UNCHANGED <<source, claimed, w, inbox, run, out, reported, given>>
----------------------------------------------------------------------------
(* The contributors' side.                                                 *)

\* Fault: a writer that stopped enqueueing counts as closed already.
closeWriterIfOpen(wr, reset) ==
    IF wr.closed THEN wr
    ELSE [wr EXCEPT !.closed = TRUE, !.ended = TRUE, !.reset = reset]

\* close: the first call decides; run ends once the inbox is drained.
closeWriter(wr, reset) ==
    IF wr.ended THEN wr
    ELSE [wr EXCEPT !.closed = TRUE, !.ended = TRUE, !.reset = reset]

markIncomplete(wr) == [wr EXCEPT !.incomplete = TRUE]

skip(wr, v, id) ==
    CASE v \in {"SkipObject", "SkipPaused"} -> markIncomplete(wr)
      [] v \in {"SkipGroup", "SkipEnded"} -> closeWriter(wr, TRUE)
      [] v = "SkipBeforeStart" ->
            IF wr.lastAdmitted # None /\ id > wr.lastAdmitted
            THEN markIncomplete(wr) ELSE wr

\* Fault: an Object that overflows leaves the Subgroup complete.
overflowUnmarked(wr) == [wr EXCEPT !.lastPos = NoPos, !.drops = @ + 1]

\* A full inbox drops the Object; past maxDropsBeforeReset the writer closes.
overflow(wr) ==
    LET dropped == [wr EXCEPT !.lastPos = NoPos, !.drops = @ + 1, !.incomplete = TRUE]
    IN  IF MaxDrops > 0 /\ dropped.drops > MaxDrops
        THEN closeWriter(dropped, TRUE) ELSE dropped

publish(wr, fwd) ==
    IF wr.closed THEN inbox' = inbox /\ w' = wr
    ELSE IF Len(inbox) < QueueSize
    THEN inbox' = Append(inbox, fwd) /\ w' = wr
    ELSE inbox' = inbox /\ w' = overflow(wr)

(***************************************************************************)
(* admit and publish for the Object id read at pos: a filtered Object does *)
(* not separate its neighbours, so lastPos moves past it.                  *)
(***************************************************************************)
admit(pos, id, first) ==
    LET follows == w.lastPos.src = pos.src /\ w.lastPos.seq + 1 = pos.seq
        v == ForwardDecision(id)
    IN  /\ given' = given \cup {[id |-> id, verdict |-> v]}
        /\ IF v = "Forward"
           THEN publish([w EXCEPT !.lastAdmitted = id, !.lastPos = pos],
                        [id |-> id, first |-> first, follows |-> follows])
           ELSE LET s == skip(w, v, id)
                IN  /\ w' = IF follows THEN [s EXCEPT !.lastPos = pos] ELSE s
                    /\ inbox' = inbox

\* The next Object of the Subgroup after id, Past if none.
After(id) == IF \E x \in Published : x > id
             THEN Min({x \in Published : x > id}) ELSE Past

\* ClaimDelivered: an Object another stream delivered counts in this one's
\* position all the same.
Claim(s) ==
    /\ source[s].pc = "reading" /\ source[s].next # Past
    /\ LET id == source[s].next
       IN  /\ claimed' = claimed \cup {id}
           /\ source' = [source EXCEPT
                ![s].seq = @ + 1,
                ![s].next = IF id \in claimed THEN After(id) ELSE @,
                ![s].pc = IF id \in claimed THEN "reading" ELSE "claimed"]
    /\ UNCHANGED <<sub, w, inbox, run, streams, out, reported, io, given>>

\* forward, under sg.Mu.  The Subgroup's first Object claims so.
Forward(s) ==
    /\ source[s].pc = "claimed"
    /\ admit([src |-> s, seq |-> source[s].seq], source[s].next,
             source[s].next = First)
    /\ source' = [source EXCEPT ![s].next = After(@), ![s].pc = "reading"]
    /\ UNCHANGED <<claimed, sub, run, streams, out, reported, io>>

\* An inbound stream ends, with a FIN after its last Object or with a reset.
\* The last to leave closes the writer: with a FIN only if the Group is in
\* range and one ended cleanly that covers what was forwarded, or continues
\* an unbroken run of it (outcome, which SubgroupFanout has in full).
EndSource(s, reset) ==
    /\ source[s].pc = "reading"
    /\ reset \/ source[s].next = Past
    /\ source' = [source EXCEPT ![s].pc = IF reset THEN "reset" ELSE "fin"]
    /\ IF \E c \in Sources : source'[c].pc \in {"reading", "claimed"}
       THEN UNCHANGED w
       ELSE \E r \in BOOLEAN :
              /\ ~r => /\ sub.inRange
                       /\ \E c \in Sources :
                             /\ source'[c].pc = "fin"
                             /\ Min(claimed)..(source[c].from - 1) \subseteq claimed
              /\ w' = closeWriter(w, r)
    /\ UNCHANGED <<claimed, sub, inbox, run, streams, out, reported, io, given>>

Left == \A s \in Sources : source[s].pc \in {"fin", "reset"}

\* joinWriters at its deadline: the writer's I/O is cancelled.
JoinTimeout ==
    /\ Left /\ run.pc # "done" /\ io = "live"
    /\ cancelIO
    /\ UNCHANGED <<source, claimed, sub, w, inbox, run, out, reported, given>>
----------------------------------------------------------------------------
(* The run goroutine.                                                      *)

\* closeOut: FIN or reset of the current stream, unless a cancel reset it
\* first; it is reported closed to the subscription.
closeOut(end) ==
    IF out = 0 THEN UNCHANGED <<streams, out, reported>>
    ELSE /\ streams' = [streams EXCEPT ![out].end = IF @ = "open" THEN end ELSE @]
         /\ out' = 0
         /\ reported' = reported + 1

isNextObject(fwd) ==
    \/ fwd.id = run.prevID + 1
    \/ /\ ~run.dropped /\ fwd.id > run.prevID
       /\ fwd.follows \/ fwd.id - Gap[fwd.id] = run.prevID + 1

reopenCause(fwd) ==
    run.hasWritten /\ ((~run.withProps /\ fwd.id \in WithProps) \/ ~isNextObject(fwd))

(***************************************************************************)
(* nextObject, the lag check and, for an Object that needs another stream, *)
(* the close of the current one.  hasWritten implies a current stream, so  *)
(* the lazy open and the reopen are never both due.                        *)
(***************************************************************************)
Dequeue(lagging) ==
    /\ run.pc = "next" /\ inbox # <<>>
    /\ lagging => Lag
    /\ inbox' = Tail(inbox)
    /\ LET fwd == Head(inbox) IN
       IF lagging \/ run.failed
       THEN /\ run' = [run EXCEPT !.lag = lagging,
                                  !.pc = IF lagging THEN "finish" ELSE "next"]
            /\ UNCHANGED <<streams, out, reported>>
       ELSE LET open == out = 0 \/ reopenCause(fwd)
            IN  /\ run' = [run EXCEPT
                     !.cur = fwd.id, !.first = fwd.first,
                     !.withProps = @ \/ fwd.id \in WithProps,
                     !.pc = IF open THEN "open" ELSE "write"]
                /\ IF open THEN closeOut("reset")
                           ELSE UNCHANGED <<streams, out, reported>>
    /\ UNCHANGED <<source, claimed, sub, w, io, given>>

\* openCounted and the header: refused once the subscription is terminated.
\* failWrites stops the contributors' enqueueing.
Open(ok) ==
    /\ run.pc = "open"
    /\ ok => sub.state = "Established" /\ io = "live"
    /\ IF ok
       THEN /\ streams' = Append(streams, [first |-> run.first,
                                  props |-> run.withProps, objs |-> <<>>, end |-> "open"])
            /\ out' = Len(streams) + 1
            /\ run' = [run EXCEPT !.pc = "write", !.hasWritten = FALSE]
            /\ UNCHANGED w
       ELSE /\ run' = [run EXCEPT !.pc = "next", !.failed = TRUE]
            /\ w' = [w EXCEPT !.closed = TRUE]
            /\ UNCHANGED <<streams, out>>
    /\ UNCHANGED <<source, claimed, sub, inbox, reported, io, given>>

\* dropExpired: a stream opened for this Object, which may claim it is the
\* first, is reset.
WriteExpired ==
    /\ run.pc = "write" /\ run.cur \in Expiring
    /\ w' = markIncomplete(w)
    /\ run' = [run EXCEPT !.pc = "next", !.dropped = TRUE]
    /\ IF run.hasWritten THEN UNCHANGED <<streams, out, reported>>
                         ELSE closeOut("reset")
    /\ UNCHANGED <<source, claimed, sub, inbox, io, given>>

Write ==
    /\ run.pc = "write" /\ streams[out].end = "open"
    /\ streams' = [streams EXCEPT ![out].objs = Append(@, run.cur)]
    /\ run' = [run EXCEPT !.pc = "next", !.prevID = run.cur, !.hasWritten = TRUE,
                          !.dropped = FALSE]
    /\ UNCHANGED <<source, claimed, sub, w, inbox, out, reported, io, given>>

\* An elapsed delivery timeout (the session has reset the stream) or a failed
\* write.
WriteFail ==
    /\ run.pc = "write"
    /\ closeOut("reset")
    /\ run' = [run EXCEPT !.pc = "next", !.failed = TRUE]
    /\ w' = [w EXCEPT !.closed = TRUE]
    /\ UNCHANGED <<source, claimed, sub, inbox, io, given>>

(***************************************************************************)
(* finishStream and run's deferred calls: a slow reader's subscription is  *)
(* terminated, and releaseInbox empties the inbox.                         *)
(***************************************************************************)
Finish ==
    /\ run.pc = "finish" \/ (run.pc = "next" /\ inbox = <<>> /\ w.ended)
    /\ LET slow == run.lag \/ (MaxDrops > 0 /\ w.drops > MaxDrops)
       IN  /\ closeOut(IF slow \/ run.failed \/ w.reset \/ w.incomplete
                       THEN "reset" ELSE "fin")
           /\ sub' = IF slow THEN [sub EXCEPT !.state = "Terminated"] ELSE sub
    /\ run' = [run EXCEPT !.pc = "done"]
    /\ w' = [w EXCEPT !.closed = TRUE]
    /\ inbox' = <<>>
    /\ UNCHANGED <<source, claimed, io, given>>
----------------------------------------------------------------------------
Next ==
    \/ RequestUpdate \/ Terminate \/ Cancel
    \/ \E s \in Sources :
          \/ Claim(s)
          \/ Forward(s)
          \/ \E reset \in BOOLEAN : EndSource(s, reset)
    \/ JoinTimeout
    \/ \E lagging \in BOOLEAN : Dequeue(lagging)
    \/ \E ok \in BOOLEAN : Open(ok)
    \/ WriteExpired \/ Write \/ WriteFail
    \/ Finish

(***************************************************************************)
(* The goroutine runs, but its opens and writes may block for ever on the  *)
(* subscriber's flow control: they are bound to return only once w.ctx is  *)
(* cancelled.  joinWriters' timer fires.                                   *)
(***************************************************************************)
Fairness ==
    /\ WF_vars(Dequeue(FALSE))
    /\ WF_vars(io = "cancelled" /\ (Open(FALSE) \/ WriteFail))
    /\ WF_vars(Finish)
    /\ WF_vars(JoinTimeout)

Spec == Init /\ [][Next]_vars /\ Fairness
----------------------------------------------------------------------------
(* The type invariant, with what the reopen relies on: a stream that has   *)
(* carried an Object is the current one until a write fails.               *)
TypeOK ==
    /\ \A s \in Sources :
          /\ source[s].next \in Published \cup {Past}
          /\ source[s].pc \in {"reading", "claimed", "fin", "reset"}
    /\ claimed \subseteq Published
    /\ Len(inbox) <= QueueSize
    /\ \A i \in DOMAIN inbox : inbox[i].id \in claimed
    /\ run.pc \in {"next", "open", "write", "finish", "done"}
    /\ out \in {0, Len(streams)} /\ reported <= Len(streams)
    /\ run.pc = "next" /\ run.hasWritten /\ ~run.failed => out # 0
    /\ \A i \in DOMAIN streams :
          /\ streams[i].objs \in Seq(Published)
          /\ streams[i].end \in {"open", "fin", "reset"}

Skips == {g.id : g \in {h \in given : h.verdict # "Forward"}}
Sent  == UNION {{streams[i].objs[j] : j \in DOMAIN streams[i].objs}
                : i \in DOMAIN streams}

\* On one stream each Object is the next one of the Subgroup after the one
\* before it: any Object of the Subgroup between the two was kept from this
\* subscriber by its own filters (isNextObject: "only the next Object may go
\* on an existing stream").  Never one lost to a full inbox or to expiry, and
\* never one of another upstream still on its way.
NextOnly ==
    \A i \in DOMAIN streams :
        LET objs == streams[i].objs
        IN  \A j \in 1..(Len(objs) - 1) :
              /\ objs[j] < objs[j + 1]
              /\ \A x \in Published :
                    objs[j] < x /\ x < objs[j + 1] => x \in Skips

\* A stream gets a FIN only if this subscriber was sent every Object handed to
\* its writer except those before its Start Location (ForwardVerdict: "every
\* other skip means the stream must end with a reset"), and of those none that
\* follows all it was sent: a REQUEST_UPDATE that raises the Start past an
\* admitted Object ends the stream with a reset (skip).
FinComplete ==
    (\E i \in DOMAIN streams : streams[i].end = "fin") =>
        \A g \in given :
            \/ g.verdict = "Forward" /\ g.id \in Sent
            \/ /\ g.verdict = "SkipBeforeStart"
               /\ (\E x \in Sent : x < g.id) => \E y \in Sent : y > g.id

\* What a stream's header says holds of what follows it: a stream that claims
\* FIRST_OBJECT starts with the Subgroup's first Object or carries nothing
\* (dropExpired), and an Object with Properties goes on a stream whose header
\* sets PROPERTIES (reopenCause).
HeaderHolds ==
    \A i \in DOMAIN streams :
        LET s == streams[i]
        IN  /\ s.first /\ s.objs # <<>> => s.objs[1] = First
            /\ \A j \in DOMAIN s.objs : s.objs[j] \in WithProps => s.props

\* joinWriters returns: once the last contributor has left, the goroutine ends
\* although the subscriber may never read another byte.
JoinReturns == []<>(Left => run.pc = "done")

\* What a Subgroup stream says, by its header, by the Objects that follow each
\* other on it and by a FIN, is true (subgroupWriter).
StreamsTellTruth == TypeOK /\ HeaderHolds /\ NextOnly /\ FinComplete
=============================================================================
