------------------------------ MODULE Handshake ------------------------------
(* The SETUP exchange of a session (session/handshake.go; open of             *)
(* session.go): one goroutine writes SETUP on a new control stream, another   *)
(* finds the peer's among the streams that arrive, holding data streams for   *)
(* later, and a cancellation resets whichever stream either is busy with.     *)
EXTENDS Integers, Sequences, SequencesExt

CONSTANTS
    MaxStreams,     \* bound on the peer's unidirectional streams
    MaxEarly        \* maxEarlyDataStreams

(* What the peer's streams turn out to be: its control stream, data, padding, *)
(* reset or finished before their type was read.                              *)
Kinds == {"control", "data", "padding", "reset", "fin"}

VARIABLES
    arriving,       \* the kinds of the peer's streams, in the order accepted
    next,           \* how many were accepted
    ctx,            \* the caller's context: "live" or "done"
    group,          \* gctx
    sender,         \* "writing", "written", "ok", "error"
    receiver,       \* "accept", "type", "parse", "parsed", "ok", "error"
    after,          \* side -> its AfterFunc: "off", "armed", "started", "fired"
    result,         \* "none", "checking", "ok", "error": what handshake returns
    held,           \* earlyData, as indices into arriving
    refused,        \* data streams refused with EXCESSIVE_LOAD
    given           \* data streams AcceptDataStream returned

vars == <<arriving, next, ctx, group, sender, receiver, after, result, held, refused, given>>
Sides == {"send", "recv"}

TypeOK ==
    /\ Len(arriving) <= MaxStreams /\ next \in 0..MaxStreams
    /\ ctx \in {"live", "done"} /\ group \in {"live", "done"}
    /\ sender \in {"writing", "written", "ok", "error"}
    /\ receiver \in {"accept", "type", "parse", "parsed", "ok", "error"}
    /\ after \in [Sides -> {"off", "armed", "started", "fired"}]
    /\ result \in {"none", "checking", "ok", "error"}
    /\ Len(held) <= MaxEarly

Init ==
    /\ arriving \in UNION {[1..n -> Kinds] : n \in 0..MaxStreams}
    /\ next = 0 /\ ctx = "live" /\ group = "live"
    /\ sender = "writing" /\ receiver = "accept"
    /\ after = [send |-> "armed", recv |-> "off"]
    /\ result = "none"
    /\ held = <<>> /\ refused = {} /\ given = <<>>

received == <<arriving, next, held, refused, given>>
-----------------------------------------------------------------------------
(* The caller gives up; gctx follows its parent. *)
Cancel ==
    /\ ctx = "live"
    /\ ctx' = "done" /\ group' = "done"
    /\ UNCHANGED <<received, sender, receiver, after, result>>

(* An AfterFunc runs on its own goroutine: once it has started, stop no       *)
(* longer holds it back.                                                      *)
AfterStarts(s) ==
    /\ group = "done" /\ after[s] = "armed"
    /\ after' = [after EXCEPT ![s] = "started"]
    /\ UNCHANGED <<received, ctx, group, sender, receiver, result>>

AfterFires(s) ==
    /\ after[s] = "started"
    /\ after' = [after EXCEPT ![s] = "fired"]
    /\ UNCHANGED <<received, ctx, group, sender, receiver, result>>

Stop(s) == after' = [after EXCEPT ![s] = IF @ = "armed" THEN "off" ELSE @]
Fail == group' = "done"
-----------------------------------------------------------------------------
(* message.Marshal of SETUP: written in full, or failed by the transport or   *)
(* by the reset.                                                              *)
SenderWrites ==
    /\ sender = "writing" /\ after["send"] # "fired"
    /\ sender' = "written"
    /\ UNCHANGED <<received, ctx, group, receiver, after, result>>

SenderFails ==
    /\ sender = "writing"
    /\ sender' = "error" /\ Stop("send") /\ Fail
    /\ UNCHANGED <<received, ctx, receiver, result>>

(* The deferred stop. *)
SenderReturns ==
    /\ sender = "written"
    /\ sender' = "ok" /\ Stop("send")
    /\ UNCHANGED <<received, ctx, group, receiver, result>>
-----------------------------------------------------------------------------
(* acceptControlStream: the transport's next stream, whose type is awaited    *)
(* under an AfterFunc of its own.                                             *)
Accepts ==
    /\ receiver = "accept" /\ next < Len(arriving)
    /\ next' = next + 1
    /\ receiver' = "type"
    /\ after' = [after EXCEPT !["recv"] = "armed"]
    /\ UNCHANGED <<arriving, held, refused, given, ctx, group, sender, result>>

ReceiverErrs == receiver' = "error" /\ Stop("recv") /\ Fail

AcceptFails ==
    /\ receiver = "accept" /\ group = "done"
    /\ receiver' = "error" /\ Fail
    /\ UNCHANGED <<received, ctx, sender, after, result>>

(* The type read, or cut short: a data stream is held or refused, padding and *)
(* a reset stream are skipped unless the handshake is over, a FIN fails it.   *)
Hold ==
    IF Len(held) < MaxEarly THEN held' = Append(held, next) /\ UNCHANGED refused
    ELSE refused' = refused \union {next} /\ UNCHANGED held

ReadsType(k) ==
    /\ receiver = "type" /\ after["recv"] # "fired" /\ k = arriving[next]
    /\ CASE k = "control" -> receiver' = "parse" /\ UNCHANGED <<after, group, held, refused>>
         [] k = "data" -> receiver' = "accept" /\ Stop("recv") /\ Hold /\ UNCHANGED group
         [] k = "fin" -> ReceiverErrs /\ UNCHANGED <<held, refused>>
         [] k \in {"padding", "reset"} ->
              /\ IF k = "reset" /\ group = "done" THEN ReceiverErrs
                 ELSE receiver' = "accept" /\ Stop("recv") /\ UNCHANGED group
              /\ UNCHANGED <<held, refused>>
    /\ UNCHANGED <<arriving, next, given, ctx, sender, result>>

TypeCancelled ==
    /\ receiver = "type" /\ after["recv"] = "fired"
    /\ ReceiverErrs
    /\ UNCHANGED <<received, ctx, sender, result>>

(* message.Parse of what should be SETUP. *)
Parses ==
    /\ receiver = "parse" /\ after["recv"] # "fired"
    /\ receiver' = "parsed"
    /\ UNCHANGED <<received, ctx, group, sender, after, result>>

ParseFails ==
    /\ receiver = "parse"
    /\ ReceiverErrs
    /\ UNCHANGED <<received, ctx, sender, result>>

ReceiverReturns ==
    /\ receiver = "parsed"
    /\ receiver' = "ok" /\ Stop("recv")
    /\ UNCHANGED <<received, ctx, group, sender, result>>
-----------------------------------------------------------------------------
(* g.Wait, which ends gctx, and behind it the check of ctx itself. *)
Waits ==
    /\ result = "none" /\ sender \in {"ok", "error"} /\ receiver \in {"ok", "error"}
    /\ result' = IF sender = "ok" /\ receiver = "ok" THEN "checking" ELSE "error"
    /\ group' = "done"
    /\ UNCHANGED <<received, ctx, sender, receiver, after>>

\* Fault: a handshake cancelled at the end is adopted.
ChecksNothing ==
    /\ result = "checking"
    /\ result' = "ok"
    /\ UNCHANGED <<received, ctx, group, sender, receiver, after>>

Checks ==
    /\ result = "checking"
    /\ result' = IF ctx = "done" THEN "error" ELSE "ok"
    /\ UNCHANGED <<received, ctx, group, sender, receiver, after>>

(* nextUniStream for AcceptDataStream: the held streams before the others. *)
nextUniStream ==
    /\ result = "ok"
    /\ \/ /\ held # <<>>
          /\ given' = Append(given, Head(held)) /\ held' = Tail(held) /\ UNCHANGED next
       \/ /\ held = <<>> /\ next < Len(arriving)
          /\ given' = IF arriving[next + 1] = "data" THEN Append(given, next + 1) ELSE given
          /\ next' = next + 1 /\ UNCHANGED held
    /\ UNCHANGED <<arriving, refused, ctx, group, sender, receiver, after, result>>

Next ==
    \/ Cancel
    \/ \E s \in Sides : AfterStarts(s) \/ AfterFires(s)
    \/ SenderWrites \/ SenderFails \/ SenderReturns
    \/ Accepts \/ AcceptFails \/ (\E k \in Kinds : ReadsType(k)) \/ TypeCancelled
    \/ Parses \/ ParseFails \/ ReceiverReturns
    \/ Waits \/ Checks
    \/ nextUniStream

Spec == Init /\ [][Next]_vars
-----------------------------------------------------------------------------
(* "Any stale fire implies ctx is cancelled by now, so failing here closes    *)
(* the window": no stream the session adopts as a control stream was reset,   *)
(* or is about to be, by the handshake's own cancellation.                    *)
AdoptedUntouched == result = "ok" => \A s \in Sides : after[s] = "off"

DataUpTo(n) == SelectSeq([i \in 1..n |-> i], LAMBDA i : arriving[i] = "data" /\ i \notin refused)

(* "Data streams that arrive before the control stream are held for           *)
(* AcceptDataStream": once the session is up, every data stream accepted and  *)
(* not refused is given or held, each once and in the order it arrived.       *)
EarlyDataKept ==
    result = "ok" => given \o held = DataUpTo(next)

(* A data stream is refused only behind maxEarlyDataStreams others. *)
RefusedBeyondLimit ==
    \A i \in refused : Len(DataUpTo(i)) >= MaxEarly

(* The handshake keeps the streams it meets: the session's control streams     *)
(* unharmed, the data streams that came early, all but those past the limit    *)
(* (handshake.go).                                                             *)
SetupKeepsStreams == AdoptedUntouched /\ EarlyDataKept /\ RefusedBeyondLimit
=============================================================================
