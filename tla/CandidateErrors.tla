--------------------------- MODULE CandidateErrors ---------------------------
(* How the relay answers a request none of its upstream candidates accepted   *)
(* (handler_subscribe.go): their errors are folded, one at a time and in the  *)
(* order they come, into the one the subscriber is answered with, and the     *)
(* same error decides whether a held SUBSCRIBE keeps waiting for a publisher. *)
EXTENDS Integers, FiniteSets, FiniteSetsExt

CONSTANTS
    Retries,          \* Retry Intervals peers give, with 0: not to be retried
    GoingAwayRetry,   \* goingAwayRetry, the most the relay's own can be
    LoadRetry,        \* excessiveLoadRetryMax
    MaxSeen           \* bound on the candidates of one request

(* moqt.RequestErrorCode, those this code tells apart. *)
InternalError == 0
Unauthorized == 1
Timeout == 2
GoingAway == 6
ExcessiveLoad == 9
DoesNotExist == 16
InvalidRange == 17
UnsupportedExtension == 51

Codes == {InternalError, Unauthorized, Timeout, GoingAway, ExcessiveLoad, DoesNotExist,
          InvalidRange, UnsupportedExtension}

(* The kinds of error: an unknown Mandatory Track Property, Track Properties  *)
(* that do not parse, errGoingAway, ErrNoStreamCredit, a failed stream, and a *)
(* REQUEST_ERROR.                                                             *)
Nil == [kind |-> "nil", code |-> 0, retry |-> 0]
Plain(k) == [kind |-> k, code |-> 0, retry |-> 0]
errGoingAway == Plain("away")
transport == Plain("transport")
Rejected(c, r) == [kind |-> "rejected", code |-> c, retry |-> r]

Errors ==
    {Plain(k) : k \in {"mandatory", "properties", "credit"}} \union {errGoingAway, transport}
    \union {Rejected(c, r) : c \in Codes, r \in Retries}

awaitsPublisher(e) ==
    \/ e.kind \in {"nil", "away", "transport"}
    \/ e.kind = "rejected" /\ e.code \in {DoesNotExist, Timeout, GoingAway}

upstreamCode(e) ==
    CASE e.kind = "mandatory" -> UnsupportedExtension
      [] e.kind = "properties" -> InternalError
      [] e.kind = "away" -> GoingAway
      [] e.kind = "credit" -> ExcessiveLoad
      [] e.kind \in {"transport", "nil"} -> DoesNotExist
      [] e.kind = "rejected" ->
           IF e.code \in {DoesNotExist, Timeout, ExcessiveLoad, UnsupportedExtension, GoingAway}
           THEN e.code ELSE InternalError

candidateRetry(e) ==
    CASE e.kind = "away" -> GoingAwayRetry
      [] e.kind = "credit" -> LoadRetry
      [] e.kind = "rejected" -> IF e.code = GoingAway /\ e.retry = 0 THEN GoingAwayRetry ELSE e.retry
      [] OTHER -> 0

candidateErrRank(e) ==
    CASE e.kind = "nil" -> 0
      [] e.kind = "mandatory" -> 6
      [] e.kind = "properties" -> 5
      [] e.kind \in {"credit", "rejected"} /\ ~awaitsPublisher(e) -> 4
      [] e.kind = "away" -> 3
      [] e.kind = "rejected" /\ e.code = GoingAway -> 3
      [] e.kind = "rejected" /\ e.code = Timeout -> 2
      [] OTHER -> 1

\* Fault: the lower retry wins although 0 means never.
preferLower(last, e) ==
    LET r == candidateErrRank(e)  l == candidateErrRank(last)
        a == candidateRetry(e)    b == candidateRetry(last)
        c == upstreamCode(e)      d == upstreamCode(last)
    IN IF r # l THEN IF r > l THEN e ELSE last
       ELSE IF a # b THEN IF a < b THEN e ELSE last
       ELSE IF c # d /\ (d = InternalError \/ (c # InternalError /\ c < d)) THEN e ELSE last

(* Rank, then the soonest retry, then a specific code, the lower. *)
preferCandidateErr(last, e) ==
    LET r == candidateErrRank(e)  l == candidateErrRank(last)
        a == candidateRetry(e)    b == candidateRetry(last)
        c == upstreamCode(e)      d == upstreamCode(last)
    IN IF r # l THEN IF r > l THEN e ELSE last
       ELSE IF a # b THEN IF a # 0 /\ (b = 0 \/ a < b) THEN e ELSE last
       ELSE IF c # d /\ (d = InternalError \/ (c # InternalError /\ c < d)) THEN e ELSE last
-----------------------------------------------------------------------------
VARIABLES
    last,     \* lastErr, what the subscriber would be answered with
    seen      \* the candidates' errors so far

vars == <<last, seen>>

TypeOK == last \in Errors \union {Nil} /\ seen \subseteq Errors

Init == last = Nil /\ seen = {}

(* A candidate fails (subscribeUpstream, trackStatusUpstream). *)
Fail(e) ==
    /\ Cardinality(seen) < MaxSeen
    /\ last' = preferCandidateErr(last, e)
    /\ seen' = seen \union {e}

Next == \E e \in Errors : Fail(e)
Spec == Init /\ [][Next]_vars
-----------------------------------------------------------------------------
Foremost(S) == {e \in S : \A f \in S : candidateErrRank(f) <= candidateErrRank(e)}
Soonest(S) ==
    LET given == {candidateRetry(e) : e \in S} \ {0} IN IF given = {} THEN 0 ELSE Min(given)
Specific(S) ==
    LET codes == {upstreamCode(e) : e \in S} \ {InternalError}
    IN IF codes = {} THEN InternalError ELSE Min(codes)

(* "the answer does not depend on the order candidates answer in"             *)
(* (preferCandidateErr): it is a function of the set of their errors, the     *)
(* foremost rank's soonest retry with its most specific code.                 *)
AnswerOrderFree ==
    seen # {} =>
        LET top == Foremost(seen)
            soon == {e \in top : candidateRetry(e) = Soonest(top)}
        IN candidateRetry(last) = Soonest(top) /\ upstreamCode(last) = Specific(soon)

(* awaitsPublisher: "subscribeUpstream reports such an error only when no     *)
(* other kind occurred": a held SUBSCRIBE goes on waiting exactly if every    *)
(* candidate's answer leaves the track without a publisher.                   *)
HoldIfAllAwait == awaitsPublisher(last) <=> \A e \in seen : awaitsPublisher(e)

(* What the candidates' errors decide is what all of them said: the answer, in *)
(* whatever order they came, and whether to go on waiting.                     *)
CandidatesAgree == AnswerOrderFree /\ HoldIfAllAwait
=============================================================================
