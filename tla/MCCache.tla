------------------------------ MODULE MCCache -------------------------------
(* Objects between the publisher's streams and the requests that want them:    *)
(* the cache, the Objects in flight, and the Forward State that lets Objects   *)
(* come at all.                                                                *)
EXTENDS CacheProofs

VARIABLES
    part,
    slot, read, claimed, cache, wait

MCDurations == {-1, 0, 1}

(* Three copies of the first Object and two of the second. *)
Carries == [f \in {"f1", "f2", "f3"} |-> IF f = "f3" THEN {1} ELSE {1, 2}]

F == INSTANCE InFlight WITH
    Streams <- {"f1", "f2", "f3"}, Fetches <- {"w1"}, MaxObject <- 2,
    Carries <- Carries, Uncacheable <- {2}

inflightVars == <<slot, read, claimed, cache, wait>>
forwardVars == <<down, fwd, resumes, up, rec, act, pc, want, todo, cur, mu, due,
                 flips, lapse>>

all == <<part, vars, inflightVars, forwardVars>>

(* One part of the system at a time; the others stay in an initial state. *)
PartsInit ==
    /\ part \in {"cache", "inflight", "forward"}
    /\ Init
    /\ F!Init
    /\ W!Init

PartsNext ==
    \/ /\ part = "cache" /\ Next
       /\ UNCHANGED <<part, inflightVars, forwardVars>>
    \/ /\ part = "inflight" /\ F!Next
       /\ UNCHANGED <<part, vars, forwardVars>>
    \/ /\ part = "forward" /\ W!Next
       /\ UNCHANGED <<part, vars, inflightVars>>

(* A stream may be read from the start, so its fairness holds while the part   *)
(* is the one that runs.                                                       *)
ReadingFairness ==
    /\ \A f \in {"f1", "f2", "f3"} : WF_inflightVars(part = "inflight" /\ F!Reader(f))
    /\ WF_inflightVars(part = "inflight" /\ F!Fetch("w1"))

PartsSpec ==
    /\ PartsInit /\ [][PartsNext]_all
    /\ ReadingFairness
-----------------------------------------------------------------------------
(* A FETCH's wait ends without its timer once the streams it waits on          *)
(* complete or fail.                                                           *)
WaitEnds == F!WaitEnds
=============================================================================
