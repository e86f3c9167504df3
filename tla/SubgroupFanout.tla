--------------------------- MODULE SubgroupFanout ---------------------------
(***************************************************************************)
(* One Subgroup of a track on its way through the relay: the inbound       *)
(* streams that carry it merge into one outbound writer per subscriber     *)
(* (runFanout and subgroupWriterSet in pkg/relay/handler_fanout.go), while *)
(* subscribers join the track (AddDownstreamSnapshotLargest in             *)
(* registry/track_registry.go) and have what came before filled in         *)
(* (maybeServeFill in handler_fill.go).                                    *)
(*                                                                         *)
(* The locks are apart: the track entry's (largest, the subscribers), the  *)
(* set's sg.Mu (writers, run, readers) and the dedup ledger's.  Each       *)
(* critical section is one step.  Subscribers are unfiltered; what filters *)
(* do to one writer is SubgroupWriter's matter.                            *)
(***************************************************************************)
EXTENDS Integers, Sequences, FiniteSets, FiniteSetsExt, TLC

CONSTANTS
    Contributors,  \* upstreams that send the Subgroup
    Subs,          \* subscribers of the track
    Filling,       \* those that ask for what came before to be filled in
    Published,     \* Object IDs of the Subgroup
    MaxStreams,    \* streams opened for it in all, by any upstream
    AgesOut,       \* whether its Group may leave the dedup window
    Aborts         \* whether a stream may fail part way through an Object

ASSUME PublishedAssumption ==
    Published # {} /\ IsFiniteSet(Published) /\ Published \subseteq Nat
ASSUME BoundsAssumption ==
    Filling \subseteq Subs /\ MaxStreams \in Nat /\ AgesOut \in BOOLEAN /\ Aborts \in BOOLEAN

None == -1
NoSet == [refs |-> 0]
NoStream == [pc |-> "idle"]

VARIABLES
    set,        \* the subgroupWriterSet, NoSet while no stream carries it
    stream,     \* where each contributor's runFanout is
    streams,    \* streams opened so far
    claimed,    \* Objects the ledger holds as delivered
    aged,       \* the Group has left the ledger's window
    largest,    \* the entry's Largest Object in this Subgroup, or None
    gen,        \* downstreamGen
    sub,        \* each subscriber: out, in or ended
    snapshot,   \* Largest Object each subscriber registered with
    fill,       \* each subscriber's fill fetch stream: none, waiting or done
    waitsFor,   \* Objects arriving when the fill registered its wait
    cached,     \* Objects in the cache
    live,       \* Objects handed to each subscriber's writers, in order
    filled,     \* Objects each subscriber's fill carried
    finned,     \* history: what had gone where when a stream got a FIN
    odd         \* history: Objects cut part way through, and Objects read late:
                \* below the Largest, or before the set's first writers opened

ledger == <<claimed, aged>>
track  == <<largest, gen, sub, snapshot>>
fills  == <<fill, waitsFor, filled>>
history == <<finned, odd>>
vars   == <<set, stream, streams, ledger, track, fills, cached, live, history>>

First == Min(Published)
Last  == Max(Published)

Init ==
    /\ set = NoSet
    /\ stream = [c \in Contributors |-> NoStream]
    /\ streams = 0
    /\ claimed = {} /\ aged = FALSE
    /\ largest = None /\ gen = 0
    /\ sub = [s \in Subs |-> "out"]
    /\ snapshot = [s \in Subs |-> None]
    /\ fill = [s \in Subs |-> "none"]
    /\ waitsFor = [s \in Subs |-> {}]
    /\ cached = {}
    /\ live = [s \in Subs |-> <<>>]
    /\ filled = [s \in Subs |-> {}]
    /\ finned = {}
    /\ odd = [cut |-> {}, late |-> {}]
----------------------------------------------------------------------------
(* The writer set.                                                         *)

\* A new subgroupWriterSet.  writers maps each subscriber scanned to its
\* writer's seq, None for one that had ended; reading maps an Object some
\* contributor is part way through to its objHeard; carried are the
\* subscribers whose writer has been handed an Object.
NewSet ==
    [refs |-> 1, writers |-> <<>>, gen |-> 0, opened |-> 0, reading |-> <<>>,
     lowest |-> None, runLo |-> None, runHi |-> None, unbroken |-> FALSE,
     cleanFrom |-> None, incomplete |-> {}, carried |-> {}]

\* openWriterForSub for the subscribers in new, each with its seq.
openWriters(w, new, seq) ==
    [s \in DOMAIN w \cup new |->
        IF s \in DOMAIN w THEN w[s]
        ELSE IF sub[s] = "in" THEN seq ELSE None]

\* noteHeader on Object id; heard(...) of the result is what it returns.
noteHeader(set1, id) ==
    [set1 EXCEPT !.reading =
        [i \in DOMAIN @ \cup {id} |->
            IF i \in DOMAIN @
            THEN IF i = id THEN [@[i] EXCEPT !.readers = @ + 1] ELSE @[i]
            ELSE [heard |-> set1.opened, readers |-> 1]]]

doneReading(set1, id) ==
    [set1 EXCEPT !.reading =
        [i \in {j \in DOMAIN @ : j # id \/ @[j].readers > 1} |->
            IF i = id THEN [@[i] EXCEPT !.readers = @ - 1] ELSE @[i]]]

hasRun(set1) == set1.runHi # None

\* claimFirst, without the FIRST_OBJECT bit it returns.
claimFirst(set1, id) ==
    LET low == [set1 EXCEPT !.lowest = IF @ = None THEN id ELSE Min({@, id})]
    IN IF ~hasRun(set1)
       THEN [low EXCEPT !.runLo = id, !.runHi = id, !.unbroken = TRUE]
       ELSE IF id = set1.runHi + 1 THEN [low EXCEPT !.runHi = id]
       ELSE IF set1.runLo > 0 /\ id = set1.runLo - 1 THEN [low EXCEPT !.runLo = id]
       ELSE [low EXCEPT !.runLo = Min({@, id}), !.runHi = Max({@, id}),
                        !.unbroken = FALSE]

\* admitAgedOut: an Object out of the window is forwarded above the run only,
\* and one that is not, if it is no known repeat, makes the streams incomplete.
aboveRun(set1, id) == hasRun(set1) /\ id > set1.runHi
inRun(set1, id) ==
    /\ hasRun(set1)
    /\ \/ id \in {set1.runLo, set1.runHi}
       \/ set1.unbroken /\ set1.runLo < id /\ id < set1.runHi

dropAgedOut(set1, id) ==
    IF inRun(set1, id) THEN set1
    ELSE [set1 EXCEPT !.incomplete =
            @ \cup {s \in DOMAIN set1.writers :
                      set1.writers[s] # None /\ sub[s] = "in"}]

leave(set1, reset, covers, coverFrom) ==
    IF ~reset /\ covers /\ (set1.cleanFrom = None \/ coverFrom < set1.cleanFrom)
    THEN [set1 EXCEPT !.cleanFrom = coverFrom] ELSE set1

\* Fault: one contributor that ended cleanly vouches for the whole Subgroup.
endsCleanAnyFin(set1) == set1.cleanFrom # None

\* outcome: whether the merged streams end with a FIN.  lowest is 0 until an
\* Object is forwarded.
endsClean(set1) ==
    LET lowest == Max({set1.lowest, 0})
    IN /\ set1.cleanFrom # None
       /\ \/ set1.cleanFrom <= lowest
          \/ /\ set1.unbroken
             /\ set1.runLo = lowest /\ set1.runHi >= set1.cleanFrom - 1
----------------------------------------------------------------------------
(* An inbound stream.                                                      *)

At(c, pc) == stream[c].pc = pc
Goes(c, pc) == stream' = [stream EXCEPT ![c].pc = pc]

\* The Object a stream reads next: Objects come in ascending order.
NextObject(c) == Min({id \in Published : id > stream[c].last})
HasNext(c) == stream[c].last < Last

\* AcquireSubgroup.  The stream starts at Object from; only one that starts
\* at the first Object says so (FIRST_OBJECT).
Acquire(c, from) ==
    /\ At(c, "idle") /\ streams < MaxStreams
    /\ streams' = streams + 1
    /\ \/ /\ set = NoSet
          /\ set' = NewSet
       \/ /\ set # NoSet
          /\ set' = [set EXCEPT !.refs = @ + 1]
    /\ stream' = [stream EXCEPT ![c] =
                    [pc |-> IF set = NoSet THEN "created" ELSE "between",
                     from |-> from, last |-> from - 1, reset |-> FALSE,
                     subs |-> {}, gen |-> 0, lowest |-> None]]
    /\ UNCHANGED <<ledger, track, fills, cached, live, history>>

\* The contributor that created the set copies the subscribers,
CopyDownstream(c) ==
    /\ At(c, "created")
    /\ stream' = [stream EXCEPT ![c].pc = "copied", ![c].gen = gen,
                                ![c].subs = {s \in Subs : sub[s] # "out"}]
    /\ UNCHANGED <<set, streams, ledger, track, fills, cached, live, history>>

\* asks the ledger for LowestForwarded,
LowestForwarded(c) ==
    /\ At(c, "copied")
    /\ stream' = [stream EXCEPT ![c].pc = "opening",
                                ![c].lowest = IF claimed = {} \/ aged THEN None
                                              ELSE Min(claimed)]
    /\ UNCHANGED <<set, streams, ledger, track, fills, cached, live, history>>

\* runFanout's loop starts; what the set was opened with is no longer used.
Opened(st) == [st EXCEPT !.pc = "between", !.subs = {}, !.gen = 0, !.lowest = None]

\* and opens their writers under sg.Mu.
OpenInitial(c) ==
    /\ At(c, "opening")
    /\ set' = [set EXCEPT
                !.gen = stream[c].gen,
                !.lowest = IF stream[c].lowest # None
                              /\ (@ = None \/ stream[c].lowest < @)
                           THEN stream[c].lowest ELSE @,
                !.writers = openWriters(@, stream[c].subs, 0)]
    /\ stream' = [stream EXCEPT ![c] = Opened(@)]
    /\ UNCHANGED <<streams, ledger, track, fills, cached, live, history>>

\* Set created, its first writers not yet open.
Creating(c) == stream[c].pc \in {"created", "copied", "opening"}

\* headerRead, with UpdateLargestAndDetectNew: Largest Object advances and
\* subscribers that joined since the last scan get a writer.
HeaderRead(c) ==
    LET id  == NextObject(c)
        new == IF gen = set.gen THEN {}
               ELSE {s \in Subs : sub[s] # "out" /\ s \notin DOMAIN set.writers}
        opened == {s \in new : sub[s] = "in"}
        scanned == [set EXCEPT
                     !.gen = gen,
                     !.writers = openWriters(@, new, set.opened + 1),
                     !.opened = @ + Cardinality(opened)]
    IN /\ At(c, "between") /\ HasNext(c)
       /\ set' = noteHeader(scanned, id)
       /\ largest' = Max({largest, id})
       /\ stream' = [stream EXCEPT ![c].pc = "reading", ![c].last = id]
       /\ odd' = [odd EXCEPT !.late =
                     IF id < largest \/ \E d \in Contributors : Creating(d)
                     THEN @ \cup {id} ELSE @]
       /\ UNCHANGED <<streams, ledger, gen, sub, snapshot, fills, cached, live,
                      finned>>

\* The payload is read, and ClaimDelivered decides.
Claim(c) ==
    /\ At(c, "reading")
    /\ \/ /\ ~aged /\ stream[c].last \in claimed
          /\ Goes(c, "redundant")
          /\ UNCHANGED claimed
       \/ /\ ~aged /\ stream[c].last \notin claimed
          /\ claimed' = claimed \cup {stream[c].last}
          /\ Goes(c, "fresh")
       \/ /\ aged
          /\ Goes(c, "agedOut")
          /\ UNCHANGED claimed
    /\ UNCHANGED <<set, streams, aged, track, fills, cached, live, history>>

\* The stream fails part way through the payload: EndInFlight, then Done.
Abandon(c) ==
    /\ Aborts /\ At(c, "reading")
    /\ stream' = [stream EXCEPT ![c].pc = "abandoned", ![c].reset = TRUE]
    /\ odd' = [odd EXCEPT !.cut = @ \cup {stream[c].last}]
    /\ UNCHANGED <<set, streams, ledger, track, fills, cached, live, finned>>

\* done: the Object is dropped, as a copy or with its stream.
Done(c) ==
    /\ stream[c].pc \in {"redundant", "abandoned"}
    /\ set' = doneReading(set, stream[c].last)
    /\ Goes(c, IF At(c, "redundant") THEN "between" ELSE "leaving")
    /\ UNCHANGED <<streams, ledger, track, fills, cached, live, history>>

\* The writers Object id goes to: those open when its header was first read.
Takers(id) ==
    {s \in DOMAIN set.writers :
        /\ set.writers[s] # None /\ sub[s] = "in"
        /\ set.writers[s] <= set.reading[id].heard}

\* The Object is cached and handed to the writers, under sg.Mu.
Forward(c) ==
    LET id == stream[c].last
        admitted == At(c, "fresh") \/ aboveRun(set, id)
        rest == doneReading(set, id)
    IN /\ stream[c].pc \in {"fresh", "agedOut"}
       /\ \/ /\ admitted
             /\ cached' = cached \cup {id}
             /\ live' = [s \in Subs |-> IF s \in Takers(id) THEN Append(live[s], id)
                                                           ELSE live[s]]
             /\ set' = [claimFirst(rest, id) EXCEPT
                            !.carried = @ \cup Takers(id)]
          \/ /\ ~admitted
             /\ set' = dropAgedOut(rest, id)
             /\ UNCHANGED <<cached, live>>
       /\ Goes(c, "between")
       /\ UNCHANGED <<streams, ledger, track, fills, history>>

Carried(s) == {live[s][i] : i \in DOMAIN live[s]}

\* The stream ends: a FIN after the Subgroup's last Object, or a reset.
End(c, reset) ==
    /\ At(c, "between")
    /\ ~reset => ~HasNext(c)
    /\ stream' = [stream EXCEPT ![c].pc = "leaving", ![c].reset = reset]
    /\ UNCHANGED <<set, streams, ledger, track, fills, cached, live, history>>

\* The deferred leave.  The last contributor closes every writer, whose
\* stream, if it carried an Object, ends with a FIN or a reset.
Leave(c) ==
    LET replay    == stream[c].from # First
        covers    == ~replay \/ stream[c].last >= stream[c].from
        coverFrom == IF replay THEN stream[c].from ELSE 0
        left      == leave(set, stream[c].reset, covers, coverFrom)
        fins      == {s \in DOMAIN set.writers :
                        /\ set.writers[s] # None /\ sub[s] = "in"
                        /\ s \notin set.incomplete /\ s \in set.carried}
    IN /\ At(c, "leaving")
       /\ stream' = [stream EXCEPT ![c] = NoStream]
       /\ \/ /\ set.refs > 1
             /\ set' = [left EXCEPT !.refs = @ - 1]
             /\ UNCHANGED finned
          \/ /\ set.refs = 1
             /\ set' = NoSet
             /\ finned' = finned \cup
                    {[sub |-> s, low |-> left.lowest, got |-> Carried(s)] :
                        s \in IF endsClean(left) THEN fins ELSE {}}
       /\ UNCHANGED <<streams, ledger, track, fills, cached, live, odd>>
----------------------------------------------------------------------------
(* The rest of the relay.                                                  *)

\* Newer Groups push this one out of the ledger's window.
AgeOut ==
    /\ AgesOut /\ ~aged
    /\ aged' = TRUE
    /\ UNCHANGED <<set, stream, streams, claimed, track, fills, cached, live, history>>

\* AddDownstreamSnapshotLargest: registration and snapshot in one section.
Subscribe(s) ==
    /\ sub[s] = "out"
    /\ sub' = [sub EXCEPT ![s] = "in"]
    /\ snapshot' = [snapshot EXCEPT ![s] = largest]
    /\ gen' = gen + 1
    /\ UNCHANGED <<set, stream, streams, ledger, largest, fills, cached, live, history>>

\* The subscription is terminated.
Unsubscribe(s) ==
    /\ sub[s] = "in"
    /\ sub' = [sub EXCEPT ![s] = "ended"]
    /\ UNCHANGED <<set, stream, streams, ledger, largest, gen, snapshot, fills,
                   cached, live, history>>

\* Objects some stream is part way through (InFlight).
Arriving == {stream[c].last : c \in {d \in Contributors :
                                stream[d].pc \in {"reading", "fresh", "agedOut"}}}

\* maybeServeFill: up to the snapshot, what is cached and what is arriving.
StartFill(s) ==
    /\ s \in Filling /\ sub[s] = "in" /\ fill[s] = "none"
    /\ fill' = [fill EXCEPT ![s] = "waiting"]
    /\ waitsFor' = [waitsFor EXCEPT ![s] = {id \in Arriving : id <= snapshot[s]}]
    /\ filled' = [filled EXCEPT ![s] = {id \in cached : id <= snapshot[s]}]
    /\ UNCHANGED <<set, stream, streams, ledger, track, cached, live, history>>

\* The Objects waited for have arrived or been abandoned (FlightWait.Wait).
EndFill(s) ==
    /\ fill[s] = "waiting"
    /\ waitsFor[s] \cap Arriving \subseteq cached
    /\ fill' = [fill EXCEPT ![s] = "done"]
    /\ filled' = [filled EXCEPT ![s] = @ \cup (waitsFor[s] \cap cached)]
    /\ waitsFor' = [waitsFor EXCEPT ![s] = {}]
    /\ UNCHANGED <<set, stream, streams, ledger, track, cached, live, history>>

Next ==
    \/ \E c \in Contributors :
        \/ \E from \in Published : Acquire(c, from)
        \/ CopyDownstream(c) \/ LowestForwarded(c) \/ OpenInitial(c)
        \/ HeaderRead(c) \/ Claim(c) \/ Abandon(c) \/ Done(c) \/ Forward(c)
        \/ \E reset \in BOOLEAN : End(c, reset)
        \/ Leave(c)
    \/ AgeOut
    \/ \E s \in Subs :
        Subscribe(s) \/ Unsubscribe(s) \/ StartFill(s) \/ EndFill(s)

Spec == Init /\ [][Next]_vars

\* Upstreams are interchangeable, and so are subscribers.
Interchangeable == Permutations(Contributors) \cup Permutations(Subs)
----------------------------------------------------------------------------
\* The type invariant: a set is there exactly while a stream carries the
\* Subgroup, and its notes of Objects being read are its streams'.
TypeOK ==
    /\ set = NoSet <=> \A c \in Contributors : At(c, "idle")
    /\ set # NoSet =>
        /\ set.refs = Cardinality({c \in Contributors : ~At(c, "idle")})
        /\ DOMAIN set.writers \subseteq Subs
        /\ \A id \in Published :
            LET readers == {c \in Contributors :
                              /\ stream[c].pc \in {"reading", "fresh", "agedOut",
                                                   "redundant", "abandoned"}
                              /\ stream[c].last = id}
            IN IF readers = {} THEN id \notin DOMAIN set.reading
               ELSE id \in DOMAIN set.reading
                    /\ set.reading[id].readers = Cardinality(readers)
    /\ claimed \subseteq Published /\ cached \subseteq Published
    /\ sub \in [Subs -> {"out", "in", "ended"}]
    /\ live \in [Subs -> Seq(Published)]
    /\ finned \subseteq [sub : Subs, low : Published \cup {None},
                         got : SUBSET Published]

\* A stream that ends with a FIN carried every Object of the Subgroup above the
\* Largest Object its subscriber joined at and from the set's lowest on,
\* whichever of the merged streams were reset (outcome) and even where the
\* relay dropped an Object because its Group left the dedup window
\* (admitAgedOut: "each stream it would have gone on is marked incomplete ...
\* so it resets rather than FIN").
FinCarriesLive ==
    \A f \in finned, id \in Published :
        (f.low # None /\ id >= f.low /\ id > snapshot[f.sub]) => id \in f.got

\* A subscriber whose fill is done has every Object forwarded, live or
\* filled, however its registration fell between header reads, joiner scans
\* and forwards (AddDownstreamSnapshotLargest: "every object the publisher
\* has emitted is either covered by the fill ... or delivered via live").
Missed(s) ==
    IF sub[s] = "in" /\ fill[s] = "done"
    THEN cached \ (Carried(s) \cup filled[s]) ELSE {}
NeverNeither == \A s \in Subs : Missed(s) = {}

\* The same, but for an Object one of whose streams failed part way through
\* it: the only case in which a subscriber misses one.
NeitherOnlyIfCut == \A s \in Subs : Missed(s) \subseteq odd.cut

\* No Object is both live and filled (same comment: "never both: a writer
\* opened after an Object's header does not get that Object"), but for one
\* read late or cut, or whose Group has left the dedup window.
BothOnlyIfLate ==
    \A s \in Subs : aged \/ Carried(s) \cap filled[s] \subseteq odd.late \cup odd.cut

\* No subscriber is handed an Object twice, however many upstreams send it and
\* however the streams that carry it end and restart (§7.3, ClaimDelivered),
\* as long as the Group is in the dedup window.
RepeatOnlyIfAged ==
    aged \/ \A s \in Subs : \A i, j \in DOMAIN live[s] :
                live[s][i] = live[s][j] => i = j

\* Each subscriber is handed each Object of the Subgroup once, live or filled,
\* but for the named exceptions, and a FIN only behind all of them.
HandedOnce == TypeOK /\ FinCarriesLive /\ NeitherOnlyIfCut /\ BothOnlyIfLate /\ RepeatOnlyIfAged
=============================================================================
