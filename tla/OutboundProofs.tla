--------------------------- MODULE OutboundProofs ---------------------------
(***************************************************************************)
(* What a session sends for a track, for any number of streams, datagrams  *)
(* and subscriptions: the datagrams each subscriber is sent                *)
(* (DatagramFanout), and the streams a publication opens, counts and ends  *)
(* (Publication).                                                          *)
(***************************************************************************)
EXTENDS Integers, Sequences, FiniteSetTheorems, TLAPS

\* A sequence without repetition, and what Append and Tail do to one.
Distinct(q) == \A i, j \in DOMAIN q : q[i] = q[j] => i = j

\* An element more at the end.
LEMMA RangeAppend ==
    ASSUME NEW S, NEW q \in Seq(S), NEW x \in S
    PROVE  /\ Append(q, x) \in Seq(S) /\ Range(Append(q, x)) = Range(q) \union {x}
           /\ Len(Append(q, x)) = Len(q) + 1
           /\ Distinct(q) /\ x \notin Range(q) => Distinct(Append(q, x))
<1>1. /\ Append(q, x) \in Seq(S) /\ Len(Append(q, x)) = Len(q) + 1 /\ Len(q) \in Nat
      /\ DOMAIN q = 1..Len(q) /\ DOMAIN Append(q, x) = 1..(Len(q) + 1)
      /\ \A i \in 1..Len(q) : Append(q, x)[i] = q[i]
      /\ Append(q, x)[Len(q) + 1] = x
  OBVIOUS
<1>2. Range(Append(q, x)) = Range(q) \union {x}
  BY <1>1 DEF Range
<1>3. ASSUME Distinct(q), x \notin Range(q) PROVE Distinct(Append(q, x))
  BY <1>1, <1>3 DEF Range, Distinct
<1> QED BY <1>1, <1>2, <1>3

\* The first element less.
LEMMA RangeTail ==
    ASSUME NEW S, NEW q \in Seq(S), q # <<>>
    PROVE  /\ Tail(q) \in Seq(S) /\ Len(Tail(q)) = Len(q) - 1
           /\ Head(q) \in S /\ Range(q) = Range(Tail(q)) \union {Head(q)}
           /\ Distinct(q) => Distinct(Tail(q)) /\ Head(q) \notin Range(Tail(q))
<1>1. /\ Tail(q) \in Seq(S) /\ Len(q) \in Nat \ {0} /\ Len(Tail(q)) = Len(q) - 1
      /\ DOMAIN q = 1..Len(q) /\ DOMAIN Tail(q) = 1..(Len(q) - 1)
      /\ \A i \in 1..(Len(q) - 1) : Tail(q)[i] = q[i + 1]
      /\ Head(q) = q[1] /\ Head(q) \in S
  OBVIOUS
<1>2. Range(q) = Range(Tail(q)) \union {Head(q)}
  <2>1. ASSUME NEW i \in DOMAIN q PROVE q[i] \in Range(Tail(q)) \union {Head(q)}
    <3>1. CASE i = 1
      BY <1>1, <3>1
    <3>2. CASE i # 1
      <4>1. i - 1 \in DOMAIN Tail(q) /\ Tail(q)[i - 1] = q[i]
        BY <1>1, <2>1, <3>2
      <4> QED BY <4>1 DEF Range
    <3> QED BY <3>1, <3>2
  <2>2. ASSUME NEW i \in DOMAIN Tail(q) PROVE Tail(q)[i] \in Range(q)
    BY <1>1, <2>2 DEF Range
  <2>3. Head(q) \in Range(q)
    BY <1>1 DEF Range
  <2> QED BY <2>1, <2>2, <2>3 DEF Range
<1>3. ASSUME Distinct(q) PROVE Distinct(Tail(q)) /\ Head(q) \notin Range(Tail(q))
  <2>1. Distinct(Tail(q))
    <3> SUFFICES ASSUME NEW i \in DOMAIN Tail(q), NEW j \in DOMAIN Tail(q), Tail(q)[i] = Tail(q)[j]
                 PROVE  i = j
      BY DEF Distinct
    <3>1. i + 1 \in DOMAIN q /\ j + 1 \in DOMAIN q /\ q[i + 1] = q[j + 1]
      BY <1>1
    <3>2. i + 1 = j + 1
      BY <1>3, <3>1 DEF Distinct
    <3> QED BY <1>1, <3>2
  <2>2. ASSUME NEW i \in DOMAIN Tail(q), Tail(q)[i] = Head(q) PROVE FALSE
    <3>1. i + 1 \in DOMAIN q /\ 1 \in DOMAIN q /\ q[i + 1] = q[1]
      BY <1>1, <2>2
    <3>2. i + 1 = 1
      BY <1>3, <3>1 DEF Distinct
    <3> QED BY <1>1, <3>2
  <2> QED BY <2>1, <2>2 DEF Range
<1> QED BY <1>1, <1>2, <1>3

\* The empty sequence.
LEMMA EmptyRange == Range(<<>>) = {} /\ Distinct(<<>>) /\ Len(<<>>) = 0
  BY DEF Range, Distinct

\* A set whose members are all equal has at most one.
LEMMA AtMostOne ==
    ASSUME NEW S, \A x, y \in S : x = y
    PROVE  Cardinality(S) = IF S = {} THEN 0 ELSE 1
<1>1. CASE S = {}
  BY <1>1, FS_EmptySet
<1>2. CASE S # {}
  <2>1. PICK x \in S : S = {x}
    BY <1>2
  <2> QED BY <1>2, <2>1, FS_Singleton
<1> QED BY <1>1, <1>2

-----------------------------------------------------------------------------
(* DatagramFanout. *)
CONSTANTS Publishers, Objects, DatagramSubs, sendQueueSize

ASSUME DatagramAssumption == IsFiniteSet(Objects) /\ sendQueueSize \in Nat

VARIABLES
    came, loop, dgClaimed, dgCached, dgLargest, on, dgSub, queue, stopped,
    sessDone, worker, hand, letGo, dgSent

G == INSTANCE DatagramFanout WITH
    Subs <- DatagramSubs, Size <- sendQueueSize, claimed <- dgClaimed,
    cached <- dgCached, largest <- dgLargest, sub <- dgSub, sent <- dgSent

\* Every datagram is accounted for from the moment it is offered: once per
\* subscriber, reserved while pending, none past PUBLISH_DONE, none left in the
\* queue of a worker that returned (datagram_writer.go).
DatagramsAccounted == G!TypeOK /\ G!DatagramsAccounted

\* The datagrams reserved: queued, in the worker's hand, or being dropped.
Reserved == Range(queue) \union Range(hand) \union letGo

SubStates == [terminated : BOOLEAN, sending : Int, done : BOOLEAN]

DatagramTypes ==
    /\ came \subseteq Publishers \X Objects
    /\ loop \in [Publishers -> [pc : {"idle", "claimed", "cached", "fan"},
                                obj : {0} \union Objects, todo : SUBSET DatagramSubs]]
    /\ dgClaimed \subseteq Objects /\ dgCached \subseteq Objects /\ dgLargest \in {0} \union Objects
    /\ on \subseteq DatagramSubs
    /\ dgSub \in [DatagramSubs -> SubStates]
    /\ queue \in Seq(G!Copies) /\ Len(queue) <= sendQueueSize
    /\ stopped \in BOOLEAN /\ sessDone \in BOOLEAN
    /\ worker \in {"none", "select", "sending", "exit", "drain", "done"}
    /\ hand = <<>> \/ \E d \in G!Copies : hand = <<d>>
    /\ letGo \subseteq G!Copies
    /\ dgSent \in [G!Copies -> {0, 1}]

\* A receive loop works on an Object it alone claimed.
Claims ==
    /\ \A p \in Publishers :
        /\ loop[p].pc # "idle" => loop[p].obj \in dgClaimed
        /\ loop[p].pc # "fan" => loop[p].todo = {}
    /\ \A p, q \in Publishers :
        loop[p].pc # "idle" /\ loop[q].pc # "idle" /\ loop[p].obj = loop[q].obj => p = q

\* The queue, the worker's hand and those let go share no datagram.
Apart ==
    /\ Distinct(queue)
    /\ Range(queue) \intersect letGo = {} /\ Range(queue) \intersect Range(hand) = {}
    /\ Range(hand) \intersect letGo = {}
    /\ worker = "sending" <=> hand # <<>>
    /\ worker \in {"drain", "done"} => stopped
    /\ worker = "done" => queue = <<>>

\* A datagram is yet to be offered, reserved or sent, one after the other.
Early(o) == o \notin dgClaimed \/ \E p \in Publishers : loop[p].pc \in {"claimed", "cached"} /\ loop[p].obj = o
Offered(s, o) == \E p \in Publishers : loop[p].obj = o /\ s \in loop[p].todo
OneAfterOther ==
    \A s \in DatagramSubs, o \in Objects :
        /\ Early(o) \/ Offered(s, o) => <<s, o>> \notin Reserved /\ dgSent[<<s, o>>] = 0
        /\ <<s, o>> \in Reserved => dgSent[<<s, o>>] = 0

\* A subscription's reserve counts them, and with PUBLISH_DONE there are none.
ReservedOf(s) == {d \in Reserved : d[1] = s}
ReservesRight ==
    \A s \in DatagramSubs :
        /\ dgSub[s].sending = Cardinality(ReservedOf(s))
        /\ dgSub[s].done => dgSub[s].terminated /\ dgSub[s].sending = 0

DatagramInv == DatagramTypes /\ Claims /\ Apart /\ OneAfterOther /\ ReservesRight

\* The instance counts as this module does.
LEMMA DatagramLibrary ==
    (\A S : G!Cardinality(S) = Cardinality(S)) /\ \A q : G!Range(q) = Range(q)
  BY DEF G!Cardinality, Cardinality, G!Range, Range

\* A hand holds nothing, or one datagram.
LEMMA HandRange == Range(<<>>) = {} /\ \A d : Range(<<d>>) = {d} /\ <<d>> # <<>> /\ <<d>>[1] = d
  BY EmptyRange DEF Range

\* A subscription has no more datagrams reserved than there are Objects.
LEMMA ReservedTypes ==
    ASSUME DatagramTypes
    PROVE  /\ Reserved \subseteq G!Copies
           /\ \A s \in DatagramSubs : /\ IsFiniteSet(ReservedOf(s))
                                      /\ Cardinality(ReservedOf(s)) \in 0..Cardinality(Objects)
<1>1. Range(queue) \subseteq G!Copies /\ Range(hand) \subseteq G!Copies
  BY HandRange DEF DatagramTypes, Range
<1>2. Reserved \subseteq G!Copies
  BY <1>1 DEF DatagramTypes, Reserved
<1>3. ASSUME NEW s \in DatagramSubs
      PROVE  IsFiniteSet(ReservedOf(s)) /\ Cardinality(ReservedOf(s)) \in 0..Cardinality(Objects)
  <2> DEFINE Os == {<<s, o>> : o \in Objects}
  <2>1. IsFiniteSet(Os) /\ Cardinality(Os) <= Cardinality(Objects)
    <3> DEFINE f == [o \in Objects |-> <<s, o>>]
    <3>1. f \in Surjection(Objects, Os)
      BY Zenon DEF Surjection
    <3> QED BY <3>1, DatagramAssumption, FS_Surjection
  <2>2. ReservedOf(s) \subseteq Os
    BY <1>2 DEF ReservedOf, G!Copies
  <2> HIDE DEF Os
  <2> QED BY <2>1, <2>2, DatagramAssumption, FS_Subset, FS_CardinalityType
<1> QED BY <1>2, <1>3

\* What takeReadyDoneLocked leaves.
LEMMA ReadyState ==
    ASSUME NEW x \in SubStates
    PROVE  /\ G!Ready(x) \in SubStates /\ G!Ready(x).terminated = x.terminated
           /\ G!Ready(x).sending = x.sending
           /\ G!Ready(x).done <=> x.terminated /\ x.sending = 0
<1>1. CASE x.terminated /\ x.sending = 0
  <2>1. (x.terminated /\ x.sending = 0) = TRUE
    BY <1>1, Zenon
  <2>2. G!Ready(x) = [x EXCEPT !.done = TRUE]
    BY <2>1, Zenon DEF G!Ready
  <2> QED BY <1>1, <2>2, Zenon DEF SubStates
<1>2. CASE ~(x.terminated /\ x.sending = 0)
  <2>1. (x.terminated /\ x.sending = 0) = FALSE
    BY <1>2, Zenon
  <2>2. G!Ready(x) = [x EXCEPT !.done = FALSE]
    BY <2>1, Zenon DEF G!Ready
  <2> QED BY <1>2, <2>2, Zenon DEF SubStates
<1> QED BY <1>1, <1>2

\* A datagram no longer reserved gives its reserve back.
LEMMA Release ==
    ASSUME DatagramInv, NEW d \in Reserved, Reserved' = Reserved \ {d}, dgSub' = G!EndDatagram(d[1])
    PROVE  dgSub' \in [DatagramSubs -> SubStates] /\ ReservesRight'
<1>1. PICK t \in DatagramSubs : d[1] = t
  BY ReservedTypes DEF DatagramInv, G!Copies
<1>2. dgSub[t] \in SubStates
  BY DEF DatagramInv, DatagramTypes
<1> DEFINE x == [dgSub[t] EXCEPT !.sending = @ - 1]
           r == G!Ready(x)
<1>3. x \in SubStates /\ x.terminated = dgSub[t].terminated /\ x.sending = dgSub[t].sending - 1
  BY <1>2 DEF SubStates
<1>4. dgSub' = [dgSub EXCEPT ![t] = r]
  BY <1>1 DEF G!EndDatagram
<1> HIDE DEF x
<1>5. /\ r \in SubStates /\ r.terminated = dgSub[t].terminated /\ r.sending = dgSub[t].sending - 1
      /\ r.done <=> dgSub[t].terminated /\ dgSub[t].sending - 1 = 0
  BY <1>3, ReadyState, Zenon
<1> HIDE DEF r
<1>9. /\ dgSub'[t] = r /\ \A s \in DatagramSubs \ {t} : dgSub'[s] = dgSub[s]
      /\ dgSub' \in [DatagramSubs -> SubStates]
  BY <1>4, <1>5 DEF DatagramInv, DatagramTypes
<1>6. /\ d \in ReservedOf(t) /\ ReservedOf(t)' = ReservedOf(t) \ {d}
      /\ \A s \in DatagramSubs \ {t} : ReservedOf(s)' = ReservedOf(s)
  BY <1>1 DEF ReservedOf
<1>7. Cardinality(ReservedOf(t)') = Cardinality(ReservedOf(t)) - 1
  BY <1>6, ReservedTypes, FS_RemoveElement, Zenon DEF DatagramInv
<1>8. ReservesRight'
  BY <1>5, <1>6, <1>7, <1>9, ZenonT(60) DEF DatagramInv, ReservesRight
<1> QED BY <1>8, <1>9

\* The receive loops, until they fan an Object out.
LEMMA ReceiveStep ==
    ASSUME DatagramInv, NEW p \in Publishers, NEW o \in Objects, G!Receive(p, o)
    PROVE  DatagramInv'
<1>1. /\ loop[p].pc = "idle" /\ came' = came \union {<<p, o>>} /\ dgClaimed' = dgClaimed \union {o}
      /\ loop' = IF o \in dgClaimed THEN loop
                 ELSE [loop EXCEPT ![p] = [pc |-> "claimed", obj |-> o, todo |-> {}]]
      /\ UNCHANGED <<dgCached, dgLargest, on, dgSub, queue, stopped, sessDone, worker, hand,
                     letGo, dgSent>>
  BY DEF G!Receive
<1>2. Reserved' = Reserved /\ \A s \in DatagramSubs : ReservedOf(s)' = ReservedOf(s)
  BY <1>1 DEF Reserved, ReservedOf
<1>3. DatagramTypes'
  BY <1>1 DEF DatagramInv, DatagramTypes
<1>4. CASE o \in dgClaimed
  <2>1. dgClaimed' = dgClaimed /\ loop' = loop
    BY <1>1, <1>4
  <2>2. Claims' /\ Apart' /\ OneAfterOther' /\ ReservesRight'
    BY <1>1, <1>2, <2>1 DEF DatagramInv, Claims, Apart, OneAfterOther, Early, Offered,
       ReservesRight
  <2> QED BY <1>3, <2>2 DEF DatagramInv
<1>5. CASE o \notin dgClaimed
  <2>1. /\ loop'[p].pc = "claimed" /\ loop'[p].obj = o /\ loop'[p].todo = {}
        /\ \A q \in Publishers \ {p} : loop'[q] = loop[q]
    BY <1>1, <1>5 DEF DatagramInv, DatagramTypes
  <2>2. Claims'
    BY <1>1, <1>5, <2>1 DEF DatagramInv, Claims
  <2>3. \A r \in Objects, s \in DatagramSubs :
            (Early(r)' => Early(r)) /\ (Offered(s, r)' => Offered(s, r))
    BY <1>1, <1>5, <2>1 DEF Early, Offered
  <2>4. OneAfterOther'
    BY <1>1, <1>2, <2>3, Zenon DEF DatagramInv, OneAfterOther
  <2>5. Apart' /\ ReservesRight'
    BY <1>1, <1>2 DEF DatagramInv, Apart, ReservesRight
  <2> QED BY <1>3, <2>2, <2>4, <2>5 DEF DatagramInv
<1> QED BY <1>4, <1>5

\* An Object is put in the cache and becomes the Largest; then its loop offers
\* it to the subscriptions of the moment, or to none.
LEMMA LoopStep ==
    ASSUME DatagramInv, NEW p \in Publishers, G!PutDatagram(p) \/ G!UpdateLargest(p) \/ G!NoSubscribers(p)
    PROVE  DatagramInv'
<1>1. /\ UNCHANGED <<came, dgClaimed, on, dgSub, queue, stopped, sessDone, worker, hand,
                     letGo, dgSent>>
      /\ \A q \in Publishers \ {p} : loop'[q] = loop[q]
      /\ loop' \in [Publishers -> [pc : {"idle", "claimed", "cached", "fan"},
                                   obj : {0} \union Objects, todo : SUBSET DatagramSubs]]
      /\ dgCached' \subseteq Objects /\ dgLargest' \in {0} \union Objects
      /\ \/ loop[p].pc = "claimed" /\ loop'[p].pc = "cached" /\ loop'[p].obj = loop[p].obj /\ loop'[p].todo = loop[p].todo
         \/ loop[p].pc = "cached" /\ loop'[p].pc = "fan" /\ loop'[p].obj = loop[p].obj
         \/ loop[p].todo = {} /\ loop'[p].pc = "idle" /\ loop'[p].todo = {}
  <2>1. loop[p] \in [pc : {"idle", "claimed", "cached", "fan"}, obj : {0} \union Objects, todo : SUBSET DatagramSubs]
    BY DEF DatagramInv, DatagramTypes
  <2>2. CASE G!PutDatagram(p)
    <3>1. loop[p].pc = "claimed" /\ loop[p].obj \in Objects
      BY <2>2 DEF G!PutDatagram, DatagramInv, DatagramTypes, Claims
    <3> QED BY <2>1, <2>2, <3>1, Zenon DEF G!PutDatagram, DatagramInv, DatagramTypes
  <2>3. CASE G!UpdateLargest(p)
    BY <2>1, <2>3, ZenonT(60) DEF G!UpdateLargest, DatagramInv, DatagramTypes
  <2>4. CASE G!NoSubscribers(p)
    BY <2>1, <2>4 DEF G!NoSubscribers, G!Quiet, DatagramInv, DatagramTypes
  <2> QED BY <2>2, <2>3, <2>4
<1>2. Reserved' = Reserved /\ \A s \in DatagramSubs : ReservedOf(s)' = ReservedOf(s)
  BY <1>1 DEF Reserved, ReservedOf
<1>3. DatagramTypes'
  BY <1>1 DEF DatagramInv, DatagramTypes
<1>4. Claims'
  BY <1>1 DEF DatagramInv, Claims
<1>5. \A r \in Objects, s \in DatagramSubs :
          Early(r)' \/ Offered(s, r)' => Early(r) \/ Offered(s, r)
  BY <1>1 DEF DatagramInv, Claims, Early, Offered
<1>6. OneAfterOther'
  BY <1>1, <1>2, <1>5, Zenon DEF DatagramInv, OneAfterOther
<1>7. Apart' /\ ReservesRight'
  BY <1>1, <1>2 DEF DatagramInv, Apart, ReservesRight
<1> QED BY <1>3, <1>4, <1>6, <1>7 DEF DatagramInv

\* A subscription's turn: its datagram is reserved and queued, or turned away.
LEMMA EnqueueStep ==
    ASSUME DatagramInv, NEW p \in Publishers, NEW s \in DatagramSubs, G!Enqueue(p, s)
    PROVE  DatagramInv'
<1>1. /\ loop[p].pc = "fan" /\ s \in loop[p].todo
      /\ loop' = [loop EXCEPT ![p] = IF loop[p].todo = {s} THEN [pc |-> "idle", obj |-> 0, todo |-> {}]
                                     ELSE [loop[p] EXCEPT !.todo = @ \ {s}]]
      /\ UNCHANGED <<came, dgClaimed, dgCached, dgLargest, on, stopped, sessDone, hand,
                     dgSent>>
  BY DEF G!Enqueue, G!Quiet
<1>2. PICK o \in Objects : o = loop[p].obj
  BY <1>1 DEF DatagramInv, DatagramTypes, Claims
<1>3. loop[p] \in [pc : {"idle", "claimed", "cached", "fan"}, obj : {0} \union Objects, todo : SUBSET DatagramSubs]
  BY DEF DatagramInv, DatagramTypes
<1>4. /\ \A q \in Publishers \ {p} : loop'[q] = loop[q]
      /\ loop' \in [Publishers -> [pc : {"idle", "claimed", "cached", "fan"},
                                   obj : {0} \union Objects, todo : SUBSET DatagramSubs]]
      /\ loop'[p].todo = loop[p].todo \ {s}
      /\ \/ loop'[p].pc = "fan" /\ loop'[p].obj = o
         \/ loop'[p].pc = "idle" /\ loop'[p].todo = {}
  <2>1. CASE loop[p].todo = {s}
    BY <1>1, <1>2, <1>3, <2>1 DEF DatagramInv, DatagramTypes
  <2>2. CASE loop[p].todo # {s}
    BY <1>1, <1>2, <1>3, <2>2, SMTT(60) DEF DatagramInv, DatagramTypes
  <2> QED BY <2>1, <2>2
<1>5. Claims'
  BY <1>1, <1>2, <1>4 DEF DatagramInv, Claims
<1>6. \A r \in Objects, t \in DatagramSubs :
          Early(r)' \/ Offered(t, r)' => (Early(r) \/ Offered(t, r)) /\ ~(t = s /\ r = o)
  <2> SUFFICES ASSUME NEW r \in Objects, NEW t \in DatagramSubs
               PROVE  Early(r)' \/ Offered(t, r)' => (Early(r) \/ Offered(t, r)) /\ ~(t = s /\ r = o)
    OBVIOUS
  <2>1. Early(r)' => Early(r) /\ r # o
    BY <1>1, <1>2, <1>4 DEF DatagramInv, Claims, Early
  <2>2. Offered(t, r)' => Offered(t, r) /\ ~(t = s /\ r = o)
    BY <1>1, <1>2, <1>4 DEF DatagramInv, Claims, Offered
  <2> QED BY <2>1, <2>2
<1>7. <<s, o>> \notin Reserved /\ dgSent[<<s, o>>] = 0 /\ <<s, o>> \in G!Copies
  BY <1>1, <1>2 DEF DatagramInv, OneAfterOther, Offered, G!Copies
<1>8. CASE stopped \/ dgSub[s].terminated
  <2>1. UNCHANGED <<dgSub, queue, letGo, worker>>
    BY <1>8 DEF G!Enqueue
  <2>2. Reserved' = Reserved /\ \A t \in DatagramSubs : ReservedOf(t)' = ReservedOf(t)
    BY <1>1, <2>1 DEF Reserved, ReservedOf
  <2>3. DatagramTypes'
    BY <1>1, <1>4, <2>1 DEF DatagramInv, DatagramTypes
  <2>4. OneAfterOther'
    BY <1>1, <1>6, <2>2, Zenon DEF DatagramInv, OneAfterOther
  <2>5. Apart' /\ ReservesRight'
    BY <1>1, <2>1, <2>2 DEF DatagramInv, Apart, ReservesRight
  <2> QED BY <1>5, <2>3, <2>4, <2>5 DEF DatagramInv
<1>9. CASE ~(stopped \/ dgSub[s].terminated)
  <2>1. /\ dgSub' = [dgSub EXCEPT ![s].sending = @ + 1]
        /\ worker' = IF worker = "none" THEN "select" ELSE worker
        /\ \/ Len(queue) < sendQueueSize /\ queue' = Append(queue, <<s, o>>) /\ UNCHANGED letGo
           \/ letGo' = letGo \union {<<s, o>>} /\ UNCHANGED queue
    BY <1>2, <1>9 DEF G!Enqueue
  <2>2. /\ queue' \in Seq(G!Copies) /\ Len(queue') <= sendQueueSize
        /\ Distinct(queue')
        /\ \/ Range(queue') = Range(queue) \union {<<s, o>>} /\ UNCHANGED letGo
           \/ letGo' = letGo \union {<<s, o>>} /\ UNCHANGED queue
    <3>1. queue \in Seq(G!Copies) /\ Len(queue) <= sendQueueSize /\ Distinct(queue) /\ <<s, o>> \notin Range(queue)
      BY <1>7 DEF DatagramInv, DatagramTypes, Apart, Reserved
    <3>2. CASE Len(queue) < sendQueueSize /\ queue' = Append(queue, <<s, o>>) /\ UNCHANGED letGo
      <4>1. /\ queue' \in Seq(G!Copies) /\ Range(queue') = Range(queue) \union {<<s, o>>}
            /\ Len(queue') = Len(queue) + 1 /\ Distinct(queue')
        BY <1>7, <3>1, <3>2, RangeAppend, ZenonT(60)
      <4>2. Len(queue') <= sendQueueSize
        BY <3>1, <3>2, <4>1, DatagramAssumption
      <4> QED BY <3>2, <4>1, <4>2, Zenon
    <3>3. CASE letGo' = letGo \union {<<s, o>>} /\ UNCHANGED queue
      BY <3>1, <3>3
    <3> QED BY <2>1, <3>2, <3>3
  <2>3. Reserved' = Reserved \union {<<s, o>>}
    BY <1>1, <2>2 DEF Reserved
  <2>4. /\ dgSub' \in [DatagramSubs -> SubStates] /\ dgSub'[s].sending = dgSub[s].sending + 1
        /\ dgSub'[s].terminated = dgSub[s].terminated /\ dgSub'[s].done = dgSub[s].done
        /\ \A t \in DatagramSubs \ {s} : dgSub'[t] = dgSub[t]
    <3>1. dgSub[s] \in SubStates
      BY DEF DatagramInv, DatagramTypes
    <3> DEFINE r == [dgSub[s] EXCEPT !.sending = @ + 1]
    <3>2. /\ r \in SubStates /\ r.sending = dgSub[s].sending + 1
          /\ r.terminated = dgSub[s].terminated /\ r.done = dgSub[s].done
      BY <3>1 DEF SubStates
    <3>3. dgSub' = [dgSub EXCEPT ![s] = r]
      BY <2>1
    <3> HIDE DEF r
    <3> QED BY <3>2, <3>3 DEF DatagramInv, DatagramTypes
  <2>5. DatagramTypes'
    <3>1. letGo' \subseteq G!Copies
      BY <1>7, <2>2, SMTT(60) DEF DatagramInv, DatagramTypes
    <3>2. worker' \in {"none", "select", "sending", "exit", "drain", "done"}
      BY <2>1 DEF DatagramInv, DatagramTypes
    <3> QED BY <1>1, <1>4, <2>2, <2>4, <3>1, <3>2 DEF DatagramInv, DatagramTypes
  <2>6. Apart'
    <3>1. Range(queue') \intersect letGo' = {} /\ Range(queue') \intersect Range(hand') = {}
          /\ Range(hand') \intersect letGo' = {}
      BY <1>1, <1>7, <2>2 DEF DatagramInv, Apart, Reserved
    <3>2. worker' = "sending" <=> hand' # <<>>
      BY <1>1, <2>1 DEF DatagramInv, Apart
    <3>3. worker' \notin {"drain", "done"}
      BY <1>9, <2>1 DEF DatagramInv, Apart
    <3> QED BY <2>2, <3>1, <3>2, <3>3 DEF Apart
  <2>7. OneAfterOther'
    <3> SUFFICES ASSUME NEW t \in DatagramSubs, NEW r \in Objects
                 PROVE  /\ Early(r)' \/ Offered(t, r)' => <<t, r>> \notin Reserved' /\ dgSent'[<<t, r>>] = 0
                        /\ <<t, r>> \in Reserved' => dgSent'[<<t, r>>] = 0
      BY Zenon DEF OneAfterOther
    <3>1. <<t, r>> \in Reserved' <=> <<t, r>> \in Reserved \/ (t = s /\ r = o)
      BY <2>3
    <3>2. dgSent'[<<t, r>>] = dgSent[<<t, r>>]
      BY <1>1
    <3> QED BY <1>6, <1>7, <3>1, <3>2 DEF DatagramInv, OneAfterOther
  <2>8. ReservesRight'
    <3>1. /\ <<s, o>> \notin ReservedOf(s) /\ ReservedOf(s)' = ReservedOf(s) \union {<<s, o>>}
          /\ \A t \in DatagramSubs \ {s} : ReservedOf(t)' = ReservedOf(t)
      BY <1>7, <2>3 DEF ReservedOf
    <3>2. Cardinality(ReservedOf(s)') = Cardinality(ReservedOf(s)) + 1
      BY <3>1, ReservedTypes, FS_AddElement, ZenonT(60) DEF DatagramInv
    <3>3. ~dgSub[s].done
      BY <1>9 DEF DatagramInv, ReservesRight
    <3> QED BY <2>4, <3>1, <3>2, <3>3, Zenon DEF DatagramInv, ReservesRight
  <2> QED BY <1>5, <2>5, <2>6, <2>7, <2>8 DEF DatagramInv
<1> QED BY <1>8, <1>9

\* What leaves the reserve: a datagram let go, dropped or sent by the worker,
\* or drained from the queue of one that stopped.
LEMMA ReleaseStep ==
    ASSUME DatagramInv, NEW d \in Reserved, Reserved' = Reserved \ {d}, dgSub' = G!EndDatagram(d[1]),
           dgSent' = dgSent \/ dgSent' = [dgSent EXCEPT ![d] = @ + 1],
           queue' \in Seq(G!Copies), Len(queue') <= sendQueueSize,
           letGo' \subseteq G!Copies, hand' = hand \/ hand' = <<>>,
           worker' \in {"none", "select", "sending", "exit", "drain", "done"},
           Apart', UNCHANGED <<came, loop, dgClaimed, dgCached, dgLargest, on, stopped,
                               sessDone>>
    PROVE  DatagramInv'
<1>1. dgSub' \in [DatagramSubs -> SubStates] /\ ReservesRight'
  BY Release
<1>2. d \in G!Copies
  BY ReservedTypes DEF DatagramInv
<1>3. \A s \in DatagramSubs, o \in Objects : <<s, o>> \in G!Copies
  BY DEF G!Copies
<1>4. dgSent[d] = 0
  BY <1>2 DEF DatagramInv, OneAfterOther, G!Copies
<1>5. dgSent' \in [G!Copies -> {0, 1}] /\ \A c \in G!Copies \ {d} : dgSent'[c] = dgSent[c]
  BY <1>2, <1>4, SMTT(60) DEF DatagramInv, DatagramTypes
<1>6. DatagramTypes'
  BY <1>1, <1>5 DEF DatagramInv, DatagramTypes
<1>7. Claims'
  BY DEF DatagramInv, Claims
<1>8. OneAfterOther'
  <2> SUFFICES ASSUME NEW s \in DatagramSubs, NEW o \in Objects
               PROVE  /\ Early(o)' \/ Offered(s, o)' => <<s, o>> \notin Reserved' /\ dgSent'[<<s, o>>] = 0
                      /\ <<s, o>> \in Reserved' => dgSent'[<<s, o>>] = 0
    BY Zenon DEF OneAfterOther
  <2>1. (Early(o)' <=> Early(o)) /\ (Offered(s, o)' <=> Offered(s, o))
    BY DEF Early, Offered
  <2>2. Early(o) \/ Offered(s, o) => <<s, o>> # d
    BY DEF DatagramInv, OneAfterOther
  <2> QED BY <1>3, <1>5, <2>1, <2>2 DEF DatagramInv, OneAfterOther
<1> QED BY <1>1, <1>6, <1>7, <1>8 DEF DatagramInv

\* A datagram turned away.
LEMMA LetGoStep ==
    ASSUME DatagramInv, NEW d \in G!Copies, G!LetGo(d)
    PROVE  DatagramInv'
<1>1. /\ d \in letGo /\ letGo' = letGo \ {d} /\ dgSub' = G!EndDatagram(d[1])
      /\ UNCHANGED <<came, loop, dgClaimed, dgCached, dgLargest, on, queue, stopped,
                     sessDone, worker, hand, dgSent>>
  BY DEF G!LetGo, G!entryVars
<1>2. d \in Reserved /\ Reserved' = Reserved \ {d}
  BY <1>1 DEF DatagramInv, Apart, Reserved
<1>3. Apart'
  BY <1>1 DEF DatagramInv, Apart
<1> QED BY <1>1, <1>2, <1>3, ReleaseStep DEF DatagramInv, DatagramTypes

\* The worker drops or sends the datagram in its hand.
LEMMA HandStep ==
    ASSUME DatagramInv, G!WorkerDrops \/ G!WorkerSends
    PROVE  DatagramInv'
<1>1. worker = "sending" /\ hand # <<>>
  BY DEF G!WorkerDrops, G!WorkerSends, DatagramInv, Apart
<1>2. PICK d \in G!Copies : hand = <<d>>
  BY <1>1 DEF DatagramInv, DatagramTypes
<1>3. hand[1] = d /\ Range(hand) = {d}
  BY <1>2, HandRange
<1>4. /\ hand' = <<>> /\ worker' = "select" /\ dgSub' = G!EndDatagram(d[1])
      /\ dgSent' = dgSent \/ dgSent' = [dgSent EXCEPT ![d] = @ + 1]
      /\ UNCHANGED <<came, loop, dgClaimed, dgCached, dgLargest, on, queue, stopped,
                     sessDone, letGo>>
  BY <1>3 DEF G!WorkerDrops, G!WorkerSends, G!Released, G!entryVars
<1>5. d \in Reserved /\ Reserved' = Reserved \ {d}
  BY <1>3, <1>4, HandRange DEF DatagramInv, Apart, Reserved
<1>6. Apart'
  BY <1>4, HandRange DEF DatagramInv, Apart
<1> QED BY <1>4, <1>5, <1>6, ReleaseStep DEF DatagramInv, DatagramTypes

\* The worker drains its queue, and returns when it is empty.
LEMMA DrainStep ==
    ASSUME DatagramInv, G!WorkerDrains
    PROVE  DatagramInv'
<1>1. /\ worker = "drain" /\ stopped /\ hand = <<>>
      /\ UNCHANGED <<came, loop, dgClaimed, dgCached, dgLargest, on, stopped, sessDone,
                     hand, letGo, dgSent>>
  BY DEF G!WorkerDrains, G!entryVars, DatagramInv, Apart
<1>2. CASE queue = <<>>
  <2>1. worker' = "done" /\ UNCHANGED <<queue, dgSub>>
    BY <1>2 DEF G!WorkerDrains
  <2>2. Reserved' = Reserved /\ \A s \in DatagramSubs : ReservedOf(s)' = ReservedOf(s)
    BY <1>1, <2>1 DEF Reserved, ReservedOf
  <2>3. DatagramTypes'
    BY <1>1, <2>1, SMTT(60) DEF DatagramInv, DatagramTypes
  <2>4. Claims' /\ OneAfterOther' /\ ReservesRight'
    BY <1>1, <2>1, <2>2 DEF DatagramInv, Claims, OneAfterOther, Early, Offered,
       ReservesRight
  <2>5. Apart'
    BY <1>1, <1>2, <2>1, SMTT(60) DEF DatagramInv, Apart
  <2> QED BY <2>3, <2>4, <2>5 DEF DatagramInv
<1>3. CASE queue # <<>>
  <2>1. queue' = Tail(queue) /\ dgSub' = G!EndDatagram(Head(queue)[1]) /\ UNCHANGED worker
    BY <1>3 DEF G!WorkerDrains
  <2>2. queue \in Seq(G!Copies) /\ Distinct(queue) /\ Len(queue) <= sendQueueSize
    BY DEF DatagramInv, DatagramTypes, Apart
  <2>3. /\ Tail(queue) \in Seq(G!Copies) /\ Len(Tail(queue)) = Len(queue) - 1
        /\ Head(queue) \in G!Copies /\ Range(queue) = Range(Tail(queue)) \union {Head(queue)}
        /\ Distinct(Tail(queue)) /\ Head(queue) \notin Range(Tail(queue))
    BY <1>3, <2>2, RangeTail
  <2>4. PICK d \in G!Copies : d = Head(queue)
    BY <2>3
  <2>5. d \in Reserved /\ Reserved' = Reserved \ {d}
    BY <1>1, <2>1, <2>3, <2>4, HandRange DEF DatagramInv, Apart, Reserved
  <2>6. Len(queue') <= sendQueueSize
    BY <2>1, <2>2, <2>3, DatagramAssumption
  <2>7. Apart'
    BY <1>1, <2>1, <2>3 DEF DatagramInv, Apart
  <2> QED BY <1>1, <2>1, <2>3, <2>4, <2>5, <2>6, <2>7, ReleaseStep DEF DatagramInv,
        DatagramTypes
<1> QED BY <1>2, <1>3

\* The worker takes the next datagram, or stops; the writer and the session end.
LEMMA WorkerStep ==
    ASSUME DatagramInv, G!WorkerTakes \/ G!WorkerStops \/ G!WorkerExits \/ G!Stop \/ G!SessionEnds
    PROVE  DatagramInv'
<1>1. UNCHANGED <<came, loop, dgClaimed, dgCached, dgLargest, on, dgSub, letGo, dgSent>>
  BY DEF G!WorkerTakes, G!WorkerStops, G!WorkerExits, G!Stop, G!SessionEnds, G!entryVars
<1>2. CASE G!WorkerTakes
  <2>1. /\ worker = "select" /\ queue # <<>> /\ hand = <<>>
        /\ hand' = <<Head(queue)>> /\ queue' = Tail(queue) /\ worker' = "sending"
        /\ UNCHANGED <<stopped, sessDone>>
    BY <1>2 DEF G!WorkerTakes, DatagramInv, Apart
  <2>2. queue \in Seq(G!Copies) /\ Distinct(queue) /\ Len(queue) <= sendQueueSize
    BY DEF DatagramInv, DatagramTypes, Apart
  <2>3. /\ Tail(queue) \in Seq(G!Copies) /\ Len(Tail(queue)) = Len(queue) - 1
        /\ Head(queue) \in G!Copies /\ Range(queue) = Range(Tail(queue)) \union {Head(queue)}
        /\ Distinct(Tail(queue)) /\ Head(queue) \notin Range(Tail(queue))
    BY <2>1, <2>2, RangeTail
  <2>4. PICK d \in G!Copies : d = Head(queue)
    BY <2>3
  <2>5. hand' = <<d>> /\ Range(hand') = {d} /\ hand' # <<>>
    BY <2>1, <2>4, HandRange
  <2>6. Reserved' = Reserved /\ \A s \in DatagramSubs : ReservedOf(s)' = ReservedOf(s)
    <3>1. Reserved' = Reserved
      BY <1>1, <2>1, <2>3, <2>4, <2>5, HandRange DEF Reserved
    <3> QED BY <3>1 DEF ReservedOf
  <2>7. DatagramTypes'
    <3>1. Len(queue') <= sendQueueSize
      BY <2>1, <2>2, <2>3, DatagramAssumption
    <3> QED BY <1>1, <2>1, <2>3, <2>5, <3>1 DEF DatagramInv, DatagramTypes
  <2>8. Apart'
    BY <1>1, <2>1, <2>3, <2>4, <2>5, SMTT(60) DEF DatagramInv, Apart
  <2>9. Claims' /\ OneAfterOther' /\ ReservesRight'
    BY <1>1, <2>6 DEF DatagramInv, Claims, OneAfterOther, Early, Offered, ReservesRight
  <2> QED BY <2>7, <2>8, <2>9 DEF DatagramInv
<1>3. CASE G!WorkerStops \/ G!WorkerExits \/ G!Stop \/ G!SessionEnds
  <2>1. /\ UNCHANGED <<queue, hand>> /\ stopped' \in BOOLEAN /\ sessDone' \in BOOLEAN
        /\ worker' \in {"none", "select", "sending", "exit", "drain", "done"}
    BY <1>3, Zenon DEF G!WorkerStops, G!WorkerExits, G!Stop, G!SessionEnds, DatagramInv,
       DatagramTypes
  <2>2. Reserved' = Reserved /\ \A s \in DatagramSubs : ReservedOf(s)' = ReservedOf(s)
    BY <1>1, <2>1 DEF Reserved, ReservedOf
  <2>3. DatagramTypes'
    BY <1>1, <2>1 DEF DatagramInv, DatagramTypes
  <2>4. Apart'
    BY <1>1, <1>3, <2>1 DEF DatagramInv, DatagramTypes, Apart, G!WorkerStops, G!WorkerExits,
       G!Stop, G!SessionEnds
  <2>5. Claims' /\ OneAfterOther' /\ ReservesRight'
    BY <1>1, <2>2 DEF DatagramInv, Claims, OneAfterOther, Early, Offered, ReservesRight
  <2> QED BY <2>3, <2>4, <2>5 DEF DatagramInv
<1> QED BY <1>2, <1>3

\* A subscription ends; its PUBLISH_DONE waits for what is reserved.
LEMMA TerminateStep ==
    ASSUME DatagramInv, NEW s \in DatagramSubs, G!Terminate(s)
    PROVE  DatagramInv'
<1> DEFINE x == [dgSub[s] EXCEPT !.terminated = TRUE]
           r == G!Ready(x)
<1>1. /\ dgSub' = [dgSub EXCEPT ![s] = r] /\ on' = on \ {s}
      /\ UNCHANGED <<came, loop, dgClaimed, dgCached, dgLargest, queue, stopped, sessDone,
                     worker, hand, letGo, dgSent>>
  BY DEF G!Terminate
<1>2. dgSub[s] \in SubStates
  BY DEF DatagramInv, DatagramTypes
<1>3. x \in SubStates /\ x.terminated /\ x.sending = dgSub[s].sending
  BY <1>2, Zenon DEF SubStates
<1> HIDE DEF x
<1>4. /\ r \in SubStates /\ r.terminated /\ r.sending = dgSub[s].sending
      /\ r.done => r.sending = 0
  BY <1>3, ReadyState
<1> HIDE DEF r
<1>5. /\ dgSub'[s] = r /\ dgSub' \in [DatagramSubs -> SubStates]
      /\ \A t \in DatagramSubs \ {s} : dgSub'[t] = dgSub[t]
  BY <1>1, <1>4 DEF DatagramInv, DatagramTypes
<1>6. Reserved' = Reserved /\ \A t \in DatagramSubs : ReservedOf(t)' = ReservedOf(t)
  BY <1>1 DEF Reserved, ReservedOf
<1>7. DatagramTypes'
  BY <1>1, <1>5 DEF DatagramInv, DatagramTypes
<1>8. Claims' /\ Apart' /\ OneAfterOther'
  BY <1>1, <1>6, SMTT(60) DEF DatagramInv, Claims, Apart, OneAfterOther, Early, Offered
<1>9. ReservesRight'
  BY <1>4, <1>5, <1>6 DEF DatagramInv, ReservesRight
<1> QED BY <1>7, <1>8, <1>9 DEF DatagramInv

\* At first no datagram has come.
LEMMA DatagramInit == G!Init => DatagramInv
<1> SUFFICES ASSUME G!Init PROVE DatagramInv
  OBVIOUS
<1>1. dgSub \in [DatagramSubs -> SubStates] /\ \A s \in DatagramSubs : dgSub[s].sending = 0 /\ ~dgSub[s].done
  BY DEF G!Init, SubStates
<1>2. stopped \in BOOLEAN /\ sessDone \in BOOLEAN
  BY Zenon DEF G!Init
<1>3. queue \in Seq(G!Copies) /\ Len(queue) = 0
  BY DEF G!Init
<1>4. DatagramTypes
  BY <1>1, <1>2, <1>3, DatagramAssumption DEF G!Init, G!Quiet, DatagramTypes
<1>5. Reserved = {} /\ \A s \in DatagramSubs : ReservedOf(s) = {}
  BY HandRange DEF G!Init, Reserved, ReservedOf
<1>6. Claims /\ OneAfterOther
  BY <1>5 DEF G!Init, G!Quiet, Claims, OneAfterOther, G!Copies
<1>7. Apart
  BY EmptyRange DEF G!Init, Apart
<1>8. ReservesRight
  BY <1>1, <1>5, FS_EmptySet DEF ReservesRight
<1> QED BY <1>4, <1>6, <1>7, <1>8 DEF DatagramInv

\* Every step of the loops, the worker and the subscriptions keeps it.
LEMMA DatagramStep == DatagramInv /\ [G!Next]_G!vars => DatagramInv'
<1> SUFFICES ASSUME DatagramInv, [G!Next]_G!vars PROVE DatagramInv'
  OBVIOUS
<1>1. CASE UNCHANGED G!vars
  <2>1. UNCHANGED <<came, loop, dgClaimed, dgCached, dgLargest, on, dgSub, queue, stopped,
                    sessDone, worker, hand, letGo, dgSent>>
    BY <1>1 DEF G!vars, G!entryVars
  <2>2. Reserved' = Reserved /\ \A s \in DatagramSubs : ReservedOf(s)' = ReservedOf(s)
    BY <2>1 DEF Reserved, ReservedOf
  <2>3. DatagramTypes'
    BY <2>1, SMTT(60) DEF DatagramInv, DatagramTypes
  <2>4. Claims' /\ Apart' /\ OneAfterOther' /\ ReservesRight'
    BY <2>1, <2>2 DEF DatagramInv, Claims, Apart, OneAfterOther, Early, Offered,
       ReservesRight
  <2> QED BY <2>3, <2>4 DEF DatagramInv
<1>2. CASE G!Next
  BY <1>2, ReceiveStep, LoopStep, EnqueueStep, LetGoStep, HandStep, DrainStep, WorkerStep,
     TerminateStep
     DEF G!Next, G!Run
<1> QED BY <1>1, <1>2

\* Reserves that are right are exact.
LEMMA DatagramSafe == DatagramInv => DatagramsAccounted
<1> SUFFICES ASSUME DatagramInv PROVE DatagramsAccounted
  OBVIOUS
<1>1. Reserved \subseteq G!Copies
  BY ReservedTypes DEF DatagramInv
<1>2. \A s \in DatagramSubs : G!Pending(s) = ReservedOf(s)
  BY <1>1, DatagramLibrary DEF G!Pending, ReservedOf, Reserved
<1>3. \A s \in DatagramSubs : dgSub[s].sending \in 0..Cardinality(Objects)
  BY ReservedTypes DEF DatagramInv, ReservesRight
<1>4. G!TypeOK
  <2>1. dgSub \in [DatagramSubs -> [terminated : BOOLEAN, sending : 0..G!Cardinality(Objects), done : BOOLEAN]]
    BY <1>3, DatagramLibrary DEF DatagramInv, DatagramTypes, SubStates
  <2>2. Len(hand) <= 1
    <3>1. Len(<<>>) = 0 /\ \A d : Len(<<d>>) = 1
      OBVIOUS
    <3>2. hand = <<>> \/ \E d \in G!Copies : hand = <<d>>
      BY DEF DatagramInv, DatagramTypes
    <3>3. CASE hand = <<>>
      BY <3>1, <3>3
    <3>4. CASE \E d \in G!Copies : hand = <<d>>
      <4>1. Len(hand) = 1
        BY <3>1, <3>4
      <4> QED BY <4>1
    <3> QED BY <3>2, <3>3, <3>4
  <2>3. G!Range(queue) \subseteq G!Copies
    BY <1>1, DatagramLibrary DEF Reserved
  <2>4. 0..1 = {0, 1}
    OBVIOUS
  <2>5. \A p \in Publishers : loop[p].pc \in {"idle", "claimed", "cached", "fan"}
    BY DEF DatagramInv, DatagramTypes
  <2> QED BY <2>1, <2>2, <2>3, <2>4, <2>5 DEF DatagramInv, DatagramTypes, G!TypeOK
<1>5. G!OfferedOnce
  <2> SUFFICES ASSUME NEW s \in DatagramSubs, NEW o \in Objects
               PROVE  G!Cardinality({p \in Publishers : loop[p].obj = o /\ s \in loop[p].todo})
                      + G!Cardinality(G!Pending(s) \intersect {<<s, o>>}) + dgSent[<<s, o>>] <= 1
    BY Zenon DEF G!OfferedOnce
  <2> DEFINE Os == {p \in Publishers : loop[p].obj = o /\ s \in loop[p].todo}
             Rs == ReservedOf(s) \intersect {<<s, o>>}
  <2>1. Cardinality(Os) = IF Offered(s, o) THEN 1 ELSE 0
    <3>1. \A p, q \in Os : p = q
      BY DEF DatagramInv, Claims
    <3>2. Os = {} <=> ~Offered(s, o)
      BY DEF Offered
    <3> HIDE DEF Os
    <3> QED BY <3>1, <3>2, AtMostOne
  <2>2. Cardinality(Rs) = IF <<s, o>> \in Reserved THEN 1 ELSE 0
    <3>1. \A p, q \in Rs : p = q
      OBVIOUS
    <3>2. Rs = {} <=> <<s, o>> \notin Reserved
      BY DEF ReservedOf
    <3> HIDE DEF Rs
    <3> QED BY <3>1, <3>2, AtMostOne
  <2>3. dgSent[<<s, o>>] \in {0, 1}
    BY DEF DatagramInv, DatagramTypes, G!Copies
  <2>4. G!Cardinality({p \in Publishers : loop[p].obj = o /\ s \in loop[p].todo}) = Cardinality(Os)
        /\ G!Cardinality(G!Pending(s) \intersect {<<s, o>>}) = Cardinality(Rs)
    BY <1>2, DatagramLibrary
  <2> HIDE DEF Os, Rs
  <2> QED BY <2>1, <2>2, <2>3, <2>4 DEF DatagramInv, OneAfterOther
<1>6. G!ReservesExact
  BY <1>2, DatagramLibrary DEF DatagramInv, ReservesRight, G!ReservesExact
<1>7. G!NoDatagramPastDone
  <2> SUFFICES ASSUME NEW s \in DatagramSubs, dgSub[s].done PROVE G!Pending(s) = {}
    BY DEF G!NoDatagramPastDone
  <2>1. Cardinality(ReservedOf(s)) = 0
    BY DEF DatagramInv, ReservesRight
  <2>2. IsFiniteSet(ReservedOf(s))
    BY ReservedTypes DEF DatagramInv
  <2> QED BY <1>2, <2>1, <2>2, FS_EmptySet
<1>8. G!NothingStranded
  BY DEF DatagramInv, Apart, G!NothingStranded
<1> QED BY <1>4, <1>5, <1>6, <1>7, <1>8 DEF DatagramsAccounted, G!DatagramsAccounted

\* However many publishers send the same Objects, subscriptions end and queues
\* fill up or are drained, no datagram is offered twice, lost from its
\* subscription's reserve or sent past its PUBLISH_DONE (handler_datagram.go,
\* datagram_writer.go).
THEOREM DatagramsAccountedHolds == G!Spec => []DatagramsAccounted
<1>1. DatagramInv /\ [G!Next]_G!vars => DatagramInv'
  BY DatagramStep
<1> QED BY DatagramInit, DatagramSafe, <1>1, PTL DEF G!Spec
-----------------------------------------------------------------------------
(* Publication. *)
CONSTANTS
    Opens, Enders, MaxObject,
    NoStreams       \* the set of open streams once it is taken

ASSUME PublicationAssumption ==
    IsFiniteSet(Opens) /\ NoStreams \notin Opens /\ MaxObject \in Nat

VARIABLES
    st, attributed, reset, pubWriter, next, datagram, pubLargest, sent, paused,
    ended, cancelled, open, count, ender, taken, streamCount

P == INSTANCE Publication WITH
    None <- NoStreams, largest <- pubLargest, writer <- pubWriter

\* PUBLISH_DONE is true when it is written: it comes after every datagram and
\* the end of every stream the subscriber saw, with their exact number, however
\* opens and sends race Done (publish.go).
DoneIsTrue == P!TypeOK /\ P!DoneIsTrue

\* The streams in one of the states S.
StreamsIn(S) == {o \in Opens : st[o] \in S}

PublicationTypes ==
    /\ st \in [Opens -> {"idle", "opening", "written", "open", "fin", "failed"}]
    /\ attributed \subseteq Opens /\ reset \subseteq Opens
    /\ pubWriter \in [Opens -> {"idle", "noting", "writing"}]
    /\ next \in [Opens -> 0..(MaxObject + 1)]
    /\ \A o \in Opens : pubWriter[o] # "idle" => next[o] <= MaxObject
    /\ datagram \in {"idle", "begun", "noted", "sent"}
    /\ pubLargest \in -1..MaxObject /\ sent \in -1..MaxObject
    /\ paused \in BOOLEAN /\ ended \in BOOLEAN /\ cancelled \in BOOLEAN
    /\ open = {NoStreams} \/ open \subseteq Opens
    /\ ender \in [Enders -> {"idle", "latched", "waiting", "resetting", "returned"}]
    /\ taken \subseteq Opens
    /\ streamCount \in Int

\* The streams the subscriber can attribute, and those counted.
Attributed ==
    /\ attributed = StreamsIn({"written", "open", "fin"})
    /\ count = Cardinality(StreamsIn({"open", "fin"}))

\* One goroutine ends the publication.
OneEnder ==
    /\ \A e \in Enders : ender[e] \in {"latched", "waiting", "resetting"} => ended
    /\ \A e, f \in Enders : /\ ender[e] \in {"latched", "waiting", "resetting"}
                            /\ ender[f] \in {"latched", "waiting", "resetting"}
                            => e = f

\* Until it takes the streams, they are the open ones,
BeforeTake ==
    open # {NoStreams} =>
        /\ open = StreamsIn({"open"}) /\ taken = {} /\ streamCount = -1
        /\ \A e \in Enders : ender[e] # "resetting"
\* and from then on no other one opens, and those it did not close it resets.
AfterTake ==
    open = {NoStreams} =>
        /\ ended /\ StreamsIn({"opening", "written"}) = {}
        /\ \A e \in Enders : ender[e] \notin {"latched", "waiting"}
        /\ \A o \in StreamsIn({"open"}) : o \in reset \union taken
        /\ streamCount # -1 =>
              /\ taken = {} /\ streamCount = count
              /\ \A e \in Enders : ender[e] # "resetting"

PublicationInv == PublicationTypes /\ Attributed /\ OneEnder /\ BeforeTake /\ AfterTake

\* Done takes the streams when no datagram is on its way.
Settled == open = {NoStreams} => datagram \in {"idle", "sent"}

\* The instance counts as this module does.
LEMMA PublicationCardinality == \A S : P!Cardinality(S) = Cardinality(S)
  BY DEF P!Cardinality, Cardinality

\* No more streams are in some state than there are.
LEMMA StreamsFinite ==
    \A S : IsFiniteSet(StreamsIn(S)) /\ Cardinality(StreamsIn(S)) \in 0..Cardinality(Opens)
<1> SUFFICES ASSUME NEW S
             PROVE  IsFiniteSet(StreamsIn(S)) /\ Cardinality(StreamsIn(S)) \in 0..Cardinality(Opens)
  OBVIOUS
<1>1. StreamsIn(S) \subseteq Opens
  BY DEF StreamsIn
<1> QED BY <1>1, PublicationAssumption, FS_Subset, FS_CardinalityType

\* A stream opens, or fails to.
LEMMA OpenStep ==
    ASSUME PublicationInv, NEW o \in Opens,
           P!BeginOpen(o) \/ P!OpenCancelled(o) \/ P!HeaderWritten(o) \/ P!HeaderFails(o)
    PROVE  PublicationInv'
<1>1. /\ UNCHANGED <<pubWriter, next, datagram, pubLargest, sent, paused, ended, cancelled,
                     open, count, ender, taken, streamCount>>
      /\ reset \subseteq reset' /\ reset' \subseteq Opens
      /\ \/ UNCHANGED <<st, attributed>>
         \/ /\ st[o] = "idle" /\ ~ended /\ st' = [st EXCEPT ![o] = "opening"] /\ UNCHANGED attributed
         \/ /\ st[o] = "opening" /\ st' = [st EXCEPT ![o] = "written"] /\ attributed' = attributed \union {o}
         \/ /\ st[o] = "opening" /\ st' = [st EXCEPT ![o] = "failed"] /\ UNCHANGED attributed
  BY DEF P!BeginOpen, P!OpenCancelled, P!HeaderWritten, P!HeaderFails, PublicationInv,
     PublicationTypes
<1>2. PublicationTypes'
  <2>1. st' \in [Opens -> {"idle", "opening", "written", "open", "fin", "failed"}] /\ attributed' \subseteq Opens
    BY <1>1 DEF PublicationInv, PublicationTypes
  <2> QED BY <1>1, <2>1 DEF PublicationInv, PublicationTypes
<1>3. /\ StreamsIn({"open", "fin"})' = StreamsIn({"open", "fin"})
      /\ StreamsIn({"open"})' = StreamsIn({"open"})
      /\ attributed' = StreamsIn({"written", "open", "fin"})'
  BY <1>1 DEF PublicationInv, PublicationTypes, Attributed, StreamsIn
<1>4. Attributed' /\ OneEnder' /\ BeforeTake'
  BY <1>1, <1>3, SMTT(60) DEF PublicationInv, Attributed, OneEnder, BeforeTake
<1>5. AfterTake'
  <2> SUFFICES ASSUME open' = {NoStreams} PROVE AfterTake'
    BY DEF AfterTake
  <2>1. ended /\ StreamsIn({"opening", "written"}) = {}
    BY <1>1 DEF PublicationInv, AfterTake
  <2>2. st' = st
    BY <1>1, <2>1 DEF StreamsIn
  <2>3. StreamsIn({"opening", "written"})' = StreamsIn({"opening", "written"})
    BY <2>2 DEF StreamsIn
  <2> QED BY <1>1, <1>3, <2>1, <2>3 DEF PublicationInv, AfterTake
<1> QED BY <1>2, <1>4, <1>5, SMTT(60) DEF PublicationInv

\* A stream whose header was written is counted, while Done still waits.
LEMMA CountStep ==
    ASSUME PublicationInv, NEW o \in Opens, P!CountOpen(o)
    PROVE  PublicationInv'
<1>1. /\ st[o] = "written" /\ st' = [st EXCEPT ![o] = "open"]
      /\ count' = count + 1 /\ open' = open \union {o}
      /\ UNCHANGED <<attributed, reset, pubWriter, next, datagram, pubLargest, sent, paused,
                     ended, cancelled, ender, taken, streamCount>>
  BY DEF P!CountOpen
<1>2. open # {NoStreams}
  BY <1>1 DEF PublicationInv, AfterTake, StreamsIn
<1>3. open' # {NoStreams}
  BY <1>1, PublicationAssumption, SMTT(60)
<1>4. PublicationTypes'
  <2>1. st' \in [Opens -> {"idle", "opening", "written", "open", "fin", "failed"}] /\ open' \subseteq Opens
    BY <1>1, <1>2 DEF PublicationInv, PublicationTypes
  <2> QED BY <1>1, <2>1 DEF PublicationInv, PublicationTypes
<1>5. /\ o \notin StreamsIn({"open", "fin"})
      /\ StreamsIn({"open", "fin"})' = StreamsIn({"open", "fin"}) \union {o}
      /\ StreamsIn({"open"})' = StreamsIn({"open"}) \union {o}
      /\ StreamsIn({"written", "open", "fin"})' = StreamsIn({"written", "open", "fin"})
  BY <1>1 DEF PublicationInv, PublicationTypes, StreamsIn
<1>6. Attributed'
  <2>1. Cardinality(StreamsIn({"open", "fin"})') = Cardinality(StreamsIn({"open", "fin"})) + 1
    BY <1>5, StreamsFinite, FS_AddElement, SMTT(60)
  <2> QED BY <1>1, <1>5, <2>1 DEF PublicationInv, Attributed
<1>7. OneEnder' /\ BeforeTake' /\ AfterTake'
  BY <1>1, <1>2, <1>3, <1>5 DEF PublicationInv, OneEnder, BeforeTake, AfterTake
<1> QED BY <1>4, <1>6, <1>7 DEF PublicationInv

\* Writing leaves the streams as they are,
LEMMA WriteStep ==
    ASSUME PublicationInv,
           \/ \E o \in Opens : P!NoteObject(o) \/ P!Written(o) \/ (P!WriteObject(o) /\ ~paused)
           \/ P!BeginDatagram \/ P!DatagramSteps \/ P!ApplyUpdate
    PROVE  PublicationInv'
<1>1. UNCHANGED <<st, attributed, reset, ended, cancelled, open, count, ender, taken,
                  streamCount>>
  BY DEF P!NoteObject, P!Written, P!WriteObject, P!BeginDatagram, P!DatagramSteps,
     P!NoteDatagram, P!DatagramSent, P!ApplyUpdate
<1>2. PublicationTypes'
  <2>1. CASE \E o \in Opens : P!NoteObject(o)
    BY <2>1, PublicationAssumption, SMTT(60) DEF PublicationInv, PublicationTypes, P!NoteObject,
       P!Larger
  <2>2. CASE \E o \in Opens : P!Written(o)
    BY <2>2, PublicationAssumption, SMTT(60) DEF PublicationInv, PublicationTypes, P!Written, P!Larger
  <2>3. CASE \E o \in Opens : P!WriteObject(o) /\ ~paused
    BY <2>3, SMTT(60) DEF PublicationInv, PublicationTypes, P!WriteObject
  <2>4. CASE P!BeginDatagram \/ P!DatagramSteps
    BY <2>4, PublicationAssumption, SMTT(60) DEF PublicationInv, PublicationTypes, P!BeginDatagram,
       P!DatagramSteps,
       P!NoteDatagram, P!DatagramSent, P!Larger, P!DatagramID
  <2>5. CASE P!ApplyUpdate
    BY <2>5 DEF PublicationInv, PublicationTypes, P!ApplyUpdate
  <2> QED BY <2>1, <2>2, <2>3, <2>4, <2>5, SMTT(60)
<1>3. \A S : StreamsIn(S)' = StreamsIn(S)
  BY <1>1 DEF StreamsIn
<1>4. Attributed' /\ OneEnder' /\ BeforeTake' /\ AfterTake'
  BY <1>1, <1>3 DEF PublicationInv, Attributed, OneEnder, BeforeTake, AfterTake
<1> QED BY <1>2, <1>4, SMTT(60) DEF PublicationInv

\* until one ends, reset by a pause or closed.
LEMMA CloseStep ==
    ASSUME PublicationInv, NEW o \in Opens, P!CloseStream(o) \/ (P!WriteObject(o) /\ paused)
    PROVE  PublicationInv'
<1>1. /\ st[o] = "open" /\ st' = [st EXCEPT ![o] = "fin"]
      /\ open' = IF open = {NoStreams} THEN open ELSE open \ {o}
      /\ reset \subseteq reset' /\ reset' \subseteq Opens
      /\ UNCHANGED <<attributed, pubWriter, next, datagram, pubLargest, sent, paused, ended,
                     cancelled, count, ender, taken, streamCount>>
  BY DEF P!CloseStream, P!WriteObject, P!Forget, PublicationInv, PublicationTypes
<1>2. PublicationTypes'
  <2>1. st' \in [Opens -> {"idle", "opening", "written", "open", "fin", "failed"}]
        /\ (open' = {NoStreams} \/ open' \subseteq Opens)
    BY <1>1, SMTT(60) DEF PublicationInv, PublicationTypes
  <2> QED BY <1>1, <2>1 DEF PublicationInv, PublicationTypes
<1>3. /\ StreamsIn({"open", "fin"})' = StreamsIn({"open", "fin"})
      /\ StreamsIn({"written", "open", "fin"})' = StreamsIn({"written", "open", "fin"})
      /\ StreamsIn({"open"})' = StreamsIn({"open"}) \ {o}
      /\ StreamsIn({"opening", "written"})' = StreamsIn({"opening", "written"})
  BY <1>1, SMTT(60) DEF PublicationInv, PublicationTypes, StreamsIn
<1>4. open' = {NoStreams} <=> open = {NoStreams}
  BY <1>1, PublicationAssumption, SMTT(60) DEF PublicationInv, PublicationTypes
<1>5. Attributed' /\ OneEnder'
  BY <1>1, <1>3, SMTT(60) DEF PublicationInv, Attributed, OneEnder
<1>6. BeforeTake' /\ AfterTake'
  BY <1>1, <1>3, <1>4 DEF PublicationInv, BeforeTake, AfterTake
<1> QED BY <1>2, <1>5, <1>6, SMTT(60) DEF PublicationInv

\* Done: one call latches, waits for the opens, takes what is open, resets it
\* and writes PUBLISH_DONE.
LEMMA DoneStep ==
    ASSUME PublicationInv, NEW e \in Enders, P!DoneLatch(e) \/ P!DoneSteps(e)
    PROVE  PublicationInv'
<1>1. UNCHANGED <<st, attributed, pubWriter, next, datagram, pubLargest, sent, paused, count>>
  BY DEF P!DoneLatch, P!DoneSteps, P!DoneCancels, P!DoneTakes, P!DoneResets, P!DoneWrites
<1>2. \A S : StreamsIn(S)' = StreamsIn(S)
  BY <1>1 DEF StreamsIn
<1>3. Attributed'
  BY <1>1, <1>2 DEF PublicationInv, Attributed
<1>4. CASE P!DoneLatch(e)
  <2>1. /\ ender[e] = "idle" /\ ended' = TRUE
        /\ ender' = [ender EXCEPT ![e] = IF ended THEN "returned" ELSE "latched"]
        /\ UNCHANGED <<reset, cancelled, open, taken, streamCount>>
    BY <1>4, SMTT(60) DEF P!DoneLatch
  <2>2. PublicationTypes'
    <3>1. ender' \in [Enders -> {"idle", "latched", "waiting", "resetting", "returned"}] /\ ended' \in BOOLEAN
      BY <2>1 DEF PublicationInv, PublicationTypes
    <3> QED BY <1>1, <2>1, <3>1, SMTT(60) DEF PublicationInv, PublicationTypes
  <2>3. /\ \A f \in Enders \ {e} : ender'[f] = ender[f]
        /\ ended => ender'[e] = "returned"
        /\ ~ended => ender'[e] = "latched"
    BY <2>1, SMTT(60) DEF PublicationInv, PublicationTypes
  <2>4. OneEnder' /\ BeforeTake' /\ AfterTake'
    BY <1>1, <1>2, <2>1, <2>3, SMTT(60) DEF PublicationInv, OneEnder, BeforeTake, AfterTake
  <2> QED BY <1>3, <2>2, <2>4, SMTT(60) DEF PublicationInv
<1>5. CASE P!DoneCancels(e)
  <2>1. /\ ender[e] = "latched" /\ ender' = [ender EXCEPT ![e] = "waiting"] /\ cancelled' = TRUE
        /\ UNCHANGED <<reset, ended, open, taken, streamCount>>
    BY <1>5, SMTT(60) DEF P!DoneCancels
  <2>2. PublicationTypes'
    <3>1. ender' \in [Enders -> {"idle", "latched", "waiting", "resetting", "returned"}] /\ cancelled' \in BOOLEAN
      BY <2>1, SMTT(60) DEF PublicationInv, PublicationTypes
    <3> QED BY <1>1, <2>1, <3>1, SMTT(60) DEF PublicationInv, PublicationTypes
  <2>3. OneEnder' /\ BeforeTake' /\ AfterTake'
    BY <1>1, <1>2, <2>1, SMTT(60) DEF PublicationInv, PublicationTypes, OneEnder, BeforeTake,
       AfterTake
  <2> QED BY <1>3, <2>2, <2>3 DEF PublicationInv
<1>6. CASE P!DoneTakes(e)
  <2>1. /\ ender[e] = "waiting" /\ ender' = [ender EXCEPT ![e] = "resetting"]
        /\ taken' = open /\ open' = {NoStreams} /\ StreamsIn({"opening", "written"}) = {}
        /\ UNCHANGED <<reset, ended, cancelled, streamCount>>
    BY <1>6 DEF P!DoneTakes, P!InFlight, P!Opening, StreamsIn
  <2>2. open # {NoStreams}
    BY <2>1, SMTT(60) DEF PublicationInv, AfterTake
  <2>3. PublicationTypes'
    <3>1. ender' \in [Enders -> {"idle", "latched", "waiting", "resetting", "returned"}] /\ taken' \subseteq Opens
      BY <2>1, <2>2, SMTT(60) DEF PublicationInv, PublicationTypes
    <3> QED BY <1>1, <2>1, <3>1, SMTT(60) DEF PublicationInv, PublicationTypes
  <2>4. OneEnder' /\ BeforeTake' /\ AfterTake'
    BY <1>1, <1>2, <2>1, <2>2, SMTT(60) DEF PublicationInv, PublicationTypes, OneEnder, BeforeTake,
       AfterTake
  <2> QED BY <1>3, <2>3, <2>4 DEF PublicationInv
<1>7. CASE \E o \in Opens : P!DoneResets(e, o)
  <2>1. PICK o \in Opens :
          /\ ender[e] = "resetting" /\ o \in taken /\ reset' = reset \union {o} /\ taken' = taken \ {o}
          /\ UNCHANGED <<ended, cancelled, open, ender, streamCount>>
    BY <1>7, SMTT(60) DEF P!DoneResets
  <2>2. PublicationTypes'
    BY <1>1, <2>1, SMTT(60) DEF PublicationInv, PublicationTypes
  <2>3. OneEnder' /\ BeforeTake' /\ AfterTake'
    BY <1>1, <1>2, <2>1, SMTT(60) DEF PublicationInv, OneEnder, BeforeTake, AfterTake
  <2> QED BY <1>3, <2>2, <2>3, SMTT(60) DEF PublicationInv
<1>8. CASE P!DoneWrites(e)
  <2>1. /\ ender[e] = "resetting" /\ taken = {} /\ ender' = [ender EXCEPT ![e] = "returned"]
        /\ streamCount' = count
        /\ UNCHANGED <<reset, ended, cancelled, open, taken>>
    BY <1>8, SMTT(60) DEF P!DoneWrites
  <2>2. PublicationTypes'
    <3>1. ender' \in [Enders -> {"idle", "latched", "waiting", "resetting", "returned"}] /\ count \in Int
      BY <2>1, StreamsFinite, SMTT(60) DEF PublicationInv, PublicationTypes, Attributed
    <3> QED BY <1>1, <2>1, <3>1, SMTT(60) DEF PublicationInv, PublicationTypes
  <2>3. OneEnder' /\ BeforeTake' /\ AfterTake'
    BY <1>1, <1>2, <2>1 DEF PublicationInv, PublicationTypes, OneEnder, BeforeTake,
       AfterTake
  <2> QED BY <1>3, <2>2, <2>3 DEF PublicationInv
<1> QED BY <1>4, <1>5, <1>6, <1>7, <1>8, SMTT(60) DEF P!DoneSteps

\* No datagram begins once the streams are taken.
LEMMA SettledStep == PublicationInv /\ Settled /\ [P!Next]_P!vars => Settled'
<1> SUFFICES ASSUME PublicationInv, Settled, [P!Next]_P!vars, open' = {NoStreams}
             PROVE  datagram' \in {"idle", "sent"}
  BY DEF Settled
<1>1. CASE UNCHANGED P!vars
  BY <1>1 DEF P!vars, Settled
<1>2. CASE \E o \in Opens : P!BeginOpen(o) \/ P!OpenCancelled(o) \/ P!HeaderWritten(o) \/ P!HeaderFails(o)
  BY <1>2 DEF P!BeginOpen, P!OpenCancelled, P!HeaderWritten, P!HeaderFails, Settled
<1>3. CASE \E o \in Opens : P!CountOpen(o)
  BY <1>3, PublicationAssumption DEF P!CountOpen, Settled, PublicationInv, AfterTake, StreamsIn
<1>4. CASE \E o \in Opens : P!WriteObject(o) \/ P!NoteObject(o) \/ P!Written(o) \/ P!CloseStream(o)
  BY <1>4, PublicationAssumption
     DEF P!WriteObject, P!NoteObject, P!Written, P!CloseStream, P!Forget, Settled, PublicationInv, PublicationTypes
<1>5. CASE P!BeginDatagram \/ P!DatagramSteps \/ P!ApplyUpdate
  BY <1>5 DEF P!BeginDatagram, P!DatagramSteps, P!NoteDatagram, P!DatagramSent, P!ApplyUpdate, Settled,
     PublicationInv, AfterTake
<1>6. CASE \E e \in Enders : P!DoneTakes(e)
  BY <1>6 DEF P!DoneTakes, P!InFlight, PublicationInv, PublicationTypes
<1>7. CASE \E e \in Enders : P!DoneLatch(e) \/ P!DoneCancels(e) \/ P!DoneWrites(e) \/ \E o \in Opens : P!DoneResets(e, o)
  BY <1>7 DEF P!DoneLatch, P!DoneCancels, P!DoneWrites, P!DoneResets, Settled
<1> QED BY <1>1, <1>2, <1>3, <1>4, <1>5, <1>6, <1>7 DEF P!Next, P!OpenSteps, P!DoneSteps

\* PUBLISH_DONE is written after every datagram and the end of every stream the
\* subscriber saw, with their exact number, whatever the opens, writes, pauses
\* and other calls of Done it races (publish.go).
THEOREM DoneIsTrueHolds == P!Spec => []DoneIsTrue
<1>1. P!Init => PublicationInv
  <2> SUFFICES ASSUME P!Init PROVE PublicationInv
    OBVIOUS
  <2>1. PublicationTypes
    <3>1. /\ st \in [Opens -> {"idle", "opening", "written", "open", "fin", "failed"}]
          /\ pubWriter \in [Opens -> {"idle", "noting", "writing"}] /\ next \in [Opens -> 0..(MaxObject + 1)]
          /\ \A o \in Opens : pubWriter[o] = "idle"
          /\ ender \in [Enders -> {"idle", "latched", "waiting", "resetting", "returned"}]
      BY PublicationAssumption DEF P!Init
    <3>2. paused \in BOOLEAN /\ ended \in BOOLEAN /\ cancelled \in BOOLEAN
      BY Zenon DEF P!Init
    <3> QED BY <3>1, <3>2, PublicationAssumption DEF P!Init, PublicationTypes
  <2>2. \A S : "idle" \notin S => StreamsIn(S) = {}
    BY DEF P!Init, StreamsIn
  <2>3. Attributed /\ OneEnder /\ BeforeTake /\ AfterTake
    BY <2>2, FS_EmptySet, SMTT(60) DEF P!Init, Attributed, OneEnder, BeforeTake, AfterTake
  <2> QED BY <2>1, <2>3, SMTT(60) DEF PublicationInv
<1>2. PublicationInv /\ [P!Next]_P!vars => PublicationInv'
  <2> SUFFICES ASSUME PublicationInv, [P!Next]_P!vars PROVE PublicationInv'
    OBVIOUS
  <2>1. CASE UNCHANGED P!vars
    <3>1. UNCHANGED <<st, attributed, reset, pubWriter, next, datagram, pubLargest, sent, paused, ended, cancelled,
                      open, count, ender, taken, streamCount>>
      BY <2>1 DEF P!vars
    <3>2. \A S : StreamsIn(S)' = StreamsIn(S)
      BY <3>1 DEF StreamsIn
    <3>3. PublicationTypes'
      BY <3>1 DEF PublicationInv, PublicationTypes
    <3> QED BY <3>1, <3>2, <3>3 DEF PublicationInv, Attributed, OneEnder, BeforeTake,
          AfterTake
  <2>2. CASE P!Next
    BY <2>2, OpenStep, CountStep, WriteStep, CloseStep, DoneStep, SMTT(60) DEF P!Next, P!OpenSteps
  <2> QED BY <2>1, <2>2
<1>3. PublicationInv /\ Settled => DoneIsTrue
  <2> SUFFICES ASSUME PublicationInv, Settled PROVE DoneIsTrue
    OBVIOUS
  <2>1. count \in 0..Cardinality(Opens)
    BY StreamsFinite, SMTT(60) DEF PublicationInv, Attributed
  <2>2. streamCount \in -1..Cardinality(Opens)
    BY <2>1, PublicationAssumption, FS_CardinalityType, SMTT(60) DEF PublicationInv, PublicationTypes,
       BeforeTake, AfterTake
  <2>3. P!TypeOK
    BY <2>1, <2>2, PublicationCardinality, SMTT(60) DEF PublicationInv, PublicationTypes, P!TypeOK
  <2>4. ASSUME streamCount # -1
        PROVE  streamCount = Cardinality(attributed) /\ \A o \in attributed : o \in reset \/ st[o] = "fin"
    <3>1. open = {NoStreams}
      BY <2>4 DEF PublicationInv, BeforeTake
    <3>2. attributed = StreamsIn({"open", "fin"})
      BY <3>1 DEF PublicationInv, Attributed, AfterTake, StreamsIn
    <3> QED BY <2>4, <3>1, <3>2 DEF PublicationInv, Attributed, AfterTake, StreamsIn
  <2>5. P!NoDatagramAfterDone
    BY DEF P!NoDatagramAfterDone, PublicationInv, BeforeTake, Settled
  <2> QED BY <2>3, <2>4, <2>5, PublicationCardinality DEF DoneIsTrue, P!DoneIsTrue,
        P!StreamCountExact, P!AllClosedByDone
<1>4. P!Init => Settled
  BY DEF P!Init, Settled
<1> QED BY <1>1, <1>2, <1>3, <1>4, SettledStep, PTL DEF P!Spec
=============================================================================
