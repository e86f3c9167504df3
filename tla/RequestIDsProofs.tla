-------------------------- MODULE RequestIDsProofs --------------------------
(* The numbers a session and its peer name things by: Request IDs, for every *)
(* cap and however they are delivered (RequestIDs), and Track Aliases, for   *)
(* any number of subscriptions and data streams (TrackAliases).              *)
EXTENDS RequestIDs, FiniteSetTheorems, TLAPS

(* The gaps are unseen IDs below the mark, everything accepted is at or      *)
(* below it, and nothing passed twice.                                       *)
IInv ==
    /\ TypeOK
    /\ ClaimedOnce
    /\ gaps \intersect accepted = {}
    /\ \A id \in accepted : seen /\ id <= max
    /\ \A g \in gaps : seen /\ g < max

(* Until the cap drops a gap every unseen ID below the mark is one, and      *)
(* after that the newest are.                                                *)
GInv ==
    /\ seen => ~WrongParity(max)
    /\ ~dropped => Missing \subseteq gaps
    /\ NewestClaimable
    /\ GapsBounded

(* A peer that takes its IDs in turn has each in flight or accepted, once.   *)
TInv ==
    /\ next % 2 = PeerBase
    /\ ~faulty =>
         /\ \A id \in flight \union accepted : ~WrongParity(id) /\ id < next
         /\ flight \intersect accepted = {}
         /\ ~dropped => closed = "open"

(* The new gaps of an advance to rid lie strictly between the old mark and   *)
(* rid: Lo is the first ID past the mark, and the gaps count down from rid.  *)
LEMMA NewGapsBetween ==
    ASSUME TypeOK, NEW rid \in Nat, ~seen \/ rid > max, NEW g \in NewGaps(rid)
    PROVE  /\ g \in Nat
           /\ g < rid
           /\ seen => g > max
<1> DEFINE lo == Lo
<1>1. lo \in Nat /\ (seen => lo = max + 2)
  BY DEF Lo, PeerBase, TypeOK
<1>2. PICK k \in 1..NewGapCount(rid) : g = rid - 2 * k
  BY DEF NewGaps
<1>3. rid > lo /\ k <= (rid - lo) \div 2
  <2>1. k <= Skipped(rid) /\ 1 <= k
    <3>1. Skipped(rid) \in Nat
      BY <1>1 DEF Skipped
    <3>2. NewGapCount(rid) <= Skipped(rid) /\ NewGapCount(rid) \in Nat
      BY <3>1, MaxTrackedAssumption DEF NewGapCount
    <3> QED BY <3>1, <3>2, <1>2
  <2> QED BY <2>1, <1>1 DEF Skipped
<1>4. rid - 2 * k >= lo
  <2> HIDE DEF lo
  <2>1. 2 * ((rid - lo) \div 2) <= rid - lo
    BY <1>1, <1>3
  <2> QED BY <2>1, <1>1, <1>2, <1>3
<1>5. g \in Nat /\ g < rid /\ g >= lo
  <2> HIDE DEF lo
  <2> QED BY <1>1, <1>2, <1>3, <1>4
<1>6. ASSUME seen PROVE g > max
  <2> HIDE DEF lo
  <2> QED BY <1>1, <1>5, <1>6 DEF TypeOK
<1> QED BY <1>5, <1>6

(* CheckPeerRequestID keeps the invariant, whatever ID it is given. *)
LEMMA CheckKeepsIInv ==
    ASSUME IInv, NEW rid \in Nat, CheckPeerRequestID(rid),
           role' = role, next' \in Nat, flight' \subseteq Nat, faulty' \in BOOLEAN
    PROVE  IInv'
<1> USE DEF IInv, TypeOK, ClaimedOnce
<1>1. CASE \E code \in {"parity", "duplicate"} : Refuse(code)
  BY <1>1 DEF Refuse
<1>2. CASE (~seen \/ rid > max) /\ Advance(rid)
  <2>1. rid \notin accepted
    BY <1>2
  <2>2. accepted' = accepted \union {rid} /\ again' = {} /\ closed' = closed
    BY <2>1, <1>2 DEF Advance, Accept
  <2>3. seen' = TRUE /\ max' = rid /\ dropped' \in BOOLEAN
    BY <1>2 DEF Advance, recordRequestIDGaps
  <2>4. \A g \in gaps' : g \in gaps \/ g \in NewGaps(rid)
    BY <1>2 DEF Advance, recordRequestIDGaps, evictLowest
  <2>5. \A g \in gaps' : g \in Nat /\ g < rid /\ g \notin accepted
    <3>1. ASSUME NEW g \in gaps PROVE g \in Nat /\ g < rid /\ g \notin accepted
      BY <1>2
    <3>2. ASSUME NEW g \in NewGaps(rid) PROVE g \in Nat /\ g < rid /\ g \notin accepted
      BY <1>2, NewGapsBetween
    <3> QED BY <2>4, <3>1, <3>2, Zenon
  <2>6. \A id \in accepted' : id <= rid
    BY <1>2, <2>2
  <2> QED BY <2>2, <2>3, <2>5, <2>6
<1>3. CASE rid \in gaps /\ ClaimGap(rid)
  BY <1>3 DEF ClaimGap, Accept
<1> QED BY <1>1, <1>2, <1>3 DEF CheckPeerRequestID

(* IInv is an invariant: it holds initially and every step keeps it. *)
THEOREM IInvInvariant == Spec => []IInv
<1>1. Init => IInv
  <2> SUFFICES ASSUME Init PROVE IInv
    OBVIOUS
  <2>1. PeerBase \in Nat
    BY DEF PeerBase
  <2>2. TypeOK
    BY <2>1, Zenon DEF Init, TypeOK
  <2> QED BY <2>2 DEF Init, IInv, ClaimedOnce
<1>2. IInv /\ [Next]_vars => IInv'
  <2> SUFFICES ASSUME IInv, [Next]_vars PROVE IInv'
    OBVIOUS
  <2>1. CASE AllocRequestID
    BY <2>1 DEF AllocRequestID, IInv, TypeOK, ClaimedOnce
  <2>2. ASSUME NEW rid \in flight, Receive(rid) PROVE IInv'
    <3>1. rid \in Nat /\ flight' \subseteq Nat /\ next' \in Nat /\ faulty' \in BOOLEAN /\ role' = role
      BY <2>2 DEF Receive, IInv, TypeOK
    <3>2. CheckPeerRequestID(rid)
      BY <2>2 DEF Receive
    <3> QED BY <3>1, <3>2, CheckKeepsIInv
  <2>3. ASSUME NEW rid \in IDs, ReceiveStray(rid) PROVE IInv'
    <3>1. rid \in Nat /\ flight' \subseteq Nat /\ next' \in Nat /\ faulty' \in BOOLEAN /\ role' = role
      BY <2>3 DEF ReceiveStray, IInv, TypeOK, IDs
    <3>2. CheckPeerRequestID(rid)
      BY <2>3 DEF ReceiveStray
    <3> QED BY <3>1, <3>2, CheckKeepsIInv
  <2>4. CASE UNCHANGED vars
    BY <2>4 DEF vars, IInv, TypeOK, ClaimedOnce
  <2> QED BY <2>1, <2>2, <2>3, <2>4 DEF Next
<1> QED BY <1>1, <1>2, PTL DEF Spec

-----------------------------------------------------------------------------
(* The gaps are finitely many, as they lie below the mark. *)
LEMMA GapsFinite ==
    ASSUME IInv
    PROVE  IsFiniteSet(gaps) /\ Cardinality(gaps) \in Nat
<1>1. gaps \in SUBSET Nat /\ max \in Nat /\ \A g \in gaps : g <= max
  BY DEF IInv, TypeOK
<1>2. IsFiniteSet(gaps)
  BY <1>1, FS_BoundedSetOfNaturals
<1> QED BY <1>2, FS_CardinalityType

(* The number of gaps below a gap is its rank: less than their number, and   *)
(* smaller for the smaller of two gaps.                                      *)
LEMMA RankOrders ==
    ASSUME IInv, NEW g \in gaps
    PROVE  /\ Cardinality(Below(g)) \in 0..(Cardinality(gaps) - 1)
           /\ \A h \in gaps : g < h => Cardinality(Below(g)) < Cardinality(Below(h))
<1>1. IsFiniteSet(gaps) /\ Cardinality(gaps) \in Nat /\ gaps \subseteq Nat
  BY GapsFinite DEF IInv, TypeOK
<1>2. \A h : Below(h) \in SUBSET gaps
  BY DEF Below
<1>3. \A h : IsFiniteSet(Below(h)) /\ Cardinality(Below(h)) \in Nat
  BY <1>1, <1>2, FS_Subset, FS_CardinalityType
<1>4. Below(g) # gaps
  BY <1>1 DEF Below
<1>5. Cardinality(Below(g)) < Cardinality(gaps)
  <2>1. Cardinality(Below(g)) <= Cardinality(gaps) /\ Cardinality(Below(g)) # Cardinality(gaps)
    BY <1>1, <1>2, <1>4, FS_Subset
  <2> QED BY <2>1, <1>1, <1>3
<1>6. ASSUME NEW h \in gaps, g < h PROVE Cardinality(Below(g)) < Cardinality(Below(h))
  <2>0. Below(g) \subseteq Below(h)
    <3> SUFFICES ASSUME NEW x \in gaps, x < g PROVE x < h
      BY DEF Below
    <3>1. x \in Nat /\ g \in Nat /\ h \in Nat
      BY <1>1
    <3> QED BY <3>1, <1>6
  <2>3. g \in Below(h) /\ g \notin Below(g)
    <3>1. g \in Nat
      BY <1>1
    <3> QED BY <3>1, <1>6 DEF Below
  <2>1. Below(g) \in SUBSET Below(h) /\ Below(g) # Below(h)
    BY <2>0, <2>3
  <2>2. /\ Cardinality(Below(g)) <= Cardinality(Below(h))
        /\ Cardinality(Below(g)) # Cardinality(Below(h))
    BY <2>1, <1>3, FS_Subset
  <2> QED BY <2>2, <1>3
<1> QED BY <1>1, <1>3, <1>5, <1>6

(* evictLowest deletes at least n gaps when there are n: the rank maps those *)
(* left one to one into n..(Cardinality(gaps) - 1).                          *)
LEMMA EvictLeaves ==
    ASSUME IInv, NEW n \in 0..Cardinality(gaps)
    PROVE  /\ IsFiniteSet(evictLowest(n))
           /\ Cardinality(evictLowest(n)) \in Nat
           /\ Cardinality(evictLowest(n)) <= Cardinality(gaps) - n
<1> DEFINE c == Cardinality(gaps)
           T == n..(c - 1)
           f == [g \in evictLowest(n) |-> Cardinality(Below(g))]
<1>1. IsFiniteSet(gaps) /\ c \in Nat /\ gaps \subseteq Nat
  BY GapsFinite DEF IInv, TypeOK
<1>2. n \in Nat /\ n <= c
  BY <1>1
<1>3. evictLowest(n) \subseteq gaps
  BY DEF evictLowest
<1>4. \A g \in evictLowest(n) : Cardinality(Below(g)) \in T
  <2> SUFFICES ASSUME NEW g \in evictLowest(n) PROVE Cardinality(Below(g)) \in T
    OBVIOUS
  <2>1. Cardinality(Below(g)) \in 0..(c - 1)
    BY <1>3, RankOrders
  <2>2. Cardinality(Below(g)) >= n
    BY DEF evictLowest
  <2> HIDE DEF c
  <2> QED BY <2>1, <2>2, <1>1, <1>2
<1>5. \A g, h \in evictLowest(n) : Cardinality(Below(g)) = Cardinality(Below(h)) => g = h
  <2> SUFFICES ASSUME NEW g \in gaps, NEW h \in gaps, Cardinality(Below(g)) = Cardinality(Below(h))
               PROVE  g = h
    BY <1>3
  <2>1. g \in Nat /\ h \in Nat /\ Cardinality(Below(g)) \in Int /\ Cardinality(Below(h)) \in Int
    BY <1>1, RankOrders
  <2>2. ~(g < h) /\ ~(h < g)
    BY <2>1, RankOrders
  <2> QED BY <2>1, <2>2
<1>6. f \in Injection(evictLowest(n), T)
  BY <1>4, <1>5, Zenon DEF Injection, IsInjective
<1>7. IsFiniteSet(T) /\ Cardinality(T) = c - n
  <2> HIDE DEF c
  <2>1. n \in Int /\ c - 1 \in Int
    BY <1>1, <1>2
  <2>2. IsFiniteSet(T) /\ Cardinality(T) = IF n > c - 1 THEN 0 ELSE (c - 1) - n + 1
    BY <2>1, FS_Interval
  <2> QED BY <2>2, <1>1, <1>2
<1>8. IsFiniteSet(evictLowest(n)) /\ Cardinality(evictLowest(n)) <= Cardinality(T)
  BY <1>6, <1>7, FS_Injection
<1> QED BY <1>7, <1>8, FS_CardinalityType

(* The number of gaps an advance records: at most the cap and the IDs        *)
(* skipped, and all of those unless the cap is reached.                      *)
LEMMA CountType ==
    ASSUME TypeOK, NEW rid \in Nat
    PROVE  /\ Lo \in Nat /\ Skipped(rid) \in Nat
           /\ NewGapCount(rid) \in 0..MaxTracked
           /\ NewGapCount(rid) <= Skipped(rid)
           /\ NewGapCount(rid) < Skipped(rid) => NewGapCount(rid) = MaxTracked
<1>1. Lo \in Nat
  BY DEF Lo, PeerBase, TypeOK
<1>2. Skipped(rid) \in Nat
  BY <1>1 DEF Skipped
<1> QED BY <1>1, <1>2, MaxTrackedAssumption DEF NewGapCount

\* Accepting an ID opens no more gaps than NewGapCount.
LEMMA NewGapsFew ==
    ASSUME TypeOK, NEW rid \in Nat
    PROVE  /\ IsFiniteSet(NewGaps(rid))
           /\ Cardinality(NewGaps(rid)) \in Nat
           /\ Cardinality(NewGaps(rid)) <= NewGapCount(rid)
<1> DEFINE c == NewGapCount(rid)
           f == [k \in 1..c |-> rid - 2 * k]
<1>1. c \in Nat
  BY CountType, MaxTrackedAssumption
<1>2. f \in Surjection(1..c, NewGaps(rid))
  BY Zenon DEF Surjection, NewGaps
<1>3. IsFiniteSet(1..c) /\ Cardinality(1..c) = c
  <2> HIDE DEF c
  <2>1. IsFiniteSet(1..c) /\ Cardinality(1..c) = IF 1 > c THEN 0 ELSE c - 1 + 1
    BY <1>1, FS_Interval
  <2> QED BY <2>1, <1>1
<1>4. IsFiniteSet(NewGaps(rid)) /\ Cardinality(NewGaps(rid)) <= Cardinality(1..c)
  BY <1>2, <1>3, FS_Surjection
<1> QED BY <1>3, <1>4, FS_CardinalityType

(* An ID of the peer's sequence between the old mark and the new is one of   *)
(* the new gaps, or older than all of them and one too many for the cap.     *)
LEMMA NewGapsCover ==
    ASSUME TypeOK, NEW rid \in Nat, NEW id \in Nat,
           ~WrongParity(rid), ~WrongParity(id), Lo <= id, id < rid,
           id \notin NewGaps(rid)
    PROVE  /\ NewGapCount(rid) < Skipped(rid)
           /\ \A g \in NewGaps(rid) : id < g
<1> DEFINE k == (rid - id) \div 2
           c == NewGapCount(rid)
           lo == Lo
<1>0. lo \in Nat /\ lo <= id /\ c \in Nat /\ PeerBase \in Nat
  BY CountType, MaxTrackedAssumption DEF PeerBase
<1>1. k \in Nat /\ k >= 1 /\ id = rid - 2 * k
  <2>1. rid % 2 = id % 2
    BY DEF WrongParity
  <2> QED BY <2>1
<1>2. c < k
  BY <1>0, <1>1 DEF NewGaps
<1>3. k <= Skipped(rid)
  <2>1. rid > lo
    BY <1>0
  <2>2. (rid - id) \div 2 <= (rid - lo) \div 2
    <3> HIDE DEF lo
    <3> QED BY <2>1, <1>0
  <2> QED BY <2>1, <2>2 DEF Skipped
<1>4. ASSUME NEW g \in NewGaps(rid) PROVE id < g
  <2>1. PICK j \in 1..c : g = rid - 2 * j
    BY DEF NewGaps
  <2> HIDE DEF c, k
  <2> QED BY <2>1, <1>0, <1>1, <1>2
<1>5. Skipped(rid) \in Nat
  BY CountType
<1> HIDE DEF c, k
<1>6. c < Skipped(rid)
  BY <1>0, <1>1, <1>2, <1>3, <1>5
<1> QED BY <1>4, <1>6 DEF c

(* However far the peer jumps ahead, an advance keeps the gaps to the cap.   *)
LEMMA AdvanceBounded ==
    ASSUME IInv, GapsBounded, NEW rid \in Nat, recordRequestIDGaps(rid)
    PROVE  GapsBounded'
<1> DEFINE n == Excess(rid)
           c == NewGapCount(rid)
           e == evictLowest(n)
<1>1. TypeOK
  BY DEF IInv
<1>2. c \in 0..MaxTracked
  BY <1>1, CountType
<1>3. Cardinality(gaps) \in Nat /\ IsFiniteSet(gaps)
  BY GapsFinite
<1>4. n = Cardinality(gaps) + c - MaxTracked
  BY DEF Excess
<1>5. IsFiniteSet(e) /\ Cardinality(e) \in Nat /\ Cardinality(e) + c <= MaxTracked
  <2>1. CASE n \in 0..Cardinality(gaps)
    <3>1. IsFiniteSet(e) /\ Cardinality(e) \in Nat /\ Cardinality(e) <= Cardinality(gaps) - n
      BY <2>1, EvictLeaves
    <3> HIDE DEF e, n, c
    <3> QED BY <3>1, <1>2, <1>3, <1>4, MaxTrackedAssumption
  <2>2. CASE n \notin 0..Cardinality(gaps)
    <3>1. Cardinality(gaps) + c <= MaxTracked
      <4> HIDE DEF n, c
      <4> QED BY <2>2, <1>2, <1>3, <1>4, MaxTrackedAssumption DEF GapsBounded
    <3>2. e \in SUBSET gaps
      BY DEF evictLowest
    <3>3. IsFiniteSet(e) /\ Cardinality(e) <= Cardinality(gaps)
      BY <3>2, <1>3, FS_Subset
    <3>4. Cardinality(e) \in Nat
      BY <3>3, FS_CardinalityType
    <3> HIDE DEF e, c
    <3> QED BY <3>1, <3>3, <3>4, <1>2, <1>3, MaxTrackedAssumption
  <2> QED BY <2>1, <2>2
<1>6. /\ IsFiniteSet(NewGaps(rid)) /\ Cardinality(NewGaps(rid)) \in Nat
      /\ Cardinality(NewGaps(rid)) <= c
  BY <1>1, NewGapsFew
<1>7. gaps' = e \union NewGaps(rid)
  BY DEF recordRequestIDGaps
<1> HIDE DEF e, n, c
<1>8. Cardinality(gaps') = Cardinality(e) + Cardinality(NewGaps(rid)) - Cardinality(e \cap NewGaps(rid))
  BY <1>5, <1>6, <1>7, FS_Union
<1>9. Cardinality(e \cap NewGaps(rid)) \in Nat
  BY <1>5, FS_Intersection, FS_CardinalityType, Zenon
<1> QED BY <1>2, <1>5, <1>6, <1>8, <1>9, MaxTrackedAssumption DEF GapsBounded

(* What an advance leaves: until the cap drops one, every unseen ID is a     *)
(* gap; and whatever it drops is older than what it keeps.                   *)
LEMMA AdvanceKeepsGInv ==
    ASSUME IInv, GInv, NEW rid \in Nat, ~WrongParity(rid), ~seen \/ rid > max,
           Advance(rid), role' = role
    PROVE  GInv'
<1> DEFINE n == Excess(rid)
           c == NewGapCount(rid)
           e == evictLowest(n)
<1>1. TypeOK /\ PeerBase' = PeerBase /\ recordRequestIDGaps(rid)
  BY DEF IInv, Advance, PeerBase
<1>2. seen' /\ max' = rid /\ accepted' = accepted \union {rid}
  BY DEF Advance, Accept
<1>3. /\ gaps' = e \union NewGaps(rid)
      /\ dropped' = (dropped \/ n > 0 \/ c < Skipped(rid))
  BY <1>1 DEF recordRequestIDGaps
<1>4. /\ c \in 0..MaxTracked /\ Lo \in Nat
      /\ c < Skipped(rid) => c = MaxTracked
  BY <1>1, CountType
<1>5. Cardinality(gaps) \in Nat
  BY GapsFinite
<1>6. n \in Int /\ n = Cardinality(gaps) + c - MaxTracked
  BY <1>4, <1>5, MaxTrackedAssumption DEF Excess
<1>7. GapsBounded'
  BY <1>1, AdvanceBounded DEF GInv
<1>8. \A id \in Missing' :
         /\ id \in Nat /\ ~WrongParity(id) /\ id < rid
         /\ id \in Missing \/ Lo <= id
         /\ id \in Missing => seen /\ id <= max
  <2> SUFFICES ASSUME NEW id \in Missing'
               PROVE  /\ id \in Nat /\ ~WrongParity(id) /\ id < rid
                      /\ id \in Missing \/ Lo <= id
                      /\ id \in Missing => seen /\ id <= max
    OBVIOUS
  <2>1. /\ id \in Nat /\ id <= rid /\ id % 2 = PeerBase
        /\ id \notin accepted /\ id # rid
    BY <1>1, <1>2 DEF Missing, WrongParity
  <2>2. ~WrongParity(id) /\ id < rid
    BY <2>1 DEF WrongParity
  <2>3. CASE seen /\ id <= max
    <3>1. id \in Missing
      BY <2>1, <2>2, <2>3, <1>1 DEF Missing, TypeOK
    <3> QED BY <2>1, <2>2, <2>3, <3>1
  <2>4. CASE seen /\ id > max
    <3>1. max % 2 = PeerBase /\ Lo = max + 2 /\ max \in Nat
      BY <2>4, <1>1 DEF GInv, WrongParity, Lo, TypeOK
    <3>2. id >= max + 2
      BY <3>1, <2>1, <2>4
    <3>3. id \notin Missing
      BY <3>1, <2>1, <2>4 DEF Missing
    <3> QED BY <2>1, <2>2, <3>1, <3>2, <3>3
  <2>5. CASE ~seen
    <3>1. Lo = PeerBase /\ id \notin Missing
      BY <2>5 DEF Lo, Missing
    <3>2. id >= PeerBase
      BY <2>1 DEF PeerBase
    <3> QED BY <2>1, <2>2, <3>1, <3>2
  <2>6. max \in Nat /\ seen \in BOOLEAN
    BY <1>1 DEF TypeOK
  <2> QED BY <2>1, <2>3, <2>4, <2>5, <2>6
<1>9. ~dropped' => Missing' \subseteq gaps'
  <2> SUFFICES ASSUME ~dropped', NEW id \in Missing' PROVE id \in gaps'
    OBVIOUS
  <2>1. ~dropped /\ ~(n > 0) /\ ~(c < Skipped(rid))
    BY <1>3, Zenon
  <2>2. CASE id \in Missing
    <3>1. id \in gaps
      BY <2>1, <2>2 DEF GInv
    <3>2. Cardinality(Below(id)) \in Nat
      BY <3>1, <1>5, RankOrders
    <3>3. Cardinality(Below(id)) >= n
      <4> HIDE DEF n
      <4> QED BY <3>2, <2>1, <1>6
    <3> QED BY <3>1, <3>3, <1>3 DEF evictLowest
  <2>3. CASE id \notin Missing
    <3>1. Lo <= id /\ id \in Nat /\ ~WrongParity(id) /\ id < rid
      BY <2>3, <1>8
    <3> QED BY <3>1, <2>1, <1>1, <1>3, NewGapsCover
  <2> QED BY <2>2, <2>3
<1>10. NewestClaimable'
  <2> SUFFICES ASSUME NEW id \in Missing', id \notin gaps', NEW g \in gaps' PROVE id < g
    BY DEF NewestClaimable
  <2>1. id \in Nat /\ ~WrongParity(id) /\ id < rid
    BY <1>8
  <2>2. CASE id \in Missing /\ g \in NewGaps(rid)
    <3>1. g \in Nat /\ g > max /\ id <= max /\ max \in Nat
      BY <2>2, <1>1, <1>8, NewGapsBetween DEF TypeOK
    <3> QED BY <3>1, <2>1
  <2>3. CASE id \in Missing /\ g \in e
    <3>1. g \in gaps /\ Cardinality(Below(g)) >= n /\ g \in Nat
      BY <2>3, <1>1 DEF evictLowest, TypeOK
    <3>2. CASE id \notin gaps
      BY <3>1, <3>2, <2>3 DEF GInv, NewestClaimable
    <3>3. CASE id \in gaps
      <4>1. ~(Cardinality(Below(id)) >= n)
        BY <3>3, <1>3 DEF evictLowest
      <4>2. Cardinality(Below(id)) \in Int /\ Cardinality(Below(g)) \in Int
        BY <3>1, <3>3, <1>5, RankOrders
      <4>3. g < id => Cardinality(Below(g)) < Cardinality(Below(id))
        BY <3>1, <3>3, RankOrders
      <4>4. id # g
        BY <4>1, <3>1
      <4> HIDE DEF n
      <4> QED BY <4>1, <4>2, <4>3, <4>4, <3>1, <2>1, <1>6
    <3> QED BY <3>2, <3>3
  <2>4. CASE id \notin Missing
    <3>1. id \notin NewGaps(rid) /\ Lo <= id
      BY <2>4, <1>3, <1>8
    <3>2. c < Skipped(rid) /\ \A h \in NewGaps(rid) : id < h
      BY <3>1, <2>1, <1>1, NewGapsCover
    <3>3. n = Cardinality(gaps)
      <4> HIDE DEF n, c
      <4> QED BY <3>2, <1>4, <1>5, <1>6, MaxTrackedAssumption
    <3>4. e = {}
      <4> SUFFICES ASSUME NEW h \in e PROVE FALSE
        OBVIOUS
      <4>1. h \in gaps /\ Cardinality(Below(h)) >= n
        BY DEF evictLowest
      <4>2. Cardinality(Below(h)) \in 0..(Cardinality(gaps) - 1)
        BY <4>1, RankOrders
      <4> HIDE DEF n
      <4> QED BY <4>1, <4>2, <3>3, <1>5
    <3> QED BY <3>2, <3>4, <1>3
  <2> QED BY <2>2, <2>3, <2>4, <1>3
<1>11. (seen => ~WrongParity(max))'
  BY <1>1, <1>2 DEF WrongParity
<1> QED BY <1>7, <1>9, <1>10, <1>11 DEF GInv

(* CheckPeerRequestID keeps GInv, whatever ID it is given. *)
LEMMA CheckKeepsGInv ==
    ASSUME IInv, GInv, NEW rid \in Nat, CheckPeerRequestID(rid), role' = role
    PROVE  GInv'
<1>1. CASE \E code \in {"parity", "duplicate"} : Refuse(code)
  <2>1. UNCHANGED <<role, seen, max, gaps, accepted, dropped>>
    BY <1>1 DEF Refuse
  <2> QED BY <2>1 DEF GInv, Missing, NewestClaimable, GapsBounded, WrongParity, PeerBase
<1>2. CASE ~WrongParity(rid) /\ (~seen \/ rid > max) /\ Advance(rid)
  BY <1>2, AdvanceKeepsGInv
<1>3. CASE rid \in gaps /\ ClaimGap(rid)
  <2>1. gaps' = gaps \ {rid} /\ UNCHANGED <<role, seen, max, dropped>>
    BY <1>3 DEF ClaimGap
  <2>2. accepted' = accepted \union {rid}
    BY <1>3 DEF ClaimGap, Accept
  <2>3. Missing' = Missing \ {rid}
    BY <2>1, <2>2 DEF Missing, WrongParity, PeerBase
  <2>4. Cardinality(gaps') = Cardinality(gaps) - 1 /\ Cardinality(gaps) \in Nat
    BY <2>1, <1>3, GapsFinite, FS_RemoveElement, Zenon
  <2>5. GapsBounded'
    BY <2>4, MaxTrackedAssumption DEF GInv, GapsBounded
  <2>6. NewestClaimable' /\ (~dropped => Missing \subseteq gaps)'
    BY <2>1, <2>3 DEF GInv, NewestClaimable
  <2> QED BY <2>1, <2>5, <2>6 DEF GInv, WrongParity, PeerBase
<1> QED BY <1>1, <1>2, <1>3 DEF CheckPeerRequestID

(* A request of a peer in turn is refused only once the cap dropped a gap:   *)
(* its ID has the parity and was not accepted before, so it is past the mark *)
(* or one of the gaps.                                                       *)
LEMMA ReceiveKeepsTInv ==
    ASSUME IInv, GInv, TInv, NEW rid \in flight, Receive(rid)
    PROVE  TInv'
<1>1. /\ closed = "open" /\ flight' = flight \ {rid}
      /\ CheckPeerRequestID(rid) /\ UNCHANGED <<role, next, faulty>>
  BY DEF Receive
<1>2. PeerBase' = PeerBase /\ \A id : WrongParity(id)' <=> WrongParity(id)
  BY <1>1 DEF PeerBase, WrongParity
<1>3. accepted' = accepted \/ accepted' = accepted \union {rid}
  BY <1>1 DEF CheckPeerRequestID, Refuse, Advance, ClaimGap, Accept
<1>4. ASSUME ~faulty, ~dropped' PROVE closed' = "open"
  <2>1. ~WrongParity(rid) /\ rid \notin accepted /\ rid \in Nat
    BY <1>4 DEF TInv, IInv, TypeOK
  <2>2. CASE ~seen \/ rid > max
    BY <2>1, <2>2, <1>1 DEF CheckPeerRequestID, Advance, Accept, IInv, TypeOK
  <2>3. CASE seen /\ rid <= max
    <3>1. rid \in Missing
      BY <2>1, <2>3 DEF Missing, IInv, TypeOK
    <3>4. seen /\ ~(rid > max)
      BY <2>1, <2>3 DEF IInv, TypeOK
    <3>2. CASE rid \in gaps
      <4>1. ClaimGap(rid)
        BY <2>1, <3>2, <3>4, <1>1 DEF CheckPeerRequestID
      <4> QED BY <4>1, <1>1 DEF ClaimGap, Accept
    <3>3. CASE rid \notin gaps
      <4>1. dropped
        BY <3>1, <3>3 DEF GInv
      <4>2. dropped' = dropped
        <5>1. Refuse("duplicate")
          BY <2>1, <3>3, <3>4, <1>1 DEF CheckPeerRequestID
        <5> QED BY <5>1 DEF Refuse
      <4> QED BY <4>1, <4>2, <1>4
    <3> QED BY <3>2, <3>3
  <2> QED BY <2>2, <2>3, <2>1 DEF IInv, TypeOK
<1>5. next' % 2 = PeerBase'
  BY <1>1, <1>2 DEF TInv
<1>6. ASSUME ~faulty
      PROVE  /\ \A id \in flight' \union accepted' : ~WrongParity(id) /\ id < next
             /\ flight' \intersect accepted' = {}
  BY <1>1, <1>3, <1>6 DEF TInv
<1> QED BY <1>1, <1>2, <1>4, <1>5, <1>6 DEF TInv

(* The three together are an invariant. *)
THEOREM SequenceInvariant == Spec => [](IInv /\ GInv /\ TInv)
<1>1. Init => GInv /\ TInv
  <2> SUFFICES ASSUME Init PROVE GInv /\ TInv
    OBVIOUS
  <2>1. Cardinality(gaps) = 0
    BY FS_EmptySet DEF Init
  <2>2. GInv
    BY <2>1, MaxTrackedAssumption DEF Init, GInv, Missing, NewestClaimable, GapsBounded
  <2>3. PeerBase % 2 = PeerBase
    BY DEF PeerBase
  <2> QED BY <2>2, <2>3 DEF Init, TInv
<1>2. IInv /\ GInv /\ TInv /\ [Next]_vars => GInv' /\ TInv'
  <2> SUFFICES ASSUME IInv, GInv, TInv, [Next]_vars PROVE GInv' /\ TInv'
    OBVIOUS
  <2>1. CASE AllocRequestID
    <3>1. /\ UNCHANGED <<role, seen, max, gaps, closed, accepted, faulty, dropped>>
          /\ next' = next + 2 /\ flight' = flight \union {next} /\ next \in Nat
      BY <2>1 DEF AllocRequestID, IInv, TypeOK
    <3>2. GInv'
      BY <3>1 DEF GInv, Missing, NewestClaimable, GapsBounded, WrongParity, PeerBase
    <3>3. PeerBase' = PeerBase /\ (next + 2) % 2 = next % 2
      BY <3>1 DEF PeerBase
    <3>4. ASSUME ~faulty
          PROVE  /\ \A id \in flight' \union accepted : ~WrongParity(id) /\ id < next + 2
                 /\ flight' \intersect accepted = {}
      <4>1. ~WrongParity(next)
        BY DEF TInv, WrongParity
      <4>2. \A id \in flight \union accepted : ~WrongParity(id) /\ id < next /\ id \in Nat
        BY <3>4 DEF TInv, IInv, TypeOK
      <4>3. next \notin accepted
        BY <4>2, <3>1
      <4>4. flight \intersect accepted = {}
        BY <3>4 DEF TInv
      <4> QED BY <4>1, <4>2, <4>3, <4>4, <3>1
    <3>5. TInv'
      BY <3>1, <3>3, <3>4 DEF TInv, WrongParity
    <3> QED BY <3>2, <3>5
  <2>2. ASSUME NEW rid \in flight, Receive(rid) PROVE GInv' /\ TInv'
    <3>1. rid \in Nat /\ CheckPeerRequestID(rid) /\ role' = role
      BY <2>2 DEF Receive, IInv, TypeOK
    <3> QED BY <3>1, <2>2, CheckKeepsGInv, ReceiveKeepsTInv
  <2>3. ASSUME NEW rid \in IDs, ReceiveStray(rid) PROVE GInv' /\ TInv'
    <3>1. rid \in Nat /\ CheckPeerRequestID(rid) /\ role' = role /\ next' = next /\ faulty'
      BY <2>3 DEF ReceiveStray, IDs
    <3>2. TInv'
      BY <3>1 DEF TInv, PeerBase
    <3> QED BY <3>1, <3>2, CheckKeepsGInv
  <2>4. CASE UNCHANGED vars
    BY <2>4 DEF vars, GInv, TInv, Missing, NewestClaimable, GapsBounded, WrongParity, PeerBase
  <2> QED BY <2>1, <2>2, <2>3, <2>4 DEF Next
<1> QED BY <1>1, <1>2, IInvInvariant, PTL DEF Spec

(* No Request ID passes CheckPeerRequestID twice, for every cap on the       *)
(* remembered gaps, every delivery order and every misbehaviour of the peer. *)
THEOREM ClaimedOnceHolds == Spec => []ClaimedOnce
<1>1. IInv => ClaimedOnce
  BY DEF IInv
<1> QED BY <1>1, IInvInvariant, PTL

(* A peer that takes its Request IDs in turn is never refused because the    *)
(* network reordered its requests, until they lie so far apart that the cap  *)
(* on remembered gaps drops one.                                             *)
THEOREM ReorderToleratedHolds == Spec => []ReorderTolerated
<1>1. TInv => ReorderTolerated
  BY DEF TInv, ReorderTolerated
<1> QED BY <1>1, SequenceInvariant, PTL

(* recordRequestIDGaps drops the oldest gaps first, in whatever steps the    *)
(* mark moved: an ID that can no longer be claimed is older than every one   *)
(* that still can.                                                           *)
THEOREM NewestClaimableHolds == Spec => []NewestClaimable
<1>1. GInv => NewestClaimable
  BY DEF GInv
<1> QED BY <1>1, SequenceInvariant, PTL

(* The gaps never outgrow maxTrackedRequestIDGaps, whatever IDs the peer     *)
(* sends.                                                                    *)
THEOREM GapsBoundedHolds == Spec => []GapsBounded
<1>1. GInv => GapsBounded
  BY DEF GInv
<1> QED BY <1>1, SequenceInvariant, PTL
-----------------------------------------------------------------------------
(* TrackAliases. *)
CONSTANTS
    AliasSubs, AliasStreams, AliasNames,
    NoAlias,        \* no track, alias or subscription
    AliasTrack,     \* subscription -> its track
    MaxEarly

ASSUME AliasAssumption == IsFiniteSet(AliasSubs) /\ IsFiniteSet(AliasStreams)

VARIABLES
    aliasSub, alias, aliasEnder, released, bound, refs, tableClosed, carries, pc,
    woken, earlyN

A == INSTANCE TrackAliases WITH
    Subs <- AliasSubs, Streams <- AliasStreams, Aliases <- AliasNames,
    None <- NoAlias, TrackOf <- AliasTrack, sub <- aliasSub, ender <- aliasEnder,
    closed <- tableClosed, early <- earlyN

\* An alias is bound exactly while a subscription that uses it lives, and no
\* stream that waits for it misses its registration (trackalias.go).
AliasWhileLive == A!TypeOK /\ A!AliasWhileLive

\* The registrations an alias has: subscriptions that have not released theirs,
\* and those whose end has won the swap and is still to unregister.
Holder(s) ==
    /\ aliasSub[s] = "live"
    /\ ~released[s] \/ \E e \in A!Ends : aliasEnder[<<s, e>>] = "swapped"
Holders(a) == {s \in AliasSubs : Holder(s) /\ alias[s] = a}

AliasTypes ==
    /\ aliasSub \in [AliasSubs -> {"asked", "ok", "live", "refused"}]
    /\ alias \in [AliasSubs -> AliasNames \union {NoAlias}]
    /\ aliasEnder \in [AliasSubs \X A!Ends -> {"idle", "swapped", "done"}]
    /\ released \in [AliasSubs -> BOOLEAN]
    /\ bound \in [AliasNames -> A!Tracks \union {NoAlias}]
    /\ refs \in [AliasNames -> Nat]
    /\ tableClosed \in BOOLEAN
    /\ carries \in [AliasStreams -> AliasSubs \union {NoAlias}]
    /\ pc \in [AliasStreams -> {"none", "arrived", "counted", "waiting", "settled"}]
    /\ woken \subseteq AliasStreams
    /\ earlyN \in Int

\* Only a live subscription is released, by one end.
EndsOnce ==
    \A s \in AliasSubs :
        /\ aliasSub[s] # "live" =>
               ~released[s] /\ \A e \in A!Ends : aliasEnder[<<s, e>>] = "idle"
        /\ \A e \in A!Ends : aliasEnder[<<s, e>>] = "swapped" => released[s]
        /\ \A e, f \in A!Ends : aliasEnder[<<s, e>>] = "swapped" /\ aliasEnder[<<s, f>>] = "swapped" => e = f

\* An answered subscription has an alias, of its track alone.
Answered(s) == aliasSub[s] \in {"ok", "live"}
OneTrack ==
    /\ \A s \in AliasSubs : Answered(s) => alias[s] \in AliasNames
    /\ \A s, t \in AliasSubs : Answered(s) /\ Answered(t) /\ alias[s] = alias[t]
                               => AliasTrack[s] = AliasTrack[t]

\* The count is exact, and the alias bound while it is positive.
Counted ==
    \A a \in AliasNames :
        /\ refs[a] = Cardinality(Holders(a))
        /\ Holders(a) = {} => bound[a] = NoAlias
        /\ \A s \in Holders(a) : bound[a] = AliasTrack[s]

\* A stream that waits has a subscription to wait for.
Early == {d \in AliasStreams : pc[d] \in {"counted", "waiting"}}
Awaited ==
    /\ \A d \in AliasStreams : pc[d] \in {"arrived", "counted", "waiting"} =>
           carries[d] \in AliasSubs /\ Answered(carries[d])
    /\ \A d \in AliasStreams : pc[d] = "waiting" /\ d \notin woken => bound[alias[carries[d]]] = NoAlias
    /\ earlyN = Cardinality(Early)

AliasInv == AliasTypes /\ EndsOnce /\ OneTrack /\ Counted /\ Awaited

\* The instance counts as this module does.
LEMMA AliasCardinality == \A S : A!Cardinality(S) = Cardinality(S)
  BY DEF A!Cardinality, Cardinality

\* No alias has more registrations than there are subscriptions.
LEMMA HoldersFinite ==
    \A a \in AliasNames : IsFiniteSet(Holders(a)) /\ Cardinality(Holders(a)) \in 0..Cardinality(AliasSubs)
<1> SUFFICES ASSUME NEW a \in AliasNames
             PROVE  IsFiniteSet(Holders(a)) /\ Cardinality(Holders(a)) \in 0..Cardinality(AliasSubs)
  OBVIOUS
<1>1. Holders(a) \subseteq AliasSubs
  BY DEF Holders
<1> QED
  BY <1>1, AliasAssumption, FS_Subset, FS_CardinalityType

\* No more streams wait than there are.
LEMMA EarlyFinite == IsFiniteSet(Early) /\ Cardinality(Early) \in 0..Cardinality(AliasStreams)
<1>1. Early \subseteq AliasStreams
  BY DEF Early
<1> QED
  BY <1>1, AliasAssumption, FS_Subset, FS_CardinalityType

\* The publisher's answer, and its mistake.
LEMMA AcceptsStep ==
    ASSUME AliasInv, NEW s \in AliasSubs, NEW a \in AliasNames, A!PeerAccepts(s, a) \/ A!PeerMixesUp(s, a)
    PROVE  AliasInv'
<1>0. /\ UNCHANGED <<aliasEnder, released, bound, refs, carries, pc, earlyN, woken>>
      /\ aliasSub[s] = "asked" /\ tableClosed' \in BOOLEAN
      /\ aliasSub' = [aliasSub EXCEPT ![s] = aliasSub'[s]] /\ aliasSub'[s] \in {"ok", "refused"}
      /\ \/ aliasSub'[s] = "refused" /\ alias' = alias
         \/ /\ alias' = [alias EXCEPT ![s] = a]
            /\ \A t \in AliasSubs : alias[t] = a => AliasTrack[t] = AliasTrack[s]
  BY Zenon DEF A!PeerAccepts, A!PeerMixesUp, A!streamVars, AliasInv, AliasTypes
<1>1. AliasTypes'
  BY <1>0 DEF AliasInv, AliasTypes
<1>2. EndsOnce'
  BY <1>0 DEF AliasInv, AliasTypes, EndsOnce
<1>3. OneTrack'
  BY <1>0 DEF AliasInv, AliasTypes, OneTrack, Answered
<1>4. \A b \in AliasNames : Holders(b)' = Holders(b)
  BY <1>0, SMTT(60) DEF AliasInv, AliasTypes, Holders, Holder
<1>5. Counted'
  BY <1>0, <1>4 DEF AliasInv, Counted
<1>6. Awaited'
  <2>1. Early' = Early
    BY <1>0 DEF Early
  <2> QED
    BY <1>0, <2>1 DEF AliasInv, AliasTypes, Awaited, Answered
<1> QED BY <1>1, <1>2, <1>3, <1>5, <1>6, SMTT(60) DEF AliasInv

\* An answer read registers the alias, and wakes who waits if it is new.
LEMMA EstablishedStep ==
    ASSUME AliasInv, NEW s \in AliasSubs, A!Established(s)
    PROVE  AliasInv'
<1>1. PICK a \in AliasNames : a = alias[s]
  BY SMTT(60) DEF A!Established, AliasInv, OneTrack, Answered
<1>2. /\ aliasSub[s] = "ok" /\ aliasSub' = [aliasSub EXCEPT ![s] = "live"]
      /\ bound' = [bound EXCEPT ![a] = AliasTrack[s]]
      /\ refs' = [refs EXCEPT ![a] = @ + 1]
      /\ woken' = IF bound[a] = NoAlias THEN woken \union A!Waiting ELSE woken
      /\ UNCHANGED <<alias, aliasEnder, released, tableClosed, carries, pc, earlyN>>
  BY <1>1, SMTT(60) DEF A!Established, A!registerInboundTrack, A!streamVars
<1>3. AliasTypes'
  <2>1. A!Waiting \subseteq AliasStreams
    BY DEF A!Waiting
  <2>2. AliasTrack[s] \in A!Tracks
    BY SMTT(60) DEF A!Tracks
  <2> QED BY <1>2, <2>1, <2>2 DEF AliasInv, AliasTypes
<1>4. EndsOnce' /\ OneTrack'
  BY <1>2 DEF AliasInv, AliasTypes, EndsOnce, OneTrack, Answered
<1>5. s \notin Holders(a) /\ Holders(a)' = Holders(a) \union {s}
  BY <1>1, <1>2, ZenonT(60) DEF AliasInv, AliasTypes, EndsOnce, Holders, Holder
<1>6. \A b \in AliasNames \ {a} : Holders(b)' = Holders(b)
  BY <1>1, <1>2 DEF AliasInv, AliasTypes, Holders, Holder
<1>7. Counted'
  <2> SUFFICES ASSUME NEW b \in AliasNames
               PROVE  /\ refs'[b] = Cardinality(Holders(b)')
                      /\ Holders(b)' = {} => bound'[b] = NoAlias
                      /\ \A t \in Holders(b)' : bound'[b] = AliasTrack[t]
    BY DEF Counted
  <2>1. CASE b = a
    <3>1. refs'[a] = Cardinality(Holders(a)')
      <4>1. Cardinality(Holders(a)') = Cardinality(Holders(a)) + 1
        BY <1>5, HoldersFinite, FS_AddElement, ZenonT(60)
      <4> QED BY <1>2, <4>1 DEF AliasInv, AliasTypes, Counted
    <3>2. \A t \in Holders(a)' : AliasTrack[s] = AliasTrack[t]
      BY <1>1, <1>2, <1>5, SMTT(60) DEF AliasInv, OneTrack, Answered, Holders, Holder
    <3>3. bound'[a] = AliasTrack[s]
      BY <1>2 DEF AliasInv, AliasTypes
    <3> QED BY <2>1, <1>5, <3>1, <3>2, <3>3, SMTT(60)
  <2>2. CASE b # a
    BY <2>2, <1>2, <1>6, SMTT(60) DEF AliasInv, AliasTypes, Counted
  <2> QED BY <2>1, <2>2
<1>8. Awaited'
  <2>1. Early' = Early
    BY <1>2, SMTT(60) DEF Early
  <2>2. ASSUME NEW d \in AliasStreams, pc'[d] = "waiting", d \notin woken'
        PROVE  bound'[alias'[carries'[d]]] = NoAlias
    <3>1. pc[d] = "waiting" /\ d \notin woken /\ bound[a] # NoAlias
      BY <1>2, <2>2, SMTT(60) DEF A!Waiting
    <3>2. bound[alias[carries[d]]] = NoAlias /\ alias[carries[d]] \in AliasNames
      BY <3>1 DEF AliasInv, Awaited, OneTrack
    <3> QED BY <1>2, <3>1, <3>2 DEF AliasInv, AliasTypes
  <2> QED BY <1>2, <2>1, <2>2 DEF AliasInv, AliasTypes, Awaited, Answered
<1> QED BY <1>3, <1>4, <1>7, <1>8, SMTT(60) DEF AliasInv

\* An end of the subscription: the first to swap is left to unregister.
LEMMA TerminatedStep ==
    ASSUME AliasInv, NEW s \in AliasSubs, NEW e \in A!Ends, A!Terminated(s, e)
    PROVE  AliasInv'
<1>1. /\ aliasSub[s] = "live" /\ aliasEnder[<<s, e>>] = "idle"
      /\ aliasEnder' = [aliasEnder EXCEPT ![<<s, e>>] = IF released[s] THEN "done" ELSE "swapped"]
      /\ released' = [released EXCEPT ![s] = TRUE]
      /\ UNCHANGED <<aliasSub, alias, bound, refs, tableClosed, carries, pc, earlyN, woken>>
  BY DEF A!Terminated, A!streamVars
<1>2. AliasTypes'
  BY <1>1, SMTT(60) DEF AliasInv, AliasTypes
<1>3. /\ \A t \in AliasSubs, f \in A!Ends : <<t, f>> # <<s, e>> => aliasEnder'[<<t, f>>] = aliasEnder[<<t, f>>]
      /\ aliasEnder'[<<s, e>>] = IF released[s] THEN "done" ELSE "swapped"
      /\ released'[s] /\ \A t \in AliasSubs \ {s} : released'[t] = released[t]
  BY <1>1, SMTT(60) DEF AliasInv, AliasTypes
<1>4. EndsOnce'
  BY <1>1, <1>3, SMTT(60) DEF AliasInv, AliasTypes, EndsOnce
<1>5. OneTrack'
  BY <1>1 DEF AliasInv, OneTrack, Answered
<1>6. \A t \in AliasSubs : Holder(t)' <=> Holder(t)
  <2>1. \A t \in AliasSubs \ {s} : Holder(t)' <=> Holder(t)
    BY <1>1, <1>3 DEF Holder
  <2>2. CASE released[s]
    <3>1. aliasEnder'[<<s, e>>] = "done"
      BY <1>3, <2>2, SMTT(60)
    <3>2. ASSUME NEW f \in A!Ends
          PROVE  aliasEnder'[<<s, f>>] = "swapped" <=> aliasEnder[<<s, f>>] = "swapped"
      <4>1. CASE f = e
        BY <1>1, <3>1, <4>1, SMTT(60)
      <4>2. CASE f # e
        BY <1>3, <4>2
      <4> QED BY <4>1, <4>2
    <3>3. Holder(s)' <=> Holder(s)
      BY <1>1, <1>3, <2>2, <3>2, Zenon DEF Holder
    <3> QED BY <2>1, <3>3, SMTT(60)
  <2>3. CASE ~released[s]
    <3>1. Holder(s)
      BY <1>1, <2>3 DEF Holder
    <3>2. aliasEnder'[<<s, e>>] = "swapped" /\ aliasSub'[s] = "live"
      BY <1>1, <1>3, <2>3
    <3>3. Holder(s)'
      BY <3>2, SMTT(60) DEF Holder
    <3> QED BY <2>1, <3>1, <3>3
  <2> QED BY <2>2, <2>3, SMTT(60)
<1>7. \A b \in AliasNames : Holders(b)' = Holders(b)
  BY <1>1, <1>6, SMTT(60) DEF Holders
<1>8. Counted'
  BY <1>1, <1>7, SMTT(60) DEF AliasInv, Counted
<1>9. Awaited'
  <2>1. Early' = Early
    BY <1>1 DEF Early
  <2> QED BY <1>1, <2>1 DEF AliasInv, Awaited, Answered
<1> QED BY <1>2, <1>4, <1>5, <1>8, <1>9, SMTT(60) DEF AliasInv

\* The winner unregisters: the last registration takes the alias with it.
LEMMA UnregisterStep ==
    ASSUME AliasInv, NEW s \in AliasSubs, NEW e \in A!Ends, A!UnregisterInboundTrackAlias(s, e)
    PROVE  AliasInv'
<1>1. aliasSub[s] = "live" /\ released[s] /\ aliasEnder[<<s, e>>] = "swapped"
  BY SMTT(60) DEF A!UnregisterInboundTrackAlias, AliasInv, AliasTypes, EndsOnce
<1>2. PICK a \in AliasNames : a = alias[s]
  BY <1>1, SMTT(60) DEF AliasInv, OneTrack, Answered
<1>3. /\ aliasEnder' = [aliasEnder EXCEPT ![<<s, e>>] = "done"]
      /\ bound' = IF refs[a] <= 1 THEN [bound EXCEPT ![a] = NoAlias] ELSE bound
      /\ refs' = [refs EXCEPT ![a] = IF refs[a] <= 1 THEN 0 ELSE @ - 1]
      /\ UNCHANGED <<aliasSub, alias, released, tableClosed, carries, pc, earlyN, woken>>
  BY <1>2, SMTT(60) DEF A!UnregisterInboundTrackAlias, A!streamVars
<1>4. AliasTypes'
  <2>1. refs' \in [AliasNames -> Nat]
    BY <1>3, SMTT(60) DEF AliasInv, AliasTypes
  <2> QED BY <1>3, <2>1, SMTT(60) DEF AliasInv, AliasTypes
<1>5. /\ \A t \in AliasSubs, f \in A!Ends : <<t, f>> # <<s, e>> => aliasEnder'[<<t, f>>] = aliasEnder[<<t, f>>]
      /\ aliasEnder'[<<s, e>>] = "done"
  BY <1>3, SMTT(60) DEF AliasInv, AliasTypes
<1>6. EndsOnce' /\ OneTrack'
  BY <1>1, <1>3, <1>5 DEF AliasInv, EndsOnce, OneTrack, Answered
<1>7. \A t \in AliasSubs : Holder(t)' <=> Holder(t) /\ t # s
  <2>1. \A f \in A!Ends : aliasEnder'[<<s, f>>] # "swapped"
    BY <1>1, <1>5, SMTT(60) DEF AliasInv, EndsOnce
  <2>2. ~Holder(s)'
    BY <1>1, <1>3, <2>1, Zenon DEF Holder
  <2>3. \A t \in AliasSubs \ {s} : Holder(t)' <=> Holder(t)
    BY <1>3, <1>5, SMTT(60) DEF Holder
  <2> QED BY <2>2, <2>3, SMTT(60)
<1>8. /\ s \in Holders(a) /\ Holders(a)' = Holders(a) \ {s}
      /\ \A b \in AliasNames \ {a} : Holders(b)' = Holders(b)
  BY <1>1, <1>2, <1>3, <1>7, SMTT(60) DEF Holders, Holder
<1>9. Counted'
  <2> SUFFICES ASSUME NEW b \in AliasNames
               PROVE  /\ refs'[b] = Cardinality(Holders(b)')
                      /\ Holders(b)' = {} => bound'[b] = NoAlias
                      /\ \A t \in Holders(b)' : bound'[b] = AliasTrack[t]
    BY SMTT(60) DEF Counted
  <2>1. CASE b = a
    <3>1. Cardinality(Holders(a)') = refs[a] - 1 /\ IsFiniteSet(Holders(a)') /\ refs[a] \in Nat
      BY <1>8, HoldersFinite, FS_RemoveElement, SMTT(60) DEF AliasInv, AliasTypes, Counted
    <3>2. CASE refs[a] <= 1
      <4>1. Cardinality(Holders(a)') = 0
        BY <3>1, <3>2, FS_CardinalityType
      <4>2. Holders(a)' = {}
        BY <3>1, <4>1, FS_EmptySet, SMTT(60)
      <4> QED BY <2>1, <1>3, <3>2, <4>1, <4>2, SMTT(60) DEF AliasInv, AliasTypes
    <3>3. CASE ~(refs[a] <= 1)
      <4>1. Holders(a)' # {}
        BY <3>1, <3>3, FS_EmptySet, SMTT(60)
      <4>2. refs'[a] = refs[a] - 1 /\ bound' = bound
        BY <1>3, <3>3, SMTT(60) DEF AliasInv, AliasTypes
      <4> QED BY <2>1, <1>8, <3>1, <4>1, <4>2, SMTT(60) DEF AliasInv, Counted
    <3> QED BY <3>2, <3>3, SMTT(60)
  <2>2. CASE b # a
    BY <2>2, <1>3, <1>8, SMTT(60) DEF AliasInv, AliasTypes, Counted
  <2> QED BY <2>1, <2>2, SMTT(60)
<1>10. Awaited'
  <2>1. Early' = Early
    BY <1>3 DEF Early
  <2>2. \A b \in AliasNames : bound[b] = NoAlias => bound'[b] = NoAlias
    BY <1>3, SMTT(60) DEF AliasInv, AliasTypes
  <2>3. \A d \in AliasStreams : pc[d] = "waiting" => alias[carries[d]] \in AliasNames
    BY DEF AliasInv, Awaited, OneTrack
  <2> QED BY <1>3, <2>1, <2>2, <2>3, Zenon DEF AliasInv, Awaited, Answered
<1> QED BY <1>4, <1>6, <1>9, <1>10, SMTT(60) DEF AliasInv

\* The streams' own steps touch no registration.
LEMMA StreamStep ==
    ASSUME AliasInv, NEW d \in AliasStreams,
           (\E s \in AliasSubs : A!StreamArrives(d, s)) \/ A!StreamSteps(d)
    PROVE  AliasInv'
<1>1. UNCHANGED <<aliasSub, alias, aliasEnder, released, bound, refs, tableClosed>>
  BY SMTT(60) DEF A!StreamArrives, A!StreamSteps, A!LookupHit, A!CountEarly, A!AwaitCheck,
     A!AwaitEnds, A!aliasVars
<1>2. EndsOnce' /\ OneTrack'
  BY <1>1, ZenonT(60) DEF AliasInv, EndsOnce, OneTrack, Answered
<1>3. Counted'
  <2>1. \A b \in AliasNames : Holders(b)' = Holders(b)
    BY <1>1, ZenonT(60) DEF Holders, Holder
  <2> QED BY <1>1, <2>1, SMTT(60) DEF AliasInv, Counted
<1>4. \A c \in AliasStreams \ {d} : pc'[c] = pc[c] /\ carries'[c] = carries[c] /\ (c \in woken' <=> c \in woken)
  BY SMTT(60) DEF AliasInv, AliasTypes, A!StreamArrives, A!StreamSteps, A!LookupHit, A!CountEarly,
     A!AwaitCheck, A!AwaitEnds, A!Settle
<1>5. /\ pc' = [pc EXCEPT ![d] = pc'[d]] /\ pc'[d] \in {"arrived", "counted", "waiting", "settled"}
      /\ carries' = [carries EXCEPT ![d] = carries'[d]]
      /\ woken' \subseteq woken
      /\ \/ carries'[d] \in AliasSubs /\ Answered(carries'[d])
         \/ pc'[d] = "settled" /\ carries'[d] = NoAlias
      /\ pc'[d] = "waiting" => bound[alias[carries'[d]]] = NoAlias
      /\ \/ earlyN' = earlyN /\ (d \in Early <=> pc'[d] \in {"counted", "waiting"})
         \/ earlyN' = earlyN + 1 /\ d \notin Early /\ pc'[d] = "counted"
         \/ earlyN' = earlyN - 1 /\ d \in Early /\ pc'[d] = "settled"
  <2>1. CASE \E s \in AliasSubs : A!StreamArrives(d, s)
    BY <2>1, SMTT(60) DEF AliasInv, AliasTypes, Awaited, Answered, Early, A!StreamArrives
  <2>2. CASE A!LookupHit(d)
    BY <2>2, SMTT(60) DEF AliasInv, AliasTypes, Awaited, Early, A!LookupHit, A!Settle
  <2>3. CASE A!CountEarly(d)
    BY <2>3, SMTT(60) DEF AliasInv, AliasTypes, Awaited, Early, A!CountEarly, A!Settle
  <2>4. CASE A!AwaitCheck(d)
    BY <2>4, SMTT(60) DEF AliasInv, AliasTypes, Awaited, Early, A!AwaitCheck, A!AliasBound, A!Settle
  <2>5. CASE A!AwaitEnds(d)
    BY <2>5, SMTT(60) DEF AliasInv, AliasTypes, Awaited, Early, A!AwaitEnds, A!Settle
  <2> QED BY <2>1, <2>2, <2>3, <2>4, <2>5, ZenonT(60) DEF A!StreamSteps
<1>6. AliasTypes'
  BY <1>1, <1>5, SMTT(60) DEF AliasInv, AliasTypes
<1>7. earlyN' = Cardinality(Early')
  <2>1. \A c \in AliasStreams \ {d} : c \in Early' <=> c \in Early
    BY <1>4, SMTT(60) DEF Early
  <2>2. CASE earlyN' = earlyN /\ (d \in Early <=> pc'[d] \in {"counted", "waiting"})
    <3>1. Early' = Early
      BY <2>1, <2>2, SMTT(60) DEF Early
    <3> QED BY <2>2, <3>1, SMTT(60) DEF AliasInv, Awaited
  <2>3. CASE earlyN' = earlyN + 1 /\ d \notin Early /\ pc'[d] = "counted"
    <3>1. Early' = Early \union {d}
      BY <2>1, <2>3, SMTT(60) DEF Early
    <3>2. Cardinality(Early') = Cardinality(Early) + 1
      BY <2>3, <3>1, EarlyFinite, FS_AddElement, SMTT(60)
    <3> QED BY <2>3, <3>2, SMTT(60) DEF AliasInv, Awaited
  <2>4. CASE earlyN' = earlyN - 1 /\ d \in Early /\ pc'[d] = "settled"
    <3>1. Early' = Early \ {d}
      BY <2>1, <2>4, SMTT(60) DEF Early
    <3>2. Cardinality(Early') = Cardinality(Early) - 1
      BY <2>4, <3>1, EarlyFinite, FS_RemoveElement, SMTT(60)
    <3> QED BY <2>4, <3>2, SMTT(60) DEF AliasInv, Awaited
  <2> QED BY <1>5, <2>2, <2>3, <2>4, ZenonT(60)
<1>8. Awaited'
  BY <1>1, <1>4, <1>5, <1>7 DEF AliasInv, Awaited, Answered
<1> QED BY <1>2, <1>3, <1>6, <1>8, SMTT(60) DEF AliasInv

\* What the session keeps of its inbound aliases is right, however many
\* subscriptions share one, whichever of a subscription's ends comes first and
\* wherever the streams that wait for one are (trackalias.go, request.go).
THEOREM AliasWhileLiveHolds == A!Spec => []AliasWhileLive
<1>1. A!Init => AliasInv
  <2> SUFFICES ASSUME A!Init PROVE AliasInv
    OBVIOUS
  <2>1. AliasTypes
    <3>1. /\ aliasSub \in [AliasSubs -> {"asked", "ok", "live", "refused"}]
          /\ alias \in [AliasSubs -> AliasNames \union {NoAlias}]
          /\ aliasEnder \in [AliasSubs \X A!Ends -> {"idle", "swapped", "done"}]
          /\ released \in [AliasSubs -> BOOLEAN]
      BY DEF A!Init
    <3>2. /\ bound \in [AliasNames -> A!Tracks \union {NoAlias}]
          /\ refs \in [AliasNames -> Nat]
          /\ carries \in [AliasStreams -> AliasSubs \union {NoAlias}]
          /\ pc \in [AliasStreams -> {"none", "arrived", "counted", "waiting", "settled"}]
      BY DEF A!Init
    <3>3. tableClosed \in BOOLEAN
      BY Zenon DEF A!Init
    <3>4. woken \subseteq AliasStreams /\ earlyN \in Int
      BY SMTT(60) DEF A!Init
    <3> QED BY <3>1, <3>2, <3>3, <3>4 DEF AliasTypes
  <2>3. EndsOnce /\ OneTrack
    BY DEF A!Init, EndsOnce, OneTrack, Answered
  <2>2. Early = {} /\ \A a \in AliasNames : Holders(a) = {}
    BY DEF A!Init, Early, Holders, Holder
  <2> QED BY <2>1, <2>2, <2>3, FS_EmptySet, Zenon DEF A!Init, AliasInv, Counted, Awaited
<1>2. AliasInv /\ [A!Next]_A!vars => AliasInv'
  <2> SUFFICES ASSUME AliasInv, [A!Next]_A!vars PROVE AliasInv'
    OBVIOUS
  <2>1. CASE UNCHANGED A!vars
    <3>1. UNCHANGED <<aliasSub, alias, aliasEnder, released, bound, refs, tableClosed,
                      carries, pc, earlyN, woken>>
      BY <2>1, SMTT(60) DEF A!vars, A!aliasVars, A!streamVars
    <3>2. AliasTypes' /\ EndsOnce' /\ OneTrack'
      BY <3>1, SMTT(60) DEF AliasInv, AliasTypes, EndsOnce, OneTrack, Answered
    <3>3. Early' = Early
      BY <3>1 DEF Early
    <3>4. \A a \in AliasNames : Holders(a)' = Holders(a)
      BY <3>1, ZenonT(60) DEF Holders, Holder
    <3>5. Counted'
      BY <3>1, <3>4 DEF AliasInv, Counted
    <3>6. Awaited'
      BY <3>1, <3>3 DEF AliasInv, Awaited, Answered
    <3> QED BY <3>2, <3>5, <3>6 DEF AliasInv
  <2>2. CASE A!Next
    BY <2>2, AcceptsStep, EstablishedStep, TerminatedStep, UnregisterStep, StreamStep
       DEF A!Next
  <2> QED BY <2>1, <2>2
<1>3. AliasInv => AliasWhileLive
  <2> SUFFICES ASSUME AliasInv PROVE AliasWhileLive
    OBVIOUS
  <2>1. A!TypeOK
    <3>1. refs \in [AliasNames -> 0..Cardinality(AliasSubs)]
      BY HoldersFinite, SMTT(60) DEF AliasInv, AliasTypes, Counted
    <3>2. earlyN \in 0..Cardinality(AliasStreams)
      BY EarlyFinite, SMTT(60) DEF AliasInv, Awaited
    <3> QED BY <3>1, <3>2, AliasCardinality, SMTT(60) DEF AliasInv, AliasTypes, A!TypeOK
  <2>2. A!LiveAliasResolves
    BY ZenonT(60) DEF AliasInv, OneTrack, Answered, Counted, Holders, Holder, A!LiveAliasResolves
  <2>3. A!ReleasedAliasGone
    <3> SUFFICES ASSUME NEW a \in AliasNames,
                        \A s \in AliasSubs : aliasSub[s] = "live" /\ alias[s] = a =>
                            released[s] /\ \A e \in A!Ends : aliasEnder[<<s, e>>] # "swapped"
                 PROVE  bound[a] = NoAlias /\ refs[a] = 0
      BY DEF A!ReleasedAliasGone
    <3>1. Holders(a) = {}
      BY Zenon DEF Holders, Holder
    <3> QED BY <3>1, FS_EmptySet, SMTT(60) DEF AliasInv, Counted
  <2>4. A!NoMissedRegistration
    BY DEF AliasInv, Awaited, A!NoMissedRegistration, A!Waiting, A!AliasBound
  <2> QED BY <2>1, <2>2, <2>3, <2>4, SMTT(60) DEF AliasWhileLive, A!AliasWhileLive
<1> QED BY <1>1, <1>2, <1>3, PTL DEF A!Spec
=============================================================================
