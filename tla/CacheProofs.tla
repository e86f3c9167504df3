---------------------------- MODULE CacheProofs ----------------------------
(***************************************************************************)
(* Ring, index and count of the object cache agree, and the cache is the   *)
(* queue it promises to be, for every capacity and any Objects             *)
(* (ObjectCache).  The Forward State asked of the upstreams follows the    *)
(* downstreams that watch, for any number of them (ForwardState).          *)
(***************************************************************************)
EXTENDS ObjectCache, Sequences, FiniteSetTheorems, TLAPS

\* The index points at each stored Object and at nothing else.
Indexed == \A k \in Keys, i \in Slots : index[k] = i <=> ring[i].key = k

\* The inductive invariant.
IInv == TypeOK /\ Coherent

\* The Objects' keys tell them from the empty slot.
LEMMA NilKey == nil.key = NoKey /\ \A o \in Objects : o # nil /\ o.key \in Keys
  BY CapAssumption DEF nil, Object, Objects

\* A slot's place in the ring.
LEMMA SlotRange == /\ 0 \in Slots /\ NoSlot \notin Slots
                   /\ \A i \in Slots : (i + 1) % Cap \in Slots
  BY CapAssumption DEF Slots, NoSlot

\* The initial state.
LEMMA InitIInv == Init => IInv
<1> SUFFICES ASSUME Init PROVE IInv
  OBVIOUS
<1>1. TypeOK
  BY SlotRange, TimeAssumption DEF Init, TypeOK
<1>2. Indexed
  BY NilKey, SlotRange, CapAssumption DEF Init, Indexed
<1>3. Live = {}
  BY DEF Live, Init
<1>4. size = Cardinality(Live)
  BY <1>3, FS_EmptySet DEF Init
<1> QED
  BY <1>1, <1>2, <1>4 DEF IInv, Coherent, Indexed

\* The stored Objects are finitely many.
LEMMA LiveFinite == IsFiniteSet(Live) /\ Cardinality(Live) \in Nat
<1>1. IsFiniteSet(Slots)
  BY CapAssumption, FS_Interval DEF Slots
<1> QED
  BY <1>1, FS_Subset, FS_CardinalityType DEF Live

\* insertLocked keeps the types.
LEMMA InsertTypes ==
  ASSUME TypeOK, NEW o \in putting, PutInsert(o) PROVE TypeOK'
<1> o \in Objects
  BY DEF TypeOK
<1>1. CASE index[o.key] # NoSlot
  BY <1>1, NilKey DEF TypeOK, PutInsert, insertLocked
<1>2. CASE index[o.key] = NoSlot
  <2>1. head' \in Slots /\ size' \in Int /\ now' \in 0..MaxNow /\ putting' \subseteq Objects
    BY <1>2, SlotRange DEF TypeOK, PutInsert, insertLocked
  <2>2. index' \in [Keys -> Slots \cup {NoSlot}]
    BY <1>2 DEF TypeOK, PutInsert, insertLocked, reindex
  <2>3. ring' \in [Slots -> Objects \cup {nil}]
    BY <1>2 DEF TypeOK, PutInsert, insertLocked
  <2> QED
    BY <2>1, <2>2, <2>3 DEF TypeOK
<1> QED
  BY <1>1, <1>2

\* insertLocked keeps ring and index in agreement.
LEMMA InsertIndexed ==
  ASSUME TypeOK, Indexed, NEW o \in putting, PutInsert(o) PROVE Indexed'
<1> o \in Objects /\ o.key \in Keys
  BY NilKey DEF TypeOK
<1> SUFFICES ASSUME NEW k \in Keys, NEW i \in Slots
             PROVE  index'[k] = i <=> ring'[i].key = k
  BY DEF Indexed
<1>1. CASE index[o.key] # NoSlot
  <2>1. index[o.key] \in Slots /\ ring[index[o.key]].key = o.key
    BY <1>1 DEF TypeOK, Indexed
  <2>2. index' = index /\ ring' = [ring EXCEPT ![index[o.key]] = o]
    BY <1>1 DEF PutInsert, insertLocked
  <2>3. ring'[i].key = ring[i].key
    BY <2>1, <2>2 DEF TypeOK
  <2> QED
    BY <2>2, <2>3 DEF Indexed
<1>2. CASE index[o.key] = NoSlot
  <2>1. /\ index' = reindex(o)
        /\ ring' = [ring EXCEPT ![head] = o]
    BY <1>2 DEF PutInsert, insertLocked
  <2>2. head \in Slots /\ ring'[i] = IF i = head THEN o ELSE ring[i]
    BY <2>1 DEF TypeOK
  <2>3. index'[k] = IF k = o.key THEN head
                    ELSE IF k = ring[head].key THEN NoSlot ELSE index[k]
    BY <2>1 DEF reindex
  <2>4. \A j \in Slots : ring[j].key # o.key
    BY <1>2, SlotRange DEF Indexed
  <2>5. index[k] = head <=> ring[head].key = k
    BY <2>2 DEF Indexed
  <2>6. index[k] = i <=> ring[i].key = k
    BY DEF Indexed
  <2> QED
    BY <2>2, <2>3, <2>4, <2>5, <2>6, SlotRange
<1> QED
  BY <1>1, <1>2

\* insertLocked keeps the count: an overwrite and an eviction store one Object
\* for another, and only a Put into an empty slot adds one.
LEMMA InsertCounts ==
  ASSUME TypeOK, Indexed, size = Cardinality(Live), NEW o \in putting, PutInsert(o)
  PROVE  size' = Cardinality(Live')
<1> o \in Objects /\ o.key \in Keys /\ o # nil
  BY NilKey DEF TypeOK
<1>1. CASE index[o.key] # NoSlot
  <2>1. index[o.key] \in Slots /\ ring[index[o.key]].key = o.key
    BY <1>1 DEF TypeOK, Indexed
  <2>2. ring[index[o.key]] # nil
    BY <2>1, NilKey, CapAssumption
  <2>3. Live' = Live
    BY <1>1, <2>1, <2>2 DEF TypeOK, PutInsert, insertLocked, Live
  <2> QED
    BY <1>1, <2>3 DEF PutInsert, insertLocked
<1>2. CASE index[o.key] = NoSlot
  <2>1. head \in Slots /\ ring' = [ring EXCEPT ![head] = o]
    BY <1>2 DEF PutInsert, insertLocked, TypeOK
  <2>2. Live' = Live \cup {head}
    BY <2>1 DEF Live, TypeOK
  <2>3. Cardinality(Live') = IF head \in Live THEN Cardinality(Live) ELSE Cardinality(Live) + 1
    BY <2>2, LiveFinite, FS_AddElement, Zenon
  <2>4. head \in Live <=> ring[head] # nil
    BY <2>1 DEF Live
  <2> QED
    BY <1>2, <2>3, <2>4 DEF PutInsert, insertLocked
<1> QED
  BY <1>1, <1>2

\* Delete keeps all three.
LEMMA DeleteKeeps ==
  ASSUME IInv, NEW k \in Keys, Delete(k) PROVE IInv'
<1>1. index[k] \in Slots /\ ring[index[k]].key = k
  BY DEF IInv, TypeOK, Coherent, Delete
<1>2. TypeOK'
  BY <1>1 DEF IInv, TypeOK, Delete
<1>3. Indexed'
  <2> SUFFICES ASSUME NEW m \in Keys, NEW i \in Slots
               PROVE  index'[m] = i <=> ring'[i].key = m
    BY DEF Indexed
  <2>1. ring'[i] = IF i = index[k] THEN nil ELSE ring[i]
    BY <1>1 DEF IInv, TypeOK, Delete
  <2>2. index'[m] = IF m = k THEN NoSlot ELSE index[m]
    BY DEF IInv, TypeOK, Delete
  <2>3. /\ index[m] = i <=> ring[i].key = m
        /\ index[k] = i <=> ring[i].key = k
    BY DEF IInv, Coherent
  <2> QED
    BY <1>1, <2>1, <2>2, <2>3, NilKey, SlotRange, CapAssumption
<1>4. size' = Cardinality(Live')
  <2>1. index[k] \in Live
    BY <1>1, NilKey, CapAssumption DEF Live
  <2>2. Live' = Live \ {index[k]}
    BY <1>1 DEF Live, Delete, IInv, TypeOK
  <2>3. Cardinality(Live') = Cardinality(Live) - 1
    BY <2>1, <2>2, LiveFinite, FS_RemoveElement, Zenon
  <2> QED
    BY <2>3 DEF Delete, IInv, Coherent
<1> QED
  BY <1>2, <1>3, <1>4 DEF IInv, Coherent, Indexed

\* Every step keeps the invariant.
LEMMA NextIInv == IInv /\ [Next]_vars => IInv'
<1> SUFFICES ASSUME IInv, [Next]_vars PROVE IInv'
  OBVIOUS
<1>1. ASSUME NEW k \in Keys, NEW d \in Durations, PutStamp(k, d) PROVE IInv'
  <2>1. Object(k, d, now) \in Objects
    BY DEF Object, Objects, IInv, TypeOK
  <2>2. TypeOK'
    BY <1>1, <2>1 DEF IInv, TypeOK, PutStamp
  <2>3. Live' = Live
    BY <1>1 DEF PutStamp, Live
  <2> QED
    BY <1>1, <2>2, <2>3 DEF IInv, Coherent, PutStamp
<1>2. ASSUME NEW o \in putting, PutInsert(o) PROVE IInv'
  BY <1>2, InsertTypes, InsertIndexed, InsertCounts DEF IInv, Coherent, Indexed
<1>3. ASSUME NEW k \in Keys, Delete(k) PROVE IInv'
  BY <1>3, DeleteKeeps
<1>4. CASE Tick
  <2>1. TypeOK'
    BY <1>4, TimeAssumption DEF IInv, TypeOK, Tick
  <2>2. Live' = Live
    BY <1>4 DEF Tick, Live
  <2> QED
    BY <1>4, <2>1, <2>2 DEF IInv, Coherent, Tick
<1>5. CASE UNCHANGED vars
  BY <1>5 DEF vars, IInv, TypeOK, Coherent, Live
<1> QED
  BY <1>1, <1>2, <1>3, <1>4, <1>5 DEF Next

\* A lookup and a scan of one Location give the same Objects.
LEMMA OneObject == ASSUME IInv, NEW k \in Keys PROVE GetRange({k}) = Get(k)
<1>1. \A i \in Slots : index[k] = i <=> ring[i].key = k
  BY DEF IInv, Coherent
<1>2. index[k] \in Slots \cup {NoSlot} /\ NoSlot \notin Slots
  BY SlotRange DEF IInv, TypeOK
<1>3. CASE index[k] = NoSlot
  <2>1. GetRange({k}) = {}
    BY <1>1, <1>2, <1>3 DEF GetRange
  <2> QED
    BY <1>3, <2>1 DEF Get
<1>4. CASE index[k] # NoSlot
  <2>1. index[k] \in Slots
    BY <1>2, <1>4
  <2>2. ring[index[k]].key = k
    BY <1>1, <2>1
  <2>3. ring[index[k]] # nil
    <3>1. k # NoKey
      BY CapAssumption
    <3> QED
      BY <2>2, <3>1, NilKey
  <2>4. \A i \in Slots : ring[i].key = k => i = index[k]
    BY <1>1
  <2>5. ring[index[k]] \in {ring[i] : i \in Slots}
    BY <2>1
  <2> QED
    BY <1>4, <2>2, <2>3, <2>4, <2>5 DEF Get, GetRange
<1> QED
  BY <1>3, <1>4

\* Ring, index and count of the cache agree in every reachable state, and so do
\* Get and GetRange, whatever the capacity and whichever Objects are put,
\* overwritten, evicted and deleted.
THEOREM CacheCoherentHolds == Spec => []CacheCoherent
<1>1. IInv => ReadsAgree
  <2> SUFFICES ASSUME IInv PROVE ReadsAgree
    OBVIOUS
  <2>1. \A k \in Keys : GetRange({k}) = Get(k)
    BY OneObject
  <2>2. \A i \in Live : ring[i].key \in Keys /\ index[ring[i].key] = i
    BY NilKey DEF Live, IInv, TypeOK, Coherent
  <2> QED
    BY <2>1, <2>2 DEF ReadsAgree
<1>2. IInv => CacheCoherent
  BY <1>1 DEF IInv, CacheCoherent
<1> QED
  BY InitIInv, NextIInv, <1>2, PTL DEF Spec
-----------------------------------------------------------------------------
\* The slot of the i-th oldest place.
at(h, i) == (h + i) % Cap

\* Going round the ring once.
LEMMA Around == \A h, i \in Slots : /\ at(h, i) \in Slots
                                   /\ at(h, i) = IF h + i < Cap THEN h + i ELSE h + i - Cap
<1> SUFFICES ASSUME NEW h \in Slots, NEW i \in Slots
             PROVE  at(h, i) = IF h + i < Cap THEN h + i ELSE h + i - Cap
  BY CapAssumption DEF Slots
<1>1. CASE h + i < Cap
  <2>1. h + i \in 0..(Cap - 1)
    BY <1>1, CapAssumption DEF Slots
  <2> QED
    BY <1>1, <2>1, CapAssumption DEF at
<1>2. CASE ~(h + i < Cap)
  <2> DEFINE y == h + i - Cap
  <2>1. y \in 0..(Cap - 1) /\ y + Cap = h + i
    BY <1>2, CapAssumption DEF Slots
  <2> HIDE DEF y
  <2>2. (y + Cap) % Cap = y
    BY <2>1, CapAssumption
  <2> QED
    BY <1>2, <2>1, <2>2 DEF at, y
<1> QED
  BY <1>1, <1>2

\* Once the head has moved on, each place is the one after it before, and the
\* old head is the newest.
LEMMA Advance ==
  \A h, i \in Slots :
    LET n == (h + 1) % Cap
    IN /\ n \in Slots
       /\ i = Cap - 1 => at(n, i) = h
       /\ i # Cap - 1 => i + 1 \in Slots /\ at(n, i) = at(h, i + 1) /\ at(n, i) # h
<1> SUFFICES ASSUME NEW h \in Slots, NEW i \in Slots
             PROVE  LET n == (h + 1) % Cap
                    IN /\ n \in Slots
                       /\ i = Cap - 1 => at(n, i) = h
                       /\ i # Cap - 1 => i + 1 \in Slots /\ at(n, i) = at(h, i + 1) /\ at(n, i) # h
  OBVIOUS
<1> DEFINE n == (h + 1) % Cap
<1>1. n \in Slots
  BY SlotRange
<1>2. n = IF h + 1 < Cap THEN h + 1 ELSE 0
  <2>1. CASE h + 1 < Cap
    <3>1. h + 1 \in 0..(Cap - 1)
      BY <2>1, CapAssumption DEF Slots
    <3> QED
      BY <2>1, <3>1, CapAssumption
  <2>2. CASE ~(h + 1 < Cap)
    <3>1. h + 1 = Cap
      BY <2>2, CapAssumption DEF Slots
    <3>2. Cap % Cap = 0
      BY CapAssumption
    <3> QED
      BY <2>2, <3>1, <3>2
  <2> QED
    BY <2>1, <2>2
<1>3. at(n, i) = IF n + i < Cap THEN n + i ELSE n + i - Cap
  BY <1>1, Around
<1>4. i # Cap - 1 => /\ i + 1 \in Slots
                     /\ at(h, i + 1) = IF h + (i + 1) < Cap THEN h + (i + 1) ELSE h + (i + 1) - Cap
  <2> SUFFICES ASSUME i # Cap - 1
               PROVE  /\ i + 1 \in Slots
                      /\ at(h, i + 1) = IF h + (i + 1) < Cap THEN h + (i + 1) ELSE h + (i + 1) - Cap
    OBVIOUS
  <2>1. i + 1 \in Slots
    BY CapAssumption DEF Slots
  <2> QED
    BY <2>1, Around
<1> HIDE DEF n
<1>5. i = Cap - 1 => at(n, i) = h
  BY <1>2, <1>3, CapAssumption DEF Slots
<1>6. i # Cap - 1 => at(n, i) = at(h, i + 1) /\ at(n, i) # h
  BY <1>2, <1>3, <1>4, CapAssumption DEF Slots
<1> QED
  BY <1>1, <1>4, <1>5, <1>6 DEF n

Places == [i \in Slots |-> ring[at(head, i)].key]

\* Every slot is at some place.
LEMMA Onto == \A h, s \in Slots : \E i \in Slots : at(h, i) = s
<1> SUFFICES ASSUME NEW h \in Slots, NEW s \in Slots
             PROVE  \E i \in Slots : at(h, i) = s
  OBVIOUS
<1>1. CASE s >= h
  <2>1. s - h \in Slots
    BY <1>1, CapAssumption DEF Slots
  <2>2. at(h, s - h) = s
    BY <1>1, <2>1, Around, CapAssumption DEF Slots
  <2> QED
    BY <2>1, <2>2
<1>2. CASE ~(s >= h)
  <2>1. s - h + Cap \in Slots
    BY <1>2, CapAssumption DEF Slots
  <2>2. at(h, s - h + Cap) = s
    BY <1>2, <2>1, Around, CapAssumption DEF Slots
  <2> QED
    BY <2>1, <2>2
<1> QED
  BY <1>1, <1>2

\* A Location is at a place exactly when it is indexed.
LEMMA HoldsIndexed ==
  ASSUME IInv, NEW k \in Keys
  PROVE  (\E i \in Slots : Places[i] = k) <=> index[k] # NoSlot
<1>1. ASSUME NEW i \in Slots, Places[i] = k PROVE index[k] # NoSlot
  <2>1. at(head, i) \in Slots /\ ring[at(head, i)].key = k
    BY <1>1, Around DEF Places, IInv, TypeOK
  <2> QED
    BY <2>1, SlotRange DEF IInv, Coherent
<1>2. ASSUME index[k] # NoSlot PROVE \E i \in Slots : Places[i] = k
  <2>1. index[k] \in Slots /\ ring[index[k]].key = k
    BY <1>2 DEF IInv, TypeOK, Coherent
  <2>2. PICK i \in Slots : at(head, i) = index[k]
    BY <2>1, Onto DEF IInv, TypeOK
  <2> QED
    BY <2>1, <2>2 DEF Places
<1> QED
  BY <1>1, <1>2

\* A Put of a new Location gives up the oldest place and takes the newest.
LEMMA InsertPlaces ==
  ASSUME IInv, NEW o \in putting, PutInsert(o), index[o.key] = NoSlot
  PROVE  Places' = [i \in Slots |-> IF i = Cap - 1 THEN o.key ELSE Places[i + 1]]
<1>1. /\ head \in Slots
      /\ ring' = [ring EXCEPT ![head] = o]
      /\ head' = (head + 1) % Cap
  BY DEF PutInsert, insertLocked, IInv, TypeOK
<1> SUFFICES ASSUME NEW i \in Slots
             PROVE  ring'[at(head', i)].key = IF i = Cap - 1 THEN o.key ELSE Places[i + 1]
  BY DEF Places
<1>2. CASE i = Cap - 1
  <2>1. at(head', i) = head
    BY <1>1, <1>2, Advance
  <2> QED
    BY <1>1, <1>2, <2>1 DEF IInv, TypeOK
<1>3. CASE i # Cap - 1
  <2>1. i + 1 \in Slots /\ at(head', i) = at(head, i + 1) /\ at(head', i) # head
    BY <1>1, <1>3, Advance
  <2>2. at(head, i + 1) \in Slots
    BY <1>1, <2>1, Around
  <2>3. ring'[at(head', i)] = ring[at(head, i + 1)]
    BY <1>1, <2>1, <2>2 DEF IInv, TypeOK
  <2> QED
    BY <1>3, <2>1, <2>3 DEF Places
<1> QED
  BY <1>2, <1>3

\* An overwrite leaves every place as it was.
LEMMA OverwritePlaces ==
  ASSUME IInv, NEW o \in putting, PutInsert(o), index[o.key] # NoSlot
  PROVE  Places' = Places
<1>0. o \in Objects /\ o.key \in Keys
  BY NilKey DEF IInv, TypeOK
<1>1. index[o.key] \in Slots /\ ring[index[o.key]].key = o.key
  BY <1>0 DEF IInv, TypeOK, Coherent
<1>2. head' = head /\ ring' = [ring EXCEPT ![index[o.key]] = o]
  BY DEF PutInsert, insertLocked
<1> SUFFICES ASSUME NEW i \in Slots PROVE ring'[at(head, i)].key = ring[at(head, i)].key
  BY <1>2 DEF Places
<1>3. at(head, i) \in Slots
  BY Around DEF IInv, TypeOK
<1> QED
  BY <1>1, <1>2, <1>3 DEF IInv, TypeOK

\* A Delete empties the place of its Location.
LEMMA DeletePlaces ==
  ASSUME IInv, NEW k \in Keys, Delete(k)
  PROVE  Places' = [i \in Slots |-> IF Places[i] = k THEN NoKey ELSE Places[i]]
<1>1. index[k] \in Slots /\ ring[index[k]].key = k
  BY DEF IInv, TypeOK, Coherent, Delete
<1>2. head' = head /\ ring' = [ring EXCEPT ![index[k]] = nil]
  BY DEF Delete
<1> SUFFICES ASSUME NEW i \in Slots
             PROVE  ring'[at(head, i)].key =
                        IF ring[at(head, i)].key = k THEN NoKey ELSE ring[at(head, i)].key
  BY <1>2 DEF Places
<1>3. at(head, i) \in Slots
  BY Around DEF IInv, TypeOK
<1>4. index[k] = at(head, i) <=> ring[at(head, i)].key = k
  BY <1>3 DEF IInv, Coherent
<1> QED
  BY <1>1, <1>2, <1>3, <1>4, NilKey DEF IInv, TypeOK

\* The queue's place is Places.
LEMMA QueueDefs ==
  /\ Queue!Init <=> Places = [i \in Slots |-> NoKey]
  /\ \A k : Queue!Holds(k) <=> \E i \in Slots : Places[i] = k
  /\ \A k : Queue!Insert(k) <=>
        /\ ~Queue!Holds(k)
        /\ Places' = [i \in Slots |-> IF i = Cap - 1 THEN k ELSE Places[i + 1]]
  /\ \A k : Queue!Remove(k) <=>
        /\ Queue!Holds(k)
        /\ Places' = [i \in Slots |-> IF Places[i] = k THEN NoKey ELSE Places[i]]
  BY DEF Queue!Init, Queue!Holds, Queue!Insert, Queue!Remove, Places, at, Slots

\* The cache is the queue CacheQueue describes: a Put of a new Location gives up
\* the oldest place, whatever is in it, an overwrite keeps its place, a Delete
\* leaves a hole (insertLocked and Delete).
THEOREM CacheIsQueue == Spec => IsQueue
<1>1. Init => Queue!Init
  <2> SUFFICES ASSUME Init PROVE Places = [i \in Slots |-> NoKey]
    BY QueueDefs
  <2> SUFFICES ASSUME NEW i \in Slots PROVE ring[at(head, i)].key = NoKey
    BY DEF Places
  <2>1. at(head, i) \in Slots
    BY Around, SlotRange DEF Init
  <2> QED
    BY <2>1, NilKey DEF Init
<1>2. IInv /\ [Next]_vars => [\E k \in Keys : Queue!Insert(k) \/ Queue!Remove(k)]_Places
  <2> SUFFICES ASSUME IInv, [Next]_vars
               PROVE  (\E k \in Keys : Queue!Insert(k) \/ Queue!Remove(k)) \/ Places' = Places
    OBVIOUS
  <2>1. ASSUME NEW o \in putting, PutInsert(o), index[o.key] = NoSlot
        PROVE  \E k \in Keys : Queue!Insert(k)
    <3>1. o.key \in Keys
      BY NilKey DEF IInv, TypeOK
    <3>2. ~Queue!Holds(o.key)
      BY <2>1, <3>1, HoldsIndexed, QueueDefs
    <3>3. Queue!Insert(o.key)
      BY <2>1, <3>2, InsertPlaces, QueueDefs
    <3> QED
      BY <3>1, <3>3
  <2>2. ASSUME NEW k \in Keys, Delete(k) PROVE Queue!Remove(k)
    <3>1. Queue!Holds(k)
      BY <2>2, HoldsIndexed, QueueDefs DEF Delete
    <3> QED
      BY <2>2, <3>1, DeletePlaces, QueueDefs
  <2>3. ASSUME UNCHANGED <<ring, head>> PROVE Places' = Places
    BY <2>3 DEF Places
  <2>4. ASSUME NEW o \in putting, PutInsert(o) PROVE Places' = Places \/ \E k \in Keys : Queue!Insert(k)
    BY <2>1, <2>4, OverwritePlaces
  <2> QED
    BY <2>2, <2>3, <2>4 DEF Next, vars, PutStamp, Tick
<1>3. (\E k \in Keys : Queue!Insert(k) \/ Queue!Remove(k)) <=> Queue!Next
  BY DEF Queue!Next
<1>4. IInv /\ [Next]_vars => [Queue!Next]_[i \in Slots |-> ring[(head + i) % Cap].key]
  BY <1>2, <1>3 DEF Places, at
<1> QED
  BY InitIInv, NextIInv, <1>1, <1>4, PTL DEF Spec, IsQueue, Queue!Spec
----------------------------------------------------------------------------
(* ForwardState. *)
CONSTANTS
    Downs, Pubs, Timers, MaxFlips,
    NoUpstream      \* no upstream, and no goroutine

ASSUME ForwardAssumption ==
    /\ IsFiniteSet(Timers) /\ Timers # {} /\ MaxFlips \in Nat
    /\ Downs \cap Pubs = {} /\ Downs \cap Timers = {} /\ Pubs \cap Timers = {}
    /\ NoUpstream \notin Downs \union Pubs \union Timers

VARIABLES
    down, fwd, resumes, up, rec, act, pc, want, todo, cur, mu, due, flips,
    lapse

W == INSTANCE ForwardState WITH None <- NoUpstream

\* The Forward State asked of the upstreams follows the downstreams that
\* watch, and is recorded as the publishers have it (handler_subscribe.go).
ForwardFollowsWatchers == W!TypeOK /\ W!ForwardFollowsWatchers

\* A reconcileForwardUpstream past its decision, and one that has still to
\* bring u to the Forward State f.
Reconciles(g) == pc[g] \in {"loop", "sent", "applied", "refused"}
Serves(g, u, f) == Reconciles(g) /\ want[g] = f /\ (u \in todo[g] \/ cur[g] = u)

\* One reconciles at a time, with an upstream in hand while its update runs;
\* handlePublish starts one once its upstream is there.
OneReconciles ==
    /\ \A g \in W!Goroutines : Reconciles(g) <=> mu = g
    /\ \A g \in W!Goroutines : cur[g] \in W!Ups <=> pc[g] \in {"sent", "applied", "refused"}
    /\ \A p \in Pubs : up[p] \in {"none", "added"} => pc[p] = "idle"
    /\ \A u \in W!Ups : up[u] = "none" =>
           \A g \in W!Goroutines : u \notin todo[g] /\ cur[g] # u
    /\ \A d \in Downs : down[d] = "look" => up[d] = "none"

\* A record that is wrong is being corrected.
RecordsRight ==
    /\ \A g \in W!Goroutines : pc[g] = "applied" /\ W!Established(cur[g]) => act[cur[g]] = want[g]
    /\ lapse # "gaveUp" => \A u \in W!Ups : W!Established(u) /\ rec[u] # act[u] =>
           \E g \in W!Goroutines : pc[g] = "applied" /\ cur[g] = u

\* A downstream that watches and had to resume its upstreams has someone who
\* still will, where one is paused or about to be.
Awaits(d) == down[d] = "on" /\ fwd[d] = 1 /\ resumes[d]
Waits == \E g \in W!Goroutines : pc[g] \in {"resume", "pause"}
ResumesComing ==
    \A d \in Downs : Awaits(d) =>
        /\ (\E g \in W!Goroutines : Reconciles(g) /\ want[g] = 0) => Waits
        /\ lapse = "none" => \A u \in Pubs \union {d} : up[u] = "est" /\ rec[u] = 0 =>
               Waits \/ \E g \in W!Goroutines : Serves(g, u, 1)

\* So has a publisher nobody watches, where it is not paused or about to resume.
PauseComes == due > 0 \/ \E g \in W!Goroutines : pc[g] = "pause"
PausesComing ==
    ~W!anyDownstreamForwards =>
        \A p \in Pubs :
            /\ W!Established(p) /\ (\E g \in W!Goroutines : Serves(g, p, 1)) => PauseComes
            /\ lapse = "none" /\ up[p] = "est" /\ rec[p] = 1 =>
                   PauseComes \/ \E g \in W!Goroutines : Serves(g, p, 0)

ForwardInv == W!TypeOK /\ OneReconciles /\ RecordsRight /\ ResumesComing /\ PausesComing

\* The due pauses are counted.
LEMMA TimersCount ==
    Cardinality(Timers) \in Nat \ {0} /\ W!Cardinality(Timers) = Cardinality(Timers)
<1>1. IsFiniteSet(Timers) /\ Timers # {}
  BY ForwardAssumption
<1>2. Cardinality(Timers) \in Nat /\ Cardinality(Timers) # 0
  BY <1>1, FS_CardinalityType, FS_EmptySet, SMTT(60)
<1> QED BY <1>2 DEF W!Cardinality, Cardinality

\* Every step keeps the types.
LEMMA ForwardTypes == W!TypeOK /\ W!Next => W!TypeOK'
<1> SUFFICES ASSUME W!TypeOK, W!Next PROVE W!TypeOK'
  OBVIOUS
<1>1. ASSUME NEW d \in Downs, NEW f \in {0, 1}, W!Look(d, f) PROVE W!TypeOK'
  <2>1. flips' \in 0..MaxFlips /\ d \in W!Ups
    BY <1>1, ForwardAssumption DEF W!TypeOK, W!Look, W!Ups
  <2>2. resumes' \in [Downs -> BOOLEAN]
    BY <1>1, ZenonT(60) DEF W!TypeOK, W!Look
  <2> QED BY <1>1, <2>1, <2>2 DEF W!TypeOK, W!downVars, W!upVars, W!runVars, W!Look
<1>2. ASSUME NEW d \in Downs, W!OpenUpstream(d) PROVE W!TypeOK'
  <2>1. d \in W!Ups /\ rec[d] \in {0, 1}
    BY DEF W!TypeOK, W!Ups
  <2> QED BY <1>2, <2>1 DEF W!TypeOK, W!downVars, W!upVars, W!runVars, W!OpenUpstream
<1>3. ASSUME NEW d \in Downs, W!Register(d) PROVE W!TypeOK'
  BY <1>3 DEF W!TypeOK, W!downVars, W!upVars, W!runVars, W!Register, W!Ups,
     W!PropagateForward
<1>4. ASSUME NEW d \in Downs, W!ChangeForward(d) PROVE W!TypeOK'
  <2>1. flips' \in 0..MaxFlips /\ due' \in 0..W!Cardinality(Timers)
    BY <1>4, ForwardAssumption, TimersCount DEF W!TypeOK, W!ChangeForward, W!Schedule
  <2>2. resumes' \in [Downs -> BOOLEAN]
    BY <1>4, Zenon DEF W!TypeOK, W!ChangeForward
  <2> QED BY <1>4, <2>1, <2>2 DEF W!TypeOK, W!downVars, W!upVars, W!runVars,
        W!ChangeForward, W!PropagateForward
<1>5. ASSUME NEW d \in Downs, W!Leave(d) PROVE W!TypeOK'
  <2>1. due' \in 0..W!Cardinality(Timers)
    BY <1>5, TimersCount DEF W!TypeOK, W!Leave, W!Schedule
  <2>2. resumes' \in [Downs -> BOOLEAN]
    BY <1>5, Zenon DEF W!TypeOK, W!Leave, W!DownsOut
  <2> QED BY <1>5, <2>1, <2>2, Zenon DEF W!TypeOK, W!downVars, W!upVars, W!runVars, W!Leave,
        W!DownsOut, W!UpsGone
<1>6. ASSUME NEW p \in Pubs, W!PublishChecks(p) PROVE W!TypeOK'
  <2>1. due' \in 0..W!Cardinality(Timers)
    BY <1>6, TimersCount DEF W!TypeOK, W!PublishChecks, W!Schedule
  <2>2. p \in W!Ups /\ pc' \in [W!Goroutines -> {"idle", "resume", "pause", "loop", "sent",
                                             "applied", "refused"}]
    BY <1>6 DEF W!TypeOK, W!PublishChecks, W!PropagateForward, W!Ups
  <2> QED BY <1>6, <2>1, <2>2 DEF W!TypeOK, W!downVars, W!upVars, W!runVars, W!PublishChecks
<1>7. ASSUME NEW p \in Pubs, NEW f \in {0, 1}, W!Publish(p, f) PROVE W!TypeOK'
  BY <1>7 DEF W!TypeOK, W!downVars, W!upVars, W!runVars, W!Publish, W!Ups
<1>8. ASSUME NEW u \in W!Ups, W!UpstreamEnds(u) PROVE W!TypeOK'
  BY <1>8, Zenon DEF W!TypeOK, W!downVars, W!upVars, W!runVars, W!UpstreamEnds, W!DownsOut,
     W!UpsGone
<1>9. ASSUME NEW g \in Timers, W!PauseDue(g) PROVE W!TypeOK'
  BY <1>9, TimersCount DEF W!TypeOK, W!downVars, W!upVars, W!runVars, W!PauseDue,
     W!Goroutines
<1>10. ASSUME NEW g \in W!Goroutines, W!Lock(g) PROVE W!TypeOK'
  BY <1>10 DEF W!TypeOK, W!downVars, W!upVars, W!runVars, W!Lock, W!Decide
<1>11. ASSUME NEW g \in W!Goroutines, W!PublisherAnswers(g) PROVE W!TypeOK'
  BY <1>11 DEF W!TypeOK, W!downVars, W!upVars, W!runVars, W!PublisherAnswers
<1>12. ASSUME NEW g \in W!Goroutines, W!UpdateOK(g) PROVE W!TypeOK'
  BY <1>12, ZenonT(60) DEF W!TypeOK, W!downVars, W!upVars, W!runVars, W!UpdateOK, W!Continue
<1>13. ASSUME NEW g \in W!Goroutines, W!UpdateFails(g) PROVE W!TypeOK'
  BY <1>13 DEF W!TypeOK, W!downVars, W!upVars, W!runVars, W!UpdateFails, W!Continue
<1>14. ASSUME NEW g \in W!Goroutines, W!Unlock(g) PROVE W!TypeOK'
  BY <1>14 DEF W!TypeOK, W!downVars, W!upVars, W!runVars, W!Unlock
<1>15. ASSUME NEW g \in W!Goroutines, NEW u \in W!Ups, W!Visit(g, u) PROVE W!TypeOK'
  BY <1>15 DEF W!TypeOK, W!downVars, W!upVars, W!runVars, W!Visit
<1> QED BY <1>1, <1>2, <1>3, <1>4, <1>5, <1>6, <1>7, <1>8, <1>9, <1>10, <1>11, <1>12, <1>13,
      <1>14, <1>15, SMTT(60) DEF W!Next

\* One reconciles at a time.
LEMMA OneReconcilesStep ==
    ASSUME W!TypeOK, OneReconciles, W!Next
    PROVE  OneReconciles'
<1> USE DEF W!downVars, W!upVars, W!runVars, W!Ups, W!Goroutines
<1>1. ASSUME NEW d \in Downs, NEW f \in {0, 1}, W!Look(d, f) PROVE OneReconciles'
  BY <1>1, SMTT(60) DEF W!TypeOK, OneReconciles, Reconciles, W!Look
<1>2. ASSUME NEW d \in Downs, W!OpenUpstream(d) PROVE OneReconciles'
  BY <1>2, SMTT(60) DEF W!TypeOK, OneReconciles, Reconciles, W!OpenUpstream
<1>3. ASSUME NEW d \in Downs, W!Register(d) PROVE OneReconciles'
  BY <1>3, ForwardAssumption, SMTT(60) DEF W!TypeOK, OneReconciles, Reconciles, W!Register,
     W!PropagateForward
<1>4. ASSUME NEW d \in Downs, W!ChangeForward(d) PROVE OneReconciles'
  BY <1>4, ForwardAssumption, SMTT(60) DEF W!TypeOK, OneReconciles, Reconciles, W!ChangeForward,
     W!PropagateForward
<1>5. ASSUME NEW d \in Downs, W!Leave(d) PROVE OneReconciles'
  BY <1>5 DEF OneReconciles, Reconciles, W!Leave, W!DownsOut, W!UpsGone
<1>6. ASSUME NEW p \in Pubs, W!PublishChecks(p) PROVE OneReconciles'
  BY <1>6, SMTT(60) DEF W!TypeOK, OneReconciles, Reconciles, W!PublishChecks, W!PropagateForward
<1>7. ASSUME NEW p \in Pubs, NEW f \in {0, 1}, W!Publish(p, f) PROVE OneReconciles'
  BY <1>7, ForwardAssumption, SMTT(60) DEF OneReconciles, Reconciles, W!Publish
<1>8. ASSUME NEW u \in W!Ups, W!UpstreamEnds(u) PROVE OneReconciles'
  BY <1>8, SMTT(60) DEF OneReconciles, Reconciles, W!UpstreamEnds, W!DownsOut, W!UpsGone
<1>9. ASSUME NEW g \in Timers, W!PauseDue(g) PROVE OneReconciles'
  BY <1>9, ForwardAssumption, SMTT(60) DEF OneReconciles, Reconciles, W!PauseDue
<1>10. ASSUME NEW g \in W!Goroutines, W!Lock(g) PROVE OneReconciles'
  BY <1>10, ForwardAssumption, SMTT(60) DEF W!TypeOK, OneReconciles, Reconciles, W!Established,
     W!Lock, W!Decide
<1>11. ASSUME NEW g \in W!Goroutines, W!PublisherAnswers(g) PROVE OneReconciles'
  BY <1>11, SMTT(60) DEF W!TypeOK, OneReconciles, Reconciles, W!PublisherAnswers
<1>12. ASSUME NEW g \in W!Goroutines, W!UpdateOK(g) PROVE OneReconciles'
  BY <1>12, ForwardAssumption, SMTT(60) DEF W!TypeOK, OneReconciles, Reconciles, W!UpdateOK,
     W!Continue
<1>13. ASSUME NEW g \in W!Goroutines, W!UpdateFails(g) PROVE OneReconciles'
  BY <1>13, ForwardAssumption, SMTT(60) DEF W!TypeOK, OneReconciles, Reconciles, W!UpdateFails,
     W!Continue
<1>14. ASSUME NEW g \in W!Goroutines, W!Unlock(g) PROVE OneReconciles'
  BY <1>14, ForwardAssumption, SMTT(60) DEF W!TypeOK, OneReconciles, Reconciles, W!Unlock
<1>15. ASSUME NEW g \in W!Goroutines, NEW u \in W!Ups, W!Visit(g, u) PROVE OneReconciles'
  BY <1>15, SMTT(60) DEF W!TypeOK, OneReconciles, Reconciles, W!Visit
<1> QED BY <1>1, <1>2, <1>3, <1>4, <1>5, <1>6, <1>7, <1>8, <1>9, <1>10, <1>11, <1>12, <1>13,
      <1>14, <1>15, SMTT(60) DEF W!Next

\* A record is wrong only between the publisher's answer and its reading.
LEMMA RecordsRightStep ==
    ASSUME W!TypeOK, OneReconciles, RecordsRight, W!Next
    PROVE  RecordsRight'
<1> USE DEF W!downVars, W!upVars, W!runVars, W!Ups, W!Goroutines
<1>1. ASSUME NEW d \in Downs, NEW f \in {0, 1}, W!Look(d, f) PROVE RecordsRight'
  BY <1>1, ZenonT(60) DEF RecordsRight, W!Established, W!Look
<1>2. ASSUME NEW d \in Downs, W!OpenUpstream(d) PROVE RecordsRight'
  BY <1>2 DEF W!TypeOK, OneReconciles, RecordsRight, W!Established, W!OpenUpstream
<1>3. ASSUME NEW d \in Downs, W!Register(d) PROVE RecordsRight'
  BY <1>3, SMTT(60) DEF W!TypeOK, RecordsRight, W!Established, W!Register, W!PropagateForward
<1>4. ASSUME NEW d \in Downs, W!ChangeForward(d) PROVE RecordsRight'
  BY <1>4, SMTT(60) DEF W!TypeOK, RecordsRight, W!Established, W!ChangeForward, W!PropagateForward
<1>5. ASSUME NEW d \in Downs, W!Leave(d) PROVE RecordsRight'
  BY <1>5, SMTT(60)
  DEF W!TypeOK, OneReconciles, Reconciles, RecordsRight, W!Established, W!Leave, W!UpsGone
<1>6. ASSUME NEW p \in Pubs, W!PublishChecks(p) PROVE RecordsRight'
  BY <1>6 DEF W!TypeOK, OneReconciles, RecordsRight, W!Established, W!PublishChecks,
     W!PropagateForward
<1>7. ASSUME NEW p \in Pubs, NEW f \in {0, 1}, W!Publish(p, f) PROVE RecordsRight'
  BY <1>7 DEF W!TypeOK, OneReconciles, RecordsRight, W!Established, W!Publish
<1>8. ASSUME NEW u \in W!Ups, W!UpstreamEnds(u) PROVE RecordsRight'
  BY <1>8, SMTT(60)
  DEF W!TypeOK, OneReconciles, Reconciles, RecordsRight, W!Established, W!UpstreamEnds, W!UpsGone
<1>9. ASSUME NEW g \in Timers, W!PauseDue(g) PROVE RecordsRight'
  BY <1>9, SMTT(60) DEF RecordsRight, W!Established, W!PauseDue
<1>10. ASSUME NEW g \in W!Goroutines, W!Lock(g) PROVE RecordsRight'
  BY <1>10 DEF W!TypeOK, RecordsRight, W!Established, W!Lock, W!Decide
<1>11. ASSUME NEW g \in W!Goroutines, W!PublisherAnswers(g) PROVE RecordsRight'
  BY <1>11 DEF W!TypeOK, OneReconciles, Reconciles, RecordsRight, W!Established,
     W!PublisherAnswers
<1>12. ASSUME NEW g \in W!Goroutines, W!UpdateOK(g) PROVE RecordsRight'
  BY <1>12, SMTT(60) DEF W!TypeOK, RecordsRight, W!Established, W!UpdateOK, W!Continue
<1>13. ASSUME NEW g \in W!Goroutines, W!UpdateFails(g) PROVE RecordsRight'
  BY <1>13, SMTT(60) DEF W!TypeOK, RecordsRight, W!Established, W!UpdateFails, W!Continue
<1>14. ASSUME NEW g \in W!Goroutines, W!Unlock(g) PROVE RecordsRight'
  BY <1>14, SMTT(60) DEF W!TypeOK, OneReconciles, Reconciles, RecordsRight, W!Established, W!Unlock
<1>15. ASSUME NEW g \in W!Goroutines, NEW u \in W!Ups, W!Visit(g, u) PROVE RecordsRight'
  BY <1>15 DEF W!TypeOK, RecordsRight, W!Established, W!Visit
<1> QED BY <1>1, <1>2, <1>3, <1>4, <1>5, <1>6, <1>7, <1>8, <1>9, <1>10, <1>11, <1>12, <1>13,
      <1>14, <1>15, SMTT(60) DEF W!Next

\* A resume asked for is not lost to a pause it races.
LEMMA ResumesComingStep ==
    ASSUME W!TypeOK, OneReconciles, ResumesComing, W!Next
    PROVE  ResumesComing'
<1> USE DEF W!downVars, W!upVars, W!runVars, W!Ups, W!Goroutines
<1>1. ASSUME NEW d \in Downs, NEW f \in {0, 1}, W!Look(d, f) PROVE ResumesComing'
  BY <1>1, SMTT(60) DEF W!TypeOK, Reconciles, ResumesComing, Awaits, Waits, Serves, W!Look
<1>2. ASSUME NEW d \in Downs, W!OpenUpstream(d) PROVE ResumesComing'
  BY <1>2, ForwardAssumption, SMTT(60) DEF W!TypeOK, Reconciles, ResumesComing, Awaits, Waits, Serves,
     W!OpenUpstream
<1>3. ASSUME NEW d \in Downs, W!Register(d) PROVE ResumesComing'
  BY <1>3, SMTT(60) DEF W!TypeOK, Reconciles, ResumesComing, Awaits, Waits, Serves, W!Register,
     W!PropagateForward
<1>4. ASSUME NEW d \in Downs, W!ChangeForward(d) PROVE ResumesComing'
  BY <1>4, SMTT(60) DEF W!TypeOK, Reconciles, ResumesComing, Awaits, Waits, Serves, W!ChangeForward,
     W!PropagateForward
<1>5. ASSUME NEW d \in Downs, W!Leave(d) PROVE ResumesComing'
  BY <1>5, ForwardAssumption, SMTT(60)
  DEF W!TypeOK, Reconciles, ResumesComing, Awaits, Waits, Serves, W!Established, W!Leave,
      W!DownsOut, W!UpsGone
<1>6. ASSUME NEW p \in Pubs, W!PublishChecks(p) PROVE ResumesComing'
  BY <1>6, SMTT(60) DEF W!TypeOK, Reconciles, ResumesComing, Awaits, Waits, Serves,
     W!anyDownstreamForwards, W!PublishChecks, W!PropagateForward
<1>7. ASSUME NEW p \in Pubs, NEW f \in {0, 1}, W!Publish(p, f) PROVE ResumesComing'
  BY <1>7, ForwardAssumption, SMTT(60)
  DEF W!TypeOK, Reconciles, ResumesComing, Awaits, Waits, Serves, W!Established, W!Publish
<1>8. ASSUME NEW u \in W!Ups, W!UpstreamEnds(u) PROVE ResumesComing'
  BY <1>8, SMTT(60) DEF Reconciles, ResumesComing, Awaits, Waits, Serves, W!UpstreamEnds, W!DownsOut,
     W!UpsGone
<1>9. ASSUME NEW g \in Timers, W!PauseDue(g) PROVE ResumesComing'
  BY <1>9, SMTT(60) DEF Reconciles, ResumesComing, Awaits, Waits, Serves, W!PauseDue
<1>10. ASSUME NEW g \in W!Goroutines, W!Lock(g) PROVE ResumesComing'
  BY <1>10, ForwardAssumption, SMTT(60) DEF W!TypeOK, OneReconciles, Reconciles, ResumesComing,
     Awaits, Serves, W!Established, W!anyDownstreamForwards, W!Lock, W!Decide
<1>11. ASSUME NEW g \in W!Goroutines, W!PublisherAnswers(g) PROVE ResumesComing'
  BY <1>11, SMTT(60) DEF W!TypeOK, Reconciles, ResumesComing, Awaits, Waits, Serves,
     W!PublisherAnswers
<1>12. ASSUME NEW g \in W!Goroutines, W!UpdateOK(g) PROVE ResumesComing'
  BY <1>12, SMTT(60) DEF W!TypeOK, Reconciles, ResumesComing, Awaits, Waits, Serves, W!Established,
     W!UpdateOK, W!Continue
<1>13. ASSUME NEW g \in W!Goroutines, W!UpdateFails(g) PROVE ResumesComing'
  BY <1>13, SMTT(60)
  DEF W!TypeOK, OneReconciles, Reconciles, ResumesComing, Awaits, Waits, Serves, W!Established,
      W!UpdateFails, W!Continue
<1>14. ASSUME NEW g \in W!Goroutines, W!Unlock(g) PROVE ResumesComing'
  BY <1>14, SMTT(60) DEF W!TypeOK, OneReconciles, Reconciles, ResumesComing, Awaits, Waits, Serves,
     W!Unlock
<1>15. ASSUME NEW g \in W!Goroutines, NEW u \in W!Ups, W!Visit(g, u) PROVE ResumesComing'
  BY <1>15, SMTT(60) DEF W!TypeOK, OneReconciles, Reconciles, ResumesComing, Awaits, Waits, Serves,
     W!Established, W!Visit, W!Skipped
<1> QED BY <1>1, <1>2, <1>3, <1>4, <1>5, <1>6, <1>7, <1>8, <1>9, <1>10, <1>11, <1>12, <1>13,
      <1>14, <1>15 DEF W!Next

\* Nor a pause to a resume whose downstream left meanwhile.
LEMMA PausesComingStep ==
    ASSUME W!TypeOK, OneReconciles, PausesComing, W!Next
    PROVE  PausesComing'
<1> USE DEF W!downVars, W!upVars, W!runVars, W!Ups, W!Goroutines
<1>1. ASSUME NEW d \in Downs, NEW f \in {0, 1}, W!Look(d, f) PROVE PausesComing'
  BY <1>1, SMTT(60) DEF W!TypeOK, Reconciles, PausesComing, PauseComes, Serves, W!Established,
     W!anyDownstreamForwards, W!Look
<1>2. ASSUME NEW d \in Downs, W!OpenUpstream(d) PROVE PausesComing'
  BY <1>2, ForwardAssumption, SMTT(60) DEF W!TypeOK, Reconciles, PausesComing, PauseComes, Serves,
     W!Established, W!anyDownstreamForwards, W!OpenUpstream
<1>3. ASSUME NEW d \in Downs, W!Register(d) PROVE PausesComing'
  BY <1>3, SMTT(60) DEF W!TypeOK, Reconciles, PausesComing, PauseComes, Serves, W!Established,
     W!anyDownstreamForwards, W!Register
<1>4. ASSUME NEW d \in Downs, W!ChangeForward(d) PROVE PausesComing'
  BY <1>4, TimersCount, SMTT(60) DEF W!TypeOK, PausesComing, PauseComes, W!anyDownstreamForwards,
     W!ChangeForward, W!Schedule
<1>5. ASSUME NEW d \in Downs, W!Leave(d) PROVE PausesComing'
  BY <1>5, ForwardAssumption, TimersCount, SMTT(60)
  DEF W!TypeOK, PausesComing, PauseComes, Serves, W!OnDemand, W!Established,
      W!anyDownstreamForwards, W!Leave, W!DownsOut, W!UpsGone, W!Schedule
<1>6. ASSUME NEW p \in Pubs, W!PublishChecks(p) PROVE PausesComing'
  BY <1>6, TimersCount, SMTT(60) DEF W!TypeOK, Reconciles, PausesComing, PauseComes, Serves,
     W!Established, W!anyDownstreamForwards, W!PublishChecks, W!Schedule
<1>7. ASSUME NEW p \in Pubs, NEW f \in {0, 1}, W!Publish(p, f) PROVE PausesComing'
  BY <1>7 DEF OneReconciles, Reconciles, PausesComing, PauseComes, Serves, W!Established,
     W!anyDownstreamForwards, W!Publish
<1>8. ASSUME NEW u \in W!Ups, W!UpstreamEnds(u) PROVE PausesComing'
  BY <1>8, ForwardAssumption, SMTT(60)
  DEF W!TypeOK, Reconciles, PausesComing, PauseComes, Serves, W!OnDemand, W!Established,
      W!anyDownstreamForwards, W!UpstreamEnds, W!DownsOut, W!UpsGone
<1>9. ASSUME NEW g \in Timers, W!PauseDue(g) PROVE PausesComing'
  BY <1>9 DEF W!TypeOK, PausesComing, PauseComes, W!PauseDue
<1>10. ASSUME NEW g \in W!Goroutines, W!Lock(g) PROVE PausesComing'
  BY <1>10, ForwardAssumption, SMTT(60) DEF W!TypeOK, OneReconciles, Reconciles, PausesComing,
     PauseComes, Serves, W!Established, W!anyDownstreamForwards, W!Lock, W!Decide
<1>11. ASSUME NEW g \in W!Goroutines, W!PublisherAnswers(g) PROVE PausesComing'
  BY <1>11, SMTT(60) DEF W!TypeOK, Reconciles, PausesComing, PauseComes, Serves, W!Established,
     W!anyDownstreamForwards, W!PublisherAnswers
<1>12. ASSUME NEW g \in W!Goroutines, W!UpdateOK(g) PROVE PausesComing'
  BY <1>12, ForwardAssumption, SMTT(60) DEF W!TypeOK, Reconciles, PausesComing, PauseComes, Serves,
     W!Established, W!anyDownstreamForwards, W!UpdateOK, W!Continue
<1>13. ASSUME NEW g \in W!Goroutines, W!UpdateFails(g) PROVE PausesComing'
  <2>1. /\ up' = up /\ rec' = rec /\ (W!anyDownstreamForwards' <=> W!anyDownstreamForwards)
        /\ lapse' = "none" => lapse = "none" /\ ~W!Established(cur[g])
    BY <1>13, ZenonT(60) DEF W!anyDownstreamForwards, W!UpdateFails
  <2>2. PauseComes => PauseComes'
    BY <1>13, SMTT(60) DEF W!TypeOK, PauseComes, W!UpdateFails, W!Continue
  <2>3. ASSUME NEW h \in W!Goroutines, NEW q \in Pubs, NEW f, Serves(h, q, f)'
        PROVE  Serves(h, q, f)
    BY <1>13, <2>3, ForwardAssumption, SMTT(60) DEF W!TypeOK, Serves, Reconciles, W!UpdateFails, W!Continue
  <2>4. ASSUME NEW h \in W!Goroutines, NEW q \in Pubs, up[q] = "est", lapse' = "none",
               NEW f, Serves(h, q, f)
        PROVE  Serves(h, q, f)'
    BY <1>13, <2>1, <2>4, SMTT(60) DEF W!TypeOK, Serves, Reconciles, W!Established, W!UpdateFails, W!Continue
  <2> QED BY <2>1, <2>2, <2>3, <2>4, ZenonT(60) DEF PausesComing, W!Established
<1>14. ASSUME NEW g \in W!Goroutines, W!Unlock(g) PROVE PausesComing'
  BY <1>14, SMTT(60) DEF OneReconciles, Reconciles, PausesComing, PauseComes, Serves,
     W!anyDownstreamForwards, W!Unlock
<1>15. ASSUME NEW g \in W!Goroutines, NEW u \in W!Ups, W!Visit(g, u) PROVE PausesComing'
  BY <1>15, ForwardAssumption, SMTT(60) DEF W!TypeOK, OneReconciles, Reconciles, PausesComing,
     PauseComes, Serves, W!OnDemand, W!Established, W!anyDownstreamForwards, W!Visit,
     W!Skipped
<1> QED BY <1>1, <1>2, <1>3, <1>4, <1>5, <1>6, <1>7, <1>8, <1>9, <1>10, <1>11, <1>12, <1>13,
      <1>14, <1>15 DEF W!Next

\* At first there is neither an upstream nor a downstream.
LEMMA ForwardInit == W!Init => ForwardInv
<1> SUFFICES ASSUME W!Init PROVE ForwardInv
  OBVIOUS
<1>1. W!TypeOK
  BY ForwardAssumption, TimersCount, SMTT(60) DEF W!Init, W!TypeOK
<1>2. OneReconciles
  BY ForwardAssumption, SMTT(60) DEF W!Init, OneReconciles, Reconciles, W!Ups, W!Goroutines
<1>3. RecordsRight /\ ResumesComing /\ PausesComing
  BY DEF W!Init, RecordsRight, ResumesComing, PausesComing, Awaits, Reconciles, Serves,
     W!Established, W!Ups
<1> QED BY <1>1, <1>2, <1>3 DEF ForwardInv

\* Every step of the handlers, the publishers and the reconciliations keeps it.
LEMMA ForwardStep == ForwardInv /\ [W!Next]_W!vars => ForwardInv'
<1>1. CASE W!Next
  BY <1>1, ForwardTypes, OneReconcilesStep, RecordsRightStep, ResumesComingStep,
     PausesComingStep, SMTT(60) DEF ForwardInv
<1>2. CASE UNCHANGED W!vars
  <2>1. UNCHANGED <<down, fwd, resumes, up, rec, act, pc, want, todo, cur, mu, due, flips, lapse>>
    BY <1>2 DEF W!vars, W!downVars, W!upVars, W!runVars
  <2>2. ForwardInv => W!TypeOK' /\ OneReconciles'
    BY <2>1, Zenon DEF ForwardInv, W!TypeOK, OneReconciles, Reconciles
  <2>3. ForwardInv => RecordsRight'
    BY <2>1, SMTT(60) DEF ForwardInv, RecordsRight, W!Established
  <2>4. ForwardInv => ResumesComing'
    BY <2>1, SMTT(60) DEF ForwardInv, ResumesComing, Awaits, Waits, Serves, Reconciles, W!Established
  <2>5. ForwardInv => PausesComing'
    BY <2>1, SMTT(60) DEF ForwardInv, PausesComing, PauseComes, Serves, Reconciles, W!Established,
       W!anyDownstreamForwards
  <2> QED BY <2>2, <2>3, <2>4, <2>5 DEF ForwardInv
<1> QED BY <1>1, <1>2

\* Once no reconciliation is left, none of them is awaited.
LEMMA ForwardSafe == ForwardInv => ForwardFollowsWatchers
<1> SUFFICES ASSUME ForwardInv PROVE ForwardFollowsWatchers
  OBVIOUS
<1>1. W!RecordedIsActual
  BY ZenonT(60) DEF ForwardInv, RecordsRight, W!RecordedIsActual
<1>2. W!ResumedWhenWatched
  BY SMTT(60) DEF ForwardInv, ResumesComing, Awaits, Waits, Serves, Reconciles, W!Settled,
     W!ResumedWhenWatched, W!TypeOK, W!Ups
<1>3. W!PausedWhenUnwatched
  BY DEF ForwardInv, PausesComing, PauseComes, Serves, Reconciles, W!Settled,
     W!PausedWhenUnwatched, W!TypeOK, W!Ups, W!anyDownstreamForwards
<1> QED BY <1>1, <1>2, <1>3, SMTT(60) DEF ForwardInv, ForwardFollowsWatchers, W!ForwardFollowsWatchers

\* However downstreams, publishers, pauses and refusals interleave, on any
\* number of them, once all reconciliations are done the upstreams a
\* downstream resumed forward and those nobody watches are paused, and the
\* relay's records are the publishers' own (reconcileForwardUpstream).
THEOREM ForwardFollowsWatchersHolds == W!Spec => []ForwardFollowsWatchers
<1>1. ForwardInv /\ [W!Next]_W!vars => ForwardInv'
  BY ForwardStep
<1> QED BY ForwardInit, ForwardSafe, <1>1, PTL DEF W!Spec
============================================================================
