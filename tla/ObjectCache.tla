----------------------------- MODULE ObjectCache -----------------------------
(***************************************************************************)
(* The per-track object cache (pkg/relay/cache/cache.go): a ring of slots, *)
(* an index from Location to slot, and a count, kept together under one    *)
(* lock; Put stamps its Object before it takes that lock.  Objects expire  *)
(* by age when read.  An Object is its key, its MAX_CACHE_DURATION (-1 for *)
(* none) and the time it was stamped.                                      *)
(***************************************************************************)
EXTENDS Integers, FiniteSets

CONSTANTS
    Cap,        \* the ring's length
    Keys,       \* Locations, in order
    NoKey,      \* the key of an empty slot
    Durations,  \* MAX_CACHE_DURATIONs, -1 for none
    MaxAge,     \* the relay's own limit, 0 for none
    MaxNow,     \* bound on time
    MaxPuts     \* bound on the Puts under way at once

ASSUME CapAssumption == Cap \in Nat \ {0} /\ NoKey \notin Keys
ASSUME TimeAssumption == MaxNow \in Nat /\ MaxAge \in Nat /\ Durations \subseteq Int

VARIABLES ring, index, head, size, now,
    putting  \* Objects stamped by a Put that waits for the lock

vars == <<ring, index, head, size, now, putting>>

Slots == 0..(Cap - 1)
NoSlot == -1
Object(k, d, t) == [key |-> k, dur |-> d, at |-> t]
Objects == [key : Keys, dur : Durations, at : 0..MaxNow]
nil == Object(NoKey, -1, 0)

Init ==
    /\ ring = [i \in Slots |-> nil]
    /\ index = [k \in Keys |-> NoSlot]
    /\ head = 0 /\ size = 0 /\ now = 0
    /\ putting = {}

\* Put stamps the arrival time, then takes the lock.
PutStamp(k, d) ==
    /\ Cardinality(putting) < MaxPuts
    /\ putting' = putting \cup {Object(k, d, now)}
    /\ UNCHANGED <<ring, index, head, size, now>>

\* Fault: the evicted Object's index entry is left behind.
reindexKeeping(o) == [index EXCEPT ![o.key] = head]

\* The index once o takes the head slot.
reindex(o) ==
    [k \in Keys |-> IF k = o.key THEN head
                    ELSE IF k = ring[head].key THEN NoSlot ELSE index[k]]

\* Fault: an overwrite advances the head too.
insertLockedAdvances(o) ==
    IF index[o.key] # NoSlot
    THEN /\ ring' = [ring EXCEPT ![index[o.key]] = o]
         /\ head' = (head + 1) % Cap
         /\ UNCHANGED <<index, size>>
    ELSE /\ size' = IF ring[head] # nil THEN size ELSE size + 1
         /\ index' = reindex(o)
         /\ ring' = [ring EXCEPT ![head] = o]
         /\ head' = (head + 1) % Cap

insertLocked(o) ==
    IF index[o.key] # NoSlot
    THEN /\ ring' = [ring EXCEPT ![index[o.key]] = o]
         /\ UNCHANGED <<index, head, size>>
    ELSE /\ size' = IF ring[head] # nil THEN size ELSE size + 1
         /\ index' = reindex(o)
         /\ ring' = [ring EXCEPT ![head] = o]
         /\ head' = (head + 1) % Cap

PutInsert(o) ==
    /\ o \in putting
    /\ putting' = putting \ {o}
    /\ insertLocked(o)
    /\ UNCHANGED now

Delete(k) ==
    /\ index[k] # NoSlot
    /\ ring' = [ring EXCEPT ![index[k]] = nil]
    /\ index' = [index EXCEPT ![k] = NoSlot]
    /\ size' = size - 1
    /\ UNCHANGED <<head, now, putting>>

Tick ==
    /\ now < MaxNow
    /\ now' = now + 1
    /\ UNCHANGED <<ring, index, head, size, putting>>

Next ==
    \/ \E k \in Keys, d \in Durations : PutStamp(k, d)
    \/ \E o \in putting : PutInsert(o)
    \/ \E k \in Keys : Delete(k)
    \/ Tick

Spec == Init /\ [][Next]_vars
-----------------------------------------------------------------------------
notExpired(o) ==
    /\ o.dur # -1 => o.dur > 0 /\ now - o.at <= o.dur
    /\ MaxAge > 0 => now - o.at <= MaxAge

\* Get goes through the index; GetRange scans the ring.
Get(k) ==
    IF index[k] # NoSlot /\ ring[index[k]] # nil /\ notExpired(ring[index[k]])
    THEN {ring[index[k]]} ELSE {}

GetRange(S) == {o \in {ring[i] : i \in Slots} : o # nil /\ o.key \in S /\ notExpired(o)}
-----------------------------------------------------------------------------
Live == {i \in Slots : ring[i] # nil}

\* The type invariant.
TypeOK ==
    /\ ring \in [Slots -> Objects \cup {nil}]
    /\ index \in [Keys -> Slots \cup {NoSlot}]
    /\ head \in Slots /\ size \in Int /\ now \in 0..MaxNow
    /\ putting \subseteq Objects

\* Ring, index and count agree after any mix of Put, overwrite, eviction and
\* Delete (insertLocked: "the single mutation point for ring + index + size"):
\* the index points at each stored Object and at nothing else.
Coherent ==
    /\ \A k \in Keys, i \in Slots : index[k] = i <=> ring[i].key = k
    /\ size = Cardinality(Live)

\* A FETCH's range scan and a lookup by Location never differ: an Object is in
\* one exactly when it is in the other, and no Location is returned twice
\* (Get and GetRange).
ReadsAgree ==
    /\ \A k \in Keys : GetRange({k}) = Get(k)
    /\ \A i, j \in Live : ring[i].key = ring[j].key => i = j

\* Ring, index and count change together, so every way to read the cache gives
\* the same Objects (insertLocked, Delete, Get and GetRange).
CacheCoherent == TypeOK /\ Coherent /\ ReadsAgree

\* The cache keeps what CacheQueue promises, place i being i slots after head.
Queue == INSTANCE CacheQueue WITH
            place <- [i \in Slots |-> ring[(head + i) % Cap].key]
IsQueue == Queue!Spec
=============================================================================
