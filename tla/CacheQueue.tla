----------------------------- MODULE CacheQueue ------------------------------
(***************************************************************************)
(* What the object cache promises (the comments of ObjectCache in          *)
(* pkg/relay/cache/cache.go): Cap places in order of arrival.  A new key    *)
(* takes a place at the end and the oldest place is given up, whether an   *)
(* Object or the hole a Delete left is in it; a known key keeps its place. *)
(***************************************************************************)
EXTENDS Integers

CONSTANTS
    Cap,    \* the cache's capacity
    Keys,   \* Locations
    NoKey   \* the key of an empty place

VARIABLE place  \* place[0] is the oldest

Holds(k) == \E i \in 0..(Cap - 1) : place[i] = k

Init == place = [i \in 0..(Cap - 1) |-> NoKey]

Insert(k) ==
    /\ ~Holds(k)
    /\ place' = [i \in 0..(Cap - 1) |-> IF i = Cap - 1 THEN k ELSE place[i + 1]]

Remove(k) ==
    /\ Holds(k)
    /\ place' = [i \in 0..(Cap - 1) |-> IF place[i] = k THEN NoKey ELSE place[i]]

Next == \E k \in Keys : Insert(k) \/ Remove(k)

Spec == Init /\ [][Next]_place
=============================================================================
