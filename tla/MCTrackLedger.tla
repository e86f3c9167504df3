--------------------------- MODULE MCTrackLedger ---------------------------
(***************************************************************************)
(* The Objects publishers send in TrackLedger's runs.                      *)
(***************************************************************************)
EXTENDS TrackLedger, TLC

\* A Normal Object on a subgroup stream.
Obj(g, i) ==
    [group |-> g, object |-> i, subgroup |-> 0, datagram |-> FALSE,
     priority |-> 1, status |-> "Normal", eog |-> FALSE,
     groupGap |-> -1, objectGap |-> -1, payload |-> 0]
Dgram(g, i) == [Obj(g, i) EXCEPT !.datagram = TRUE]

\* Four Groups against a window of two, ended by END_OF_TRACK, FINs and an
\* END_OF_GROUP bit, with a gap of either kind.
MixedObjects ==
    {Dgram(0, 1),
     [Obj(0, 2) EXCEPT !.objectGap = 1],
     [Obj(0, 1) EXCEPT !.status = "EndOfTrack"],
     Obj(1, 1),
     Dgram(2, 0),
     [Dgram(3, 0) EXCEPT !.groupGap = 1, !.eog = TRUE]}

\* Two Groups and an END_OF_TRACK in either, one copy with another payload.
TrackEndObjects ==
    {Obj(0, 0), Obj(0, 1), Obj(1, 0), Obj(1, 1),
     [Obj(0, 1) EXCEPT !.status = "EndOfTrack"],
     [Obj(1, 0) EXCEPT !.status = "EndOfTrack"],
     [Obj(1, 0) EXCEPT !.payload = 1]}

\* A Group that arrives late, below one that announced a gap above it.
LateGroupObjects ==
    {Obj(0, 0), Obj(1, 0), Obj(2, 0), [Obj(3, 0) EXCEPT !.groupGap = 1]}

Symmetry == Permutations(Contributors)
=============================================================================
