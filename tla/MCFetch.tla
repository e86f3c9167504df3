------------------------------ MODULE MCFetch -------------------------------
(* What a FETCH returns, and the formats and filters it shares with            *)
(* subscriptions: its serving, its stream, subgroup streams, location filters  *)
(* and range filters.                                                          *)
EXTENDS FetchServe

VARIABLES
    part,
    codecOrder, honest, prior, wire, sent, dec, got, session,
    framed, header, pub, sub, eff, enc, paused, subgroupWire, fate, reader,
    written, subgroupGot, wellFormed, subgroupSession,
    filter, current, largest, reported, step, locationSession,
    filters, meant, built, stands

(* FetchServe: parts of three Groups. *)
StartMid == Loc(0, 1)
EndMid   == Loc(2, 0)

(* Subgroup headers that differ in every flag and mode, with and without       *)
(* timeouts of either kind.                                                    *)
Header(p, m, e, i, r) == [properties |-> p, mode |-> m, endOfGroup |-> e, inlinePriority |-> i,
                          replaying |-> r, subgroup |-> 2]
FirstHeader == Header(TRUE, "zero", FALSE, FALSE, FALSE)
Headers == {FirstHeader, Header(TRUE, "firstObject", TRUE, TRUE, TRUE),
            Header(TRUE, "explicit", FALSE, TRUE, FALSE), Header(FALSE, "explicit", TRUE, FALSE, FALSE)}
NoTimeouts == [object |-> 0, subgroup |-> 0]
Overrides == {[object |-> -1, subgroup |-> -1], [object |-> 0, subgroup |-> 1], [object |-> 2, subgroup |-> -1]}
Timeouts == {NoTimeouts, [object |-> 1, subgroup |-> 0], [object |-> 2, subgroup |-> 1]}

(* Location filters of every type, with every value of their fields (but for  *)
(* the start Object of an absolute range), and with too few or too many.      *)
LocationRaws ==
    UNION {{<<t>> \o fields : fields \in {f \in [1..(t % 5) -> 0..2] : t = 4 => f[2] = 1}} : t \in 0..5} \cup
    {<<t>> \o [i \in 1..n |-> 0] : t \in 0..6, n \in {0, 5}}

(* A few peers' parameter lists of range filters. *)
Types == {"SUBGROUP", "PRIORITY", "PROPERTY"}
P(t, b) == [type |-> t, bytes |-> b]
PeerUpdates ==
    {<<P(t, b)>> : t \in Types, b \in {<<>>, <<0>>, <<1, 0, 1>>, <<2, 2, 2>>, <<0, 0, 0, 0, 1>>}} \cup
    {<<P(t, <<0, 0, 1>>), P(u, b)>> : t \in Types, u \in Types, b \in {<<>>, <<0, 0, 0>>, <<1, 0, 1>>}}

C == INSTANCE FetchCodec WITH
    MaxID <- 2, MaxPriority <- 1, order <- codecOrder
S == INSTANCE SubgroupStream WITH
    MaxID <- 2, MaxAge <- 2, Headers <- Headers, Timeouts <- Timeouts,
    Overrides <- Overrides, wire <- subgroupWire, got <- subgroupGot,
    session <- subgroupSession
L == INSTANCE LocationFilters WITH
    MaxUint64 <- 2, Raws <- LocationRaws, session <- locationSession
R == INSTANCE RangeFilters WITH
    MaxUint64 <- 2, MaxPriority <- 1, maxFilterRanges <- 2,
    PeerUpdates <- PeerUpdates

codecVars == <<codecOrder, honest, prior, wire, sent, dec, got, session>>
subgroupVars == <<framed, header, pub, sub, eff, enc, paused, subgroupWire,
                  fate, reader, written, subgroupGot, wellFormed,
                  subgroupSession>>
locationVars == <<filter, current, largest, reported, step, locationSession>>
rangeVars == <<filters, meant, built, stands>>

all == <<part, vars, codecVars, subgroupVars, locationVars, rangeVars>>

(* One part of the system at a time; the others stay in an initial state. *)
PartsInit ==
    /\ part \in {"serve", "codec", "subgroup", "location", "range"}
    /\ Init /\ (part = "serve" \/ (exists = {} /\ cache = {} /\ absent = {} /\ order = "ascending"))
    /\ C!Init /\ (part = "codec" \/ (codecOrder = "ascending" /\ honest))
    /\ S!Init /\ (part = "subgroup" \/ (framed /\ header = FirstHeader /\ pub = NoTimeouts /\ sub = NoTimeouts))
    /\ L!Init
    /\ R!Init

PartsNext ==
    \/ /\ part = "serve" /\ Next
       /\ UNCHANGED <<part, codecVars, subgroupVars, locationVars, rangeVars>>
    \/ /\ part = "codec" /\ C!Next
       /\ UNCHANGED <<part, vars, subgroupVars, locationVars, rangeVars>>
    \/ /\ part = "subgroup" /\ S!Next
       /\ UNCHANGED <<part, vars, codecVars, locationVars, rangeVars>>
    \/ /\ part = "location" /\ L!Next
       /\ UNCHANGED <<part, vars, codecVars, subgroupVars, rangeVars>>
    \/ /\ part = "range" /\ R!Next
       /\ UNCHANGED <<part, vars, codecVars, subgroupVars, locationVars>>

PartsSpec == PartsInit /\ [][PartsNext]_all
-----------------------------------------------------------------------------
(* What is written on a FETCH stream or a subgroup stream is what is read, and *)
(* costs no session where the sender keeps to the format, or leaves the        *)
(* framing to the library (datastream_in.go, datastream_out.go).               *)
ReadAsWritten ==
    /\ part = "codec" => C!TypeOK /\ C!ReadAsWritten
    /\ part = "subgroup" => S!TypeOK /\ S!ReadAsWritten

(* A fill and the live subscription meet without a hole, and overlap only by   *)
(* what lies between the Largest Objects that they go by (handler_fill.go).    *)
PastMeetsLive == part = "location" => L!TypeOK /\ L!ReportsInOrder /\ L!PastMeetsLive

(* The filters in force are the ones the subscriber meant, after any sequence  *)
(* of updates (rangefilter.go).                                                *)
FiltersAsMeant == part = "range" => R!TypeOK /\ R!FiltersAsMeant
=============================================================================
