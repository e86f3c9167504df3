---------------------------- MODULE MCNamespaces ----------------------------
(* The relay among its peers: the namespaces it learns and announces, and its  *)
(* shutdown with sessions and upstream dials under way.                        *)
EXTENDS Namespaces

CONSTANTS p1, p2, r1, r2, e1, e2

VARIABLES
    part,
    grace, stop, ctxDone, timedOut, snapshot, warned, sess, strag, entry,
    dial, get

(* Two namespaces with the same suffix under different prefixes, so a suffix   *)
(* read against the wrong prefix shows.                                        *)
MCNames == {<<1, 1>>, <<2, 1>>}
MCRequested == {<<>>, <<1>>, <<2>>}
MCCasts == {{p1, p2, e1}, {p1, e1, e2}, {Me, r1, e1}, {Me, r1, r2}, {Me, p1, r1}, {Me, p1, p2}}

(* Two clients; a client and a local session; two requests for an upstream. *)
ShutdownCasts == {{"c1", "c2"}, {"c1", "l1"}, {"c1", "g1", "g2"}}

S == INSTANCE Shutdown WITH
    Conns <- {"c1", "c2"}, Local <- {"l1"}, Dials <- {"u1", "u2"},
    Getters <- {"g1", "g2"}, Casts <- ShutdownCasts

shutdownVars == <<grace, stop, ctxDone, timedOut, snapshot, warned, sess,
                  strag, entry, dial, get>>

all == <<part, vars, shutdownVars>>

(* One part of the system at a time; the others stay in an initial state. *)
PartsInit ==
    /\ part \in {"namespaces", "shutdown"}
    /\ Init /\ (part = "namespaces" \/ (pub[p2].st = "idle" /\ sub[e1].st = "idle"))
    /\ S!Init /\ (part = "shutdown" \/ (grace /\ sess["c2"].handler = "none"))

PartsNext ==
    \/ /\ part = "namespaces" /\ Next
       /\ UNCHANGED <<part, shutdownVars>>
    \/ /\ part = "shutdown" /\ S!Next
       /\ UNCHANGED <<part, vars>>

PartsSpec ==
    /\ PartsInit /\ [][PartsNext]_all
    /\ Fairness
    /\ S!Fairness
-----------------------------------------------------------------------------
(* Every session has one owner: one goroutine that will drain it, one place in *)
(* the pool (beginShutdown, addSession, upstreamPool.get).                     *)
SessionsOwned == part = "shutdown" => S!TypeOK /\ S!SessionsOwned

(* Stop returns, whatever the peers do and whatever arrives while it drains,   *)
(* and leaves no session open behind it.                                       *)
StopCompletes == S!StopCompletes
=============================================================================
