------------------------------- MODULE Tokens -------------------------------
(* Authorization token aliases (token_cache.go, token_verify.go): one end's   *)
(* inbound TokenCache and the peer that registers, uses and deletes aliases   *)
(* in its SETUP, in the messages that open requests and in REQUEST_UPDATEs.   *)
(* Requests ride separate streams, read in any order; the messages of one     *)
(* stream keep theirs. The peer keeps to the rules of the draft's 8.9: it uses *)
(* or deletes an alias once the message that registered it was answered,      *)
(* counts what it registered against the advertised size, and takes a         *)
(* REGISTER as stored even when the message carrying it fails.                *)
EXTENDS Integers, Sequences, FiniteSets, SequencesExt, FiniteSetsExt

CONSTANTS
    Aliases, Values, Reqs,
    Cost,      \* what a value takes of the cache: 16 + its length
    Limits,    \* the MAX_AUTH_TOKEN_CACHE_SIZEs to advertise
    None,
    MaxOps     \* bound: messages with a token after SETUP

VARIABLES
    foreign,   \* the peer does not check its own SETUP tokens
    setup,     \* the tokens of the peer's SETUP
    phase,     \* "setup", "open", or "refused": the peer's open failed
    limit,     \* maxSize
    entries,   \* TokenCache.entries: alias -> value or None
    used,      \* TokenCache.used
    closed,    \* "open", or the code the session was closed with
    resolved,  \* Session.setupTokens
    held,      \* the peer's SetupTokenAliases
    view,      \* what the peer holds to be registered
    open,      \* requests the peer knows to be accepted and not yet failed
    stream,    \* request -> "idle", "sent", "served" or "drained"
    queue,     \* request -> tokens sent, not yet read
    await,     \* request -> tokens sent, not yet answered
    answers,   \* request -> answers not yet read by the peer
    ops,       \* messages the peer sent
    lost,      \* history: a REGISTER or DELETE was read and discarded
    misread    \* history: an alias resolved to another value than was meant

setupVars == <<foreign, setup, phase, limit, resolved, held>>
cacheVars == <<entries, used, closed, misread>>
peerVars == <<view, open, ops>>
streamVars == <<stream, queue, await, answers, lost>>
vars == <<setupVars, cacheVars, peerVars, streamVars>>

Register(a, v) == [op |-> "register", alias |-> a, val |-> v]
UseAlias(a, v) == [op |-> "alias", alias |-> a, val |-> v]
UseValue(v) == [op |-> "value", alias |-> None, val |-> v]
Delete(a) == [op |-> "delete", alias |-> a, val |-> None]

Tokens ==
    {Register(a, v) : a \in Aliases, v \in Values} \union {Delete(a) : a \in Aliases}
    \union {UseAlias(a, v) : a \in Aliases, v \in Values} \union {UseValue(v) : v \in Values}

TypeOK ==
    /\ phase \in {"setup", "open", "refused"}
    /\ limit \in Limits
    /\ entries \in [Aliases -> Values \union {None}]
    /\ view \in [Aliases -> Values \union {None}]
    /\ used \in Nat
    /\ closed \in {"open", "duplicate", "overflow", "unknown", "violation"}
    /\ held \subseteq Aliases
    /\ open \subseteq Reqs
    /\ stream \in [Reqs -> {"idle", "sent", "served", "drained"}]
    /\ \A r \in Reqs : queue[r] \in Seq(Tokens) /\ await[r] \in Seq(Tokens)
    /\ \A r \in Reqs : answers[r] \in Seq({"ok", "error"})
    /\ ops \in 0..MaxOps

SetupTokens == {Register(a, v) : a \in Aliases, v \in Values}
    \union {UseValue(v) : v \in Values} \union {Delete(a) : a \in Aliases}

Init ==
    /\ foreign \in BOOLEAN
    /\ setup \in UNION {[1..n -> SetupTokens] : n \in 0..2}
    /\ phase = "setup"
    /\ limit \in Limits
    /\ entries = [a \in Aliases |-> None] /\ view = entries
    /\ used = 0 /\ closed = "open"
    /\ resolved = <<>> /\ held = {}
    /\ open = {}
    /\ stream = [r \in Reqs |-> "idle"]
    /\ queue = [r \in Reqs |-> <<>>] /\ await = queue /\ answers = queue
    /\ ops = 0 /\ lost = FALSE /\ misread = FALSE
-----------------------------------------------------------------------------
(* The cache: a state of it is a record, err the code of the session error. *)
Cache == [entries |-> entries, used |-> used, err |-> "none", got |-> None,
          setup |-> <<>>]

TCRegister(c, a, v) ==
    IF c.entries[a] # None THEN [c EXCEPT !.err = "duplicate"]
    ELSE IF limit = 0 \/ c.used + Cost[v] > limit THEN [c EXCEPT !.err = "overflow"]
    ELSE [c EXCEPT !.entries[a] = v, !.used = @ + Cost[v], !.got = v]

TCDelete(c, a) ==
    IF c.entries[a] = None THEN [c EXCEPT !.err = "unknown"]
    ELSE [c EXCEPT !.entries[a] = None, !.used = @ - Cost[c.entries[a]]]

TCResolve(c, a) ==
    IF c.entries[a] = None THEN [c EXCEPT !.err = "unknown"]
    ELSE [c EXCEPT !.got = c.entries[a]]

applyToken(c, t) ==
    CASE t.op = "register" -> TCRegister(c, t.alias, t.val)
      [] t.op = "alias"    -> TCResolve(c, t.alias)
      [] t.op = "value"    -> [c EXCEPT !.got = t.val]
      [] t.op = "delete"   -> TCDelete(c, t.alias)
-----------------------------------------------------------------------------
(* SETUP. The checking side is the server, the peer the client. *)
checkOutboundSetupTokens(toks) ==
    /\ \A i \in DOMAIN toks : toks[i].op \in {"register", "value"}
    /\ \A i, j \in DOMAIN toks :
        i # j /\ toks[i].op = "register" /\ toks[j].op = "register" => toks[i].alias # toks[j].alias

(* One token of the client's SETUP; the fold stops acting at the first error. *)
setupToken(c, t) ==
    LET r == applyToken([c EXCEPT !.got = None], t) IN
    CASE c.err # "none" -> c
      [] c.err = "none" /\ t.op \in {"delete", "alias"} -> [c EXCEPT !.err = "violation"]
      [] c.err = "none" /\ t.op = "register" /\ r.err = "overflow" ->
            [c EXCEPT !.setup = Append(@, t.val)]
      [] OTHER -> IF r.err # "none" THEN [c EXCEPT !.err = r.err]
                  ELSE [r EXCEPT !.setup = Append(@, r.got)]

processSetupTokens(toks) ==
    FoldLeft(setupToken, Cache, toks)

(* What the client replays of the server's accounting. *)
holdAlias(h, t) ==
    IF t.op = "register" /\ h.used + Cost[t.val] <= limit
    THEN [used |-> h.used + Cost[t.val], held |-> h.held \union {t.alias}]
    ELSE h

heldSetupAliases(toks) == FoldLeft(holdAlias, [used |-> 0, held |-> {}], toks).held

ValueOf(toks, a) == (CHOOSE t \in Range(toks) : t.op = "register" /\ t.alias = a).val

Open ==
    /\ phase = "setup"
    /\ UNCHANGED <<foreign, setup, limit, open, ops, misread, streamVars>>
    /\ \/ /\ ~foreign /\ ~checkOutboundSetupTokens(setup)
          /\ phase' = "refused"
          /\ UNCHANGED <<entries, used, closed, resolved, held, view>>
       \/ /\ foreign \/ checkOutboundSetupTokens(setup)
          /\ phase' = "open"
          /\ LET c == processSetupTokens(setup) IN
             /\ entries' = c.entries
             /\ used' = c.used
             /\ resolved' = c.setup
             /\ closed' = IF c.err = "none" THEN "open" ELSE c.err
          /\ held' = heldSetupAliases(setup)
          /\ view' = [a \in Aliases |-> IF a \in held' THEN ValueOf(setup, a) ELSE None]
-----------------------------------------------------------------------------
(* The peer. A message is unanswered while its token is in await. *)
Live == phase = "open" /\ closed = "open" /\ ~foreign

SizeOf(f) == MapThenSumSet(LAMBDA a : Cost[f[a]], {a \in Aliases : f[a] # None})

Unanswered(kinds, a) ==
    \E r \in Reqs : \E i \in DOMAIN await[r] : await[r][i].op \in kinds /\ await[r][i].alias = a

MaySend ==
    {Register(a, v) : a \in {b \in Aliases : view[b] = None /\ ~Unanswered({"delete"}, b)},
                      v \in {w \in Values : SizeOf(view) + Cost[w] <= limit}}
    \union {UseAlias(a, view[a]) : a \in {b \in Aliases : view[b] # None /\ ~Unanswered({"register", "delete"}, b)}}
    \union {Delete(a) : a \in {b \in Aliases : view[b] # None /\ ~Unanswered({"register", "alias", "delete"}, b)}}
    \union {UseValue(v) : v \in Values}

Send(r, t) ==
    /\ Live
    /\ ops < MaxOps
    /\ ops' = ops + 1
    /\ await' = [await EXCEPT ![r] = Append(@, t)]
    /\ view' = IF t.op = "register" THEN [view EXCEPT ![t.alias] = t.val] ELSE view
    /\ UNCHANGED <<open, answers, setupVars, cacheVars>>

(* A request is opened. *)
SendRequest(r, t) ==
    /\ stream[r] = "idle"
    /\ stream' = [stream EXCEPT ![r] = "sent"]
    /\ queue' = [queue EXCEPT ![r] = <<t>>]
    /\ Send(r, t)
    /\ UNCHANGED lost

(* A REQUEST_UPDATE; drainRejected discards what comes after a rejection. *)
SendUpdate(r, t) ==
    /\ r \in open
    /\ Send(r, t)
    /\ IF stream[r] = "drained"
       THEN UNCHANGED queue /\ lost' = (lost \/ t.op \in {"register", "delete"})
       ELSE queue' = [queue EXCEPT ![r] = Append(@, t)] /\ UNCHANGED lost
    /\ UNCHANGED stream

(* The peer reads an answer. An error fails every message sent on the stream, *)
(* and the rules have their tokens applied nevertheless.                      *)
ReadAnswer(r) ==
    /\ Live
    /\ answers[r] # <<>>
    /\ answers' = [answers EXCEPT ![r] = Tail(@)]
    /\ LET ok == Head(answers[r]) = "ok"
           done == IF ok THEN {Head(await[r])} ELSE Range(await[r])
       IN
       /\ await' = [await EXCEPT ![r] = IF ok THEN Tail(@) ELSE <<>>]
       /\ view' = [a \in Aliases |-> IF Delete(a) \in done THEN None ELSE view[a]]
       /\ open' = IF ok THEN open \union {r} ELSE open \ {r}
    /\ UNCHANGED <<ops, stream, queue, lost, setupVars, cacheVars>>
-----------------------------------------------------------------------------
(* The session: a message is read and its token applied before the request,   *)
(* or the update, can be rejected for any other reason.                       *)
CloseFor(c) ==
    /\ c.err # "none"
    /\ closed' = c.err
    /\ UNCHANGED <<entries, used, misread, stream, answers, lost>>

Commit(c, t) ==
    /\ c.err = "none"
    /\ entries' = c.entries
    /\ used' = c.used
    /\ misread' = (misread \/ (t.op = "alias" /\ c.got # t.val))
    /\ UNCHANGED closed

Answer(r, s, a) ==
    /\ stream' = [stream EXCEPT ![r] = s]
    /\ answers' = [answers EXCEPT ![r] = Append(@, a)]

(* RejectError: REQUEST_ERROR and FIN, and the rest of the stream discarded. *)
Reject(r) ==
    /\ Answer(r, "drained", "error")
    /\ queue' = [queue EXCEPT ![r] = <<>>]
    /\ lost' = (lost \/ \E i \in 2..Len(queue[r]) : queue[r][i].op \in {"register", "delete"})

Serve(r) ==
    /\ Answer(r, "served", "ok")
    /\ queue' = [queue EXCEPT ![r] = Tail(@)]
    /\ UNCHANGED lost

\* Fault: a rejected request's tokens are not applied.
AcceptRequestVerifiedFirst(r) ==
    LET t == Head(queue[r])  c == applyToken(Cache, t) IN
    \/ CloseFor(c) /\ UNCHANGED queue
    \/ Commit(c, t) /\ Serve(r)
    \/ Reject(r) /\ UNCHANGED cacheVars

(* AcceptRequest then VerifyRequestTokens. A rejected request (a reserved     *)
(* namespace, a denied token) keeps what its token did to the cache.          *)
AcceptRequest(r) ==
    LET t == Head(queue[r])  c == applyToken(Cache, t) IN
    \/ CloseFor(c) /\ UNCHANGED queue
    \/ Commit(c, t) /\ (Serve(r) \/ Reject(r))

(* A follow-up: handleFollowupTokens, then refuseUpdateTokens may deny it. *)
FollowupUpdate(r) ==
    LET t == Head(queue[r])  c == applyToken(Cache, t) IN
    \/ CloseFor(c) /\ UNCHANGED queue
    \/ Commit(c, t) /\ (Serve(r) \/ Reject(r))

ReadMessage(r) ==
    /\ Live
    /\ queue[r] # <<>>
    /\ \/ stream[r] = "sent" /\ AcceptRequest(r)
       \/ stream[r] = "served" /\ FollowupUpdate(r)
    /\ UNCHANGED <<await, peerVars, setupVars>>

Next ==
    \/ Open
    \/ \E r \in Reqs, t \in MaySend : SendRequest(r, t)
    \/ \E r \in open : \E t \in MaySend : SendUpdate(r, t)
    \/ \E r \in Reqs : ReadAnswer(r) \/ ReadMessage(r)

Spec == Init /\ [][Next]_vars
-----------------------------------------------------------------------------
(* The accounting is exact after any sequence of registrations and deletions: *)
(* what the cache counts is what it holds, and never more than it advertised. *)
CacheAccounting == used = SizeOf(entries) /\ used <= limit

(* "Only these may be referenced with USE_ALIAS" (token_verify.go): the       *)
(* aliases the client takes as held after SETUP are those the server stored,  *)
(* though each side computes them on its own; and the server resolves every   *)
(* token, one that did not fit the cache included.                            *)
SetupAliasesAgree ==
    phase = "open" /\ ~foreign /\ ops = 0 =>
        /\ held = {a \in Aliases : entries[a] # None}
        /\ resolved = [i \in DOMAIN setup |-> setup[i].val]

(* An alias stands for the same value on both sides whenever the peer has no  *)
(* unanswered message about it: a rejected request or update keeps its        *)
(* REGISTER and its DELETE. Updates discarded behind a rejected one excepted. *)
CacheInStep ==
    Live /\ ~lost =>
        \A a \in Aliases : ~Unanswered({"register", "delete"}, a) => view[a] = entries[a]

(* As CacheInStep, with nothing excepted: "skipping this would silently       *)
(* desynchronize the peer's view of the token cache" (broker.go).             *)
CacheNeverDiverges ==
    Live =>
        \A a \in Aliases : ~Unanswered({"register", "delete"}, a) => view[a] = entries[a]

(* Both sides' ideas of the token cache agree, from SETUP on, and the cache's *)
(* own accounting is exact (token_verify.go, token_cache.go).                  *)
CachesAgree == CacheAccounting /\ SetupAliasesAgree /\ CacheInStep
=============================================================================
