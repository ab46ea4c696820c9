---------------------------- MODULE GatewayTurns ----------------------------
(* Live turns at the socket: SocketControlHub.handleGatewayMessageSend and     *)
(* handleGatewayMessageInterrupt (socket/control.ts), SocketModule.dispatch    *)
(* (socket/module.ts) and its InMemoryDedupStore (socket/dedup.store.ts).      *)
(*                                                                             *)
(* A send claims the message in the dedup store, runs the turn and records its *)
(* reply there, or releases the claim if the turn fails.  While it runs it has *)
(* an entry in activeTurns, under its request id, by which an interrupt finds  *)
(* it.  A step is the code between two events of the loop: a claim, a record   *)
(* and a release are each done without giving up the processor.                *)
(*                                                                             *)
(* The hub is the only caller of dispatch and gives every message an id of its *)
(* own first, so no claim of the store ever meets another one of its key.      *)
EXTENDS Naturals, Sequences, FiniteSets, Sublists

CONSTANTS
    Connections,  \* socket connections; a client that reconnects gets a new one
    Messages,     \* the message ids the clients choose (channel included)
    Requests,     \* the request ids the clients choose
    Ttl,          \* dedup time-to-live
    MaxEntries,   \* dedup capacity
    MaxTurns,     \* bound: messages delivered
    MaxTime       \* bound: clock

ASSUME GatewayAssumption ==
    /\ Ttl \in Nat \ {0} /\ MaxEntries \in Nat \ {0}
    /\ MaxTurns \in Nat /\ MaxTime \in Nat

VARIABLES
    open,      \* open connections
    closed,    \* connections that were closed
    turns,     \* the deliveries so far, in order
    activeTurns, \* the delivery registered under each request id
    entries,   \* the dedup Map, in insertion order
    now        \* Date.now()

gateway == <<open, closed, turns, activeTurns, entries, now>>

Nil == 0
Keys == Messages \X (1..MaxTurns)

GatewayInit ==
    /\ open = {} /\ closed = {} /\ turns = <<>>
    /\ activeTurns = [r \in Requests |-> Nil]
    /\ entries = <<>> /\ now = 0

-----------------------------------------------------------------------------
(* InMemoryDedupStore *)

\* buildDedupKey of the id that messageFromInput makes for delivery t of a message.
Key(m, t) == <<m, t>>

Without(list, k) == Pick(list, {i \in DOMAIN list : list[i].key # k})
Find(list, k) == {i \in 1..Len(list) : list[i].key = k}

EvictExpired == Pick(entries, {i \in DOMAIN entries : entries[i].exp > now})

Overflow(list) == IF Len(list) > MaxEntries THEN Len(list) - MaxEntries ELSE 0
EnforceCapacity(list) == SubSeq(list, Overflow(list) + 1, Len(list))

\* tryClaim.  Its three results are the state of the new turn: running when the
\* claim is granted, replayed when a reply is cached, ignored when the claim of
\* another delivery is in flight.
Claim(k) ==
    LET live == EvictExpired
        there == Find(live, k)
    IN  IF there = {}
        THEN [list |-> EnforceCapacity(Append(live, [key |-> k, exp |-> now + Ttl, reply |-> Nil])),
              state |-> "running"]
        ELSE [list |-> live,
              state |-> IF live[CHOOSE i \in there : TRUE].reply = Nil THEN "ignored" ELSE "replayed"]

\* recordReply: an entry that has expired or was pushed out comes back, whatever the capacity.
RecordReply(k, t) ==
    IF Find(entries, k) = {}
    THEN Append(entries, [key |-> k, exp |-> now + Ttl, reply |-> t])
    ELSE [i \in 1..Len(entries) |->
            IF entries[i].key = k THEN [entries[i] EXCEPT !.reply = t] ELSE entries[i]]

Release(k) == Without(entries, k)

-----------------------------------------------------------------------------
(* Connections and turns *)

Connect(c) ==
    /\ c \notin open \cup closed
    /\ open' = open \cup {c}
    /\ UNCHANGED <<closed, turns, activeTurns, entries, now>>

\* close() forgets the connection; its turns go on.
Close(c) ==
    /\ c \in open
    /\ open' = open \ {c} /\ closed' = closed \cup {c}
    /\ UNCHANGED <<turns, activeTurns, entries, now>>

InProgress(t) == turns[t].state = "running"

\* handleGatewayMessageSend up to the run of the turn.  A delivery that is
\* answered from the store is over at once: its finally block removes the entry
\* of the request id, whose ever it is.  A turn knows the turns of its request id
\* that were running when it came (history).
Send(c, m, r) ==
    LET t == Len(turns) + 1
        claim == Claim(Key(m, t))
    IN  /\ c \in open /\ t <= MaxTurns
        /\ entries' = claim.list
        /\ turns' = Append(turns,
             [conn |-> c, msg |-> m, req |-> r, key |-> Key(m, t), state |-> claim.state,
              aborted |-> FALSE, ended |-> 0,
              beside |-> {u \in 1..Len(turns) : turns[u].req = r /\ InProgress(u)}])
        /\ activeTurns' = [activeTurns EXCEPT ![r] = IF claim.state = "running" THEN t ELSE Nil]
        /\ UNCHANGED <<open, closed, now>>

\* The turn is over, before the next delivery (history).
End(t, state) ==
    /\ turns' = [turns EXCEPT ![t].state = state, ![t].ended = Len(turns)]
    /\ activeTurns' = [activeTurns EXCEPT ![turns[t].req] = Nil]

\* handleMessage resolves: the reply is recorded and sent, the entry removed.
\* An interrupt that comes too late for the last check changes nothing.
Reply(t) ==
    /\ InProgress(t)
    /\ entries' = RecordReply(turns[t].key, t)
    /\ End(t, "done")
    /\ UNCHANGED <<open, closed, now>>

\* Mutant: the claim of a turn that fails is not released.
FailKeepingClaim(t) ==
    /\ InProgress(t)
    /\ End(t, "failed")
    /\ UNCHANGED <<open, closed, entries, now>>

\* handleMessage rejects, because it failed or because it was aborted.
Fail(t) ==
    /\ InProgress(t)
    /\ entries' = Release(turns[t].key)
    /\ End(t, "failed")
    /\ UNCHANGED <<open, closed, now>>

-----------------------------------------------------------------------------
(* Interrupts *)

Active == {activeTurns[r] : r \in Requests} \ {Nil}

\* The turns an interrupt of connection c reaches.  Without an id it must be
\* the only turn of all.
Aimed(c, req, msg) ==
    {t \in Active :
        /\ turns[t].conn = c
        /\ req # Nil => turns[t].req = req
        /\ msg # Nil => turns[t].msg = msg
        /\ (req = Nil /\ msg = Nil) => Cardinality(Active) = 1}

\* Mutant: the entries of the id are removed before the client is compared.
InterruptForgetsOthers(c, req, msg) ==
    LET hit == Aimed(c, req, msg) IN
    /\ c \in open
    /\ turns' = [t \in 1..Len(turns) |->
                   IF t \in hit THEN [turns[t] EXCEPT !.aborted = TRUE] ELSE turns[t]]
    /\ activeTurns' = [r \in Requests |->
                         IF activeTurns[r] \in hit \/ r = req THEN Nil ELSE activeTurns[r]]
    /\ UNCHANGED <<open, closed, entries, now>>

Interrupt(c, req, msg) ==
    LET hit == Aimed(c, req, msg) IN
    /\ c \in open
    /\ turns' = [t \in 1..Len(turns) |->
                   IF t \in hit THEN [turns[t] EXCEPT !.aborted = TRUE] ELSE turns[t]]
    /\ activeTurns' = [r \in Requests |-> IF activeTurns[r] \in hit THEN Nil ELSE activeTurns[r]]
    /\ UNCHANGED <<open, closed, entries, now>>

Tick ==
    /\ now < MaxTime
    /\ now' = now + 1
    /\ UNCHANGED <<open, closed, turns, activeTurns, entries>>

GatewayNext ==
    \/ \E c \in Connections :
         \/ Connect(c) \/ Close(c)
         \/ \E m \in Messages, r \in Requests : Send(c, m, r)
         \/ \E m \in Messages \cup {Nil}, r \in Requests \cup {Nil} : Interrupt(c, r, m)
    \/ \E t \in 1..Len(turns) : Reply(t) \/ Fail(t)
    \/ Tick

GatewaySpec == GatewayInit /\ [][GatewayNext]_gateway

-----------------------------------------------------------------------------
(* Properties *)

Turn == [conn : Connections, msg : Messages, req : Requests, key : Keys,
         state : {"running", "done", "failed", "replayed", "ignored"},
         aborted : BOOLEAN, ended : Nat, beside : SUBSET Nat]

\* Turns, registrations and dedup entries are well formed: what is registered or cached
\* belongs to a delivery there was.
GatewayTypeOK ==
    /\ open \subseteq Connections /\ closed \subseteq Connections
    /\ turns \in Seq(Turn)
    /\ activeTurns \in [Requests -> 0..Len(turns)]
    /\ entries \in Seq([key : Keys, exp : Nat, reply : 0..Len(turns)])
    /\ now \in Nat

\* Another turn of the same request id ran while this one did.
Shared(t) ==
    turns[t].beside # {} \/ \E u \in 1..Len(turns) : t \in turns[u].beside

\* However turns start, end and are interrupted, over whatever connections, an entry of
\* activeTurns is a turn in progress under that request id that nobody has aborted; and a turn
\* in progress that nobody has aborted has its entry, so that its client can interrupt it,
\* unless a turn of the same request id ran beside it (handleGatewayMessageSend,
\* handleGatewayMessageInterrupt).
ActiveIffRunning ==
    /\ \A r \in Requests : activeTurns[r] # Nil =>
          /\ InProgress(activeTurns[r])
          /\ turns[activeTurns[r]].req = r /\ ~turns[activeTurns[r]].aborted
    /\ \A t \in 1..Len(turns) : InProgress(t) /\ ~turns[t].aborted /\ ~Shared(t) =>
          activeTurns[turns[t].req] = t

\* Replies that were recorded since the last claim.
Late == {t \in 1..Len(turns) : turns[t].state = "done" /\ turns[t].ended = Len(turns)}

\* However long turns take, whatever expires and whatever capacity pushes out: a claim
\* without a reply is that of a turn in progress, so that none is left behind; a cached reply
\* is that of the delivery it is filed under; and the store holds no more than maxEntries and
\* the replies that came since the last claim, which alone enforces the capacity (tryClaim,
\* recordReply, release).
ClaimsAreSettled ==
    /\ \A i \in 1..Len(entries) :
          LET e == entries[i] IN
          IF e.reply = Nil
          THEN \E t \in 1..Len(turns) : InProgress(t) /\ turns[t].key = e.key
          ELSE turns[e.reply].state = "done" /\ turns[e.reply].key = e.key
    /\ Len(entries) <= MaxEntries + Cardinality(Late)

\* docs/runtime.turn.md: "Deduplication uses channel + message id": as long as the store keeps
\* a claim or a reply for a message, the same message does not run again. It fails.
RepeatIsRecognised ==
    [][\A i \in DOMAIN entries : LET t == Len(turns') IN
        t > Len(turns) /\ entries[i].exp > now /\ entries[i].key[1] = turns'[t].msg
            => turns'[t].state # "running"]_gateway

\* docs/control.protocol.md: an interrupt that names the request id of an active
\* live turn stops it.
RunningIsInterruptible ==
    \A t \in 1..Len(turns) : InProgress(t) /\ ~turns[t].aborted =>
        \E c \in Connections \ closed : t \in Aimed(c, turns[t].req, Nil)
=============================================================================
