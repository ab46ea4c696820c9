------------------------------- MODULE Blackboard -------------------------------
(* Blackboard turns over the worker pool: the runtime's deliberation
   (src/agent/runtime/module.ts), BlackboardModule (src/agent/blackboard/module.ts) and its
   tables (src/entities/blackboard/repo.ts). A turn takes the lease of its scope, lets its
   workers speak one after the other for some rounds, ends by consensus or by asking the
   user, and gives the lease back. The workers of all turns share the one model-backed
   worker, whose pool is here what a caller sees of it; WorkerPool has the rest.

   The tables are in a database other connections write to, so any write may be refused;
   the clock moves at will. *)
EXTENDS Integers, Sequences, FiniteSets

CONSTANTS
    MaxTurns,       \* bound: messages the runtime routes to the blackboard
    MaxScopes,      \* bound: scope constraints
    Workers,        \* how many workers a turn has
    HardMaxRounds,  \* budget.hardMaxRounds: DEFAULT_HARD_MAX_ROUNDS
    LeaseTtl,       \* ttlMs in ticks
    MaxClock,       \* bound: the last tick
    MaxFaults,      \* bound: refused writes
    MaxConcurrency, QueueLimit, \* of the pool of the model-backed worker
    None

ASSUME BlackboardAssumption ==
    /\ MaxTurns \in Nat /\ MaxScopes \in Nat /\ Workers \in Nat \ {0}
    /\ HardMaxRounds \in Nat \ {0} /\ LeaseTtl \in Nat /\ MaxClock \in Nat /\ MaxFaults \in Nat
    /\ None \notin [turn : Nat, expiry : Int]

VARIABLES
    pc,         \* the await the driver of a turn is suspended at
    scope,      \* the scope constraint of the turn's context
    now,        \* context.now, which stamps all its rows
    capped,     \* its contract is non-convergent: forceHardCap
    round,      \* the round it is in
    said,       \* outcomes of the round's steps, in the order of the workers
    call,       \* its task in the pool: "none", "queued", "running", or how it settled
    status,     \* blackboard_turns.status
    decided,    \* blackboard_decisions has a row for it
    back,       \* what the runtime is handed: "none", "answer", "ask", "failed", "busy"
    lease,      \* blackboard_leases: per scope the turn and the expiry, or None
    queue,      \* turns whose task waits for a slot
    clock,
    faults

\* A step is final (agreed, without an open issue), blocked (with one), or neither.
Outcomes == {"final", "blocked", "open"}
Turns == 1..MaxTurns    \* by arrival
Scopes == 1..MaxScopes  \* by first use
turnVars == <<pc, scope, now, capped, round, said, status, decided, back>>
pool == <<call, queue>>
vars == <<turnVars, pool, lease, clock, faults>>

Leases == [turn : Turns, expiry : Int]
Driven == {"create", "undo", "dispatch", "await", "judge", "decide", "finish", "release",
           "fail", "failRelease"}

Init ==
    /\ pc = [t \in Turns |-> "new"]
    /\ scope \in {f \in [Turns -> Scopes] : \A t \in Turns : f[t] <= t}
    /\ now = [t \in Turns |-> 0] /\ capped \in [Turns -> BOOLEAN]
    /\ round = [t \in Turns |-> 1] /\ said = [t \in Turns |-> <<>>]
    /\ call = [t \in Turns |-> "none"] /\ queue = <<>> /\ status = [t \in Turns |-> "none"]
    /\ decided = [t \in Turns |-> FALSE] /\ back = [t \in Turns |-> "none"]
    /\ lease = [s \in Scopes |-> None]
    /\ clock = 0 /\ faults = 0

Goto(t, label) == pc' = [pc EXCEPT ![t] = label]

\* The database refuses the write: the call rejects and the driver goes on at `label`.
Refused(t, label) ==
    /\ faults < MaxFaults /\ faults' = faults + 1
    /\ Goto(t, label)
    /\ UNCHANGED <<scope, now, capped, round, said, status, decided, back, lease, clock>>
-----------------------------------------------------------------------------
\* A message arrives and is given its time; the route is decided before the turn starts.
Arrive(t) ==
    /\ pc[t] = "new" /\ \A u \in 1..(t - 1) : pc[u] # "new"
    /\ now' = [now EXCEPT ![t] = clock]
    /\ Goto(t, "start")
    /\ UNCHANGED <<scope, capped, round, said, status, decided, back, lease, clock, faults>>
    /\ UNCHANGED pool

\* Mutant: a lease is taken for expired a tick too early.
UnexpiredForLess(time) ==
    [s \in Scopes |-> IF lease[s] # None /\ lease[s].expiry <= time + 1 THEN None
                      ELSE lease[s]]

\* What is left of the leases when those that have expired for `time` are deleted.
Unexpired(time) ==
    [s \in Scopes |-> IF lease[s] # None /\ lease[s].expiry <= time THEN None ELSE lease[s]]

\* acquireLease: expired leases of every scope go, then the scope is free or it is not.
Start(t) ==
    /\ pc[t] = "start"
    /\ UNCHANGED pool
    /\ \/ LET left == Unexpired(now[t]) IN
          /\ IF left[scope[t]] # None
             THEN /\ lease' = left /\ Goto(t, "left")
                  /\ back' = [back EXCEPT ![t] = "busy"]
             ELSE /\ lease' = [left EXCEPT ![scope[t]] =
                                  [turn |-> t, expiry |-> now[t] + LeaseTtl]]
                  /\ Goto(t, "create") /\ UNCHANGED back
          /\ UNCHANGED <<scope, now, capped, round, said, status, decided, clock, faults>>
       \/ Refused(t, "left")

\* createTurn; a turn that cannot be written gives its lease back before it throws.
Create(t) ==
    /\ pc[t] = "create"
    /\ UNCHANGED pool
    /\ \/ /\ status' = [status EXCEPT ![t] = "running"]
          /\ Goto(t, "dispatch")
          /\ UNCHANGED <<scope, now, capped, round, said, decided, back, lease, clock,
                         faults>>
       \/ Refused(t, "undo")

\* releaseLease deletes the lease only if it is this turn's.
Released(t) ==
    IF lease[scope[t]] # None /\ lease[scope[t]].turn = t
    THEN [lease EXCEPT ![scope[t]] = None] ELSE lease

Undo(t) ==
    /\ pc[t] = "undo"
    /\ UNCHANGED pool
    /\ \/ /\ lease' = Released(t) /\ Goto(t, "left")
          /\ UNCHANGED <<scope, now, capped, round, said, status, decided, back, clock,
                         faults>>
       \/ Refused(t, "left")
-----------------------------------------------------------------------------
(* WorkerManager.run, execute and drain, as far as a turn can tell. *)

Busy == {t \in Turns : call[t] = "running"}

\* runWorker up to its await: the dispatch message, then run(). A full queue throws.
Dispatch(t) ==
    /\ pc[t] = "dispatch"
    /\ \/ /\ IF Len(queue) >= QueueLimit
             THEN Goto(t, "fail") /\ UNCHANGED pool
             ELSE /\ Goto(t, "await")
                  /\ IF Cardinality(Busy) < MaxConcurrency
                     THEN call' = [call EXCEPT ![t] = "running"] /\ UNCHANGED queue
                     ELSE call' = [call EXCEPT ![t] = "queued"] /\ queue' = Append(queue, t)
          /\ UNCHANGED <<scope, now, capped, round, said, status, decided, back, lease, clock,
                         faults>>
       \/ Refused(t, "fail") /\ UNCHANGED pool

\* Mutant: the end of a task does not start the next one.
SettleAlone(t, how) ==
    /\ call[t] = "running"
    /\ call' = [call EXCEPT ![t] = how] /\ UNCHANGED queue
    /\ UNCHANGED <<turnVars, lease, clock, faults>>

\* A task ends: the model answers, or the adapter throws or its timer fires. The slot goes
\* to whoever waits longest.
Settle(t, how) ==
    /\ call[t] = "running"
    /\ queue' = IF queue = <<>> THEN queue ELSE Tail(queue)
    /\ call' = [u \in Turns |-> CASE u = t -> how
                                   [] queue # <<>> /\ u = Head(queue) -> "running"
                                   [] OTHER -> call[u]]
    /\ UNCHANGED <<turnVars, lease, clock, faults>>

\* The rest of runWorker, and appendStepToTurn: its messages and its step are written, and
\* the next worker speaks or the round is judged. A task that did not complete throws, and
\* so does a write; the driver's own turn has the step only if no write threw.
Hear(t) ==
    /\ pc[t] = "await" /\ call[t] \in {"completed", "failed"}
    /\ call' = [call EXCEPT ![t] = "none"] /\ UNCHANGED queue
    /\ \/ /\ call[t] = "completed"
          /\ \E o \in Outcomes : said' = [said EXCEPT ![t] = Append(@, o)]
          /\ Goto(t, IF Len(said[t]) + 1 < Workers THEN "dispatch" ELSE "judge")
          /\ UNCHANGED <<scope, now, capped, round, status, decided, back, lease, clock, faults>>
       \/ /\ call[t] = "failed"
          /\ Goto(t, "fail")
          /\ UNCHANGED <<scope, now, capped, round, said, status, decided, back, lease, clock,
                         faults>>
       \/ call[t] = "completed" /\ Refused(t, "fail")

All(t, o) == \A i \in 1..Workers : said[t][i] = o

\* evaluateConvergence; a contract that cannot converge is not even evaluated.
Converges(t) == ~capped[t] /\ Len(said[t]) = Workers /\ All(t, "final")
IsStuck(t) == ~capped[t] /\ All(t, "blocked")

\* Mutant: a round without an agreement or a blocker is the last one, too.
JudgeOnce(t) ==
    /\ pc[t] = "judge"
    /\ Goto(t, IF IsStuck(t) THEN "decide" ELSE "finish")
    /\ UNCHANGED <<scope, now, capped, round, said, status, decided, back, lease, clock,
                   faults>>
    /\ UNCHANGED pool

\* The end of a round. The budget's maxRounds does not count: only hardMaxRounds does.
Judge(t) ==
    /\ pc[t] = "judge"
    /\ IF Converges(t) THEN Goto(t, "finish") /\ UNCHANGED <<round, said>>
       ELSE IF IsStuck(t) \/ round[t] >= HardMaxRounds
       THEN Goto(t, "decide") /\ UNCHANGED <<round, said>>
       ELSE /\ round' = [round EXCEPT ![t] = @ + 1]
            /\ said' = [said EXCEPT ![t] = <<>>]
            /\ Goto(t, "dispatch")
    /\ UNCHANGED <<scope, now, capped, status, decided, back, lease, clock, faults>>
    /\ UNCHANGED pool

\* returnDecisionToUser and requestDecision: the decision's row and the date of its turn,
\* either of which may be refused, then finishTurn.
Decide(t) ==
    /\ pc[t] = "decide"
    /\ UNCHANGED pool
    /\ \/ /\ decided' = [decided EXCEPT ![t] = TRUE] /\ Goto(t, "finish")
          /\ UNCHANGED <<scope, now, capped, round, said, status, back, lease, clock, faults>>
       \/ /\ faults < MaxFaults /\ faults' = faults + 1
          /\ decided' = [decided EXCEPT ![t] = TRUE] /\ Goto(t, "fail")
          /\ UNCHANGED <<scope, now, capped, round, said, status, back, lease, clock>>
       \/ Refused(t, "fail")

\* finishTurn: updateTurnStatus, whatever the status was ...
Finish(t) ==
    /\ pc[t] \in {"finish", "fail"}
    /\ UNCHANGED pool
    /\ \/ /\ status' = [status EXCEPT ![t] = IF pc[t] = "fail" THEN "failed"
                                             ELSE IF decided[t] THEN "needs-user"
                                             ELSE "converged"]
          /\ Goto(t, IF pc[t] = "fail" THEN "failRelease" ELSE "release")
          /\ UNCHANGED <<scope, now, capped, round, said, decided, back, lease, clock,
                         faults>>
       \/ Refused(t, IF pc[t] = "fail" THEN "left" ELSE "fail")

\* buildBlackboardStalemateAsk: only a turn that needs the user is turned into a question.
Hand(t) == CASE status[t] = "needs-user" -> "ask"
             [] status[t] = "failed" -> "failed"
             [] OTHER -> "answer"

\* Mutant: a turn that waits for the user's decision keeps its lease.
ReleaseUnlessDecided(t) ==
    /\ pc[t] \in {"release", "failRelease"}
    /\ UNCHANGED pool
    /\ lease' = IF decided[t] THEN lease ELSE Released(t)
    /\ Goto(t, "left")
    /\ back' = [back EXCEPT ![t] = Hand(t)]
    /\ UNCHANGED <<scope, now, capped, round, said, status, decided, clock, faults>>

\* ... and releaseLease. A refusal in the try leads to the catch clause, in that to the end.
Release(t) ==
    /\ pc[t] \in {"release", "failRelease"}
    /\ UNCHANGED pool
    /\ \/ /\ lease' = Released(t) /\ Goto(t, "left")
          /\ back' = [back EXCEPT ![t] = Hand(t)]
          /\ UNCHANGED <<scope, now, capped, round, said, status, decided, clock, faults>>
       \/ Refused(t, IF pc[t] = "failRelease" THEN "left" ELSE "fail")
-----------------------------------------------------------------------------
Tick ==
    /\ clock < MaxClock /\ clock' = clock + 1
    /\ UNCHANGED <<turnVars, pool, lease, faults>>

\* The process dies: drivers and pool are gone, the tables stay.
Crash ==
    /\ faults < MaxFaults /\ faults' = faults + 1
    /\ \E t \in Turns : pc[t] \in Driven
    /\ pc' = [t \in Turns |-> IF pc[t] = "new" THEN "new" ELSE "left"]
    /\ call' = [t \in Turns |-> "none"] /\ queue' = <<>>
    /\ UNCHANGED <<scope, now, capped, round, said, status, decided, back, lease, clock>>

Drive(t) == Start(t) \/ Create(t) \/ Undo(t) \/ Dispatch(t) \/ Hear(t) \/ Judge(t)
            \/ Decide(t) \/ Finish(t) \/ Release(t)

Next == \/ \E t \in Turns : Arrive(t) \/ Drive(t) \/ Settle(t, "completed")
                           \/ Settle(t, "failed")
        \/ Tick \/ Crash

\* A driver's continuations run once their promise is settled, and a task times out.
Spec == /\ Init /\ [][Next]_vars
        /\ \A t \in Turns : WF_vars(Drive(t)) /\ WF_vars(Settle(t, "failed"))
-----------------------------------------------------------------------------
\* Every variable keeps its type.
TypeOK ==
    /\ pc \in [Turns -> {"new", "start", "left"} \cup Driven]
    /\ scope \in [Turns -> Scopes] /\ now \in [Turns -> 0..MaxClock]
    /\ capped \in [Turns -> BOOLEAN] /\ round \in [Turns -> 1..HardMaxRounds]
    /\ said \in [Turns -> Seq(Outcomes)] /\ \A t \in Turns : Len(said[t]) <= Workers
    /\ call \in [Turns -> {"none", "queued", "running", "completed", "failed"}]
    /\ queue \in Seq(Turns)
    /\ status \in [Turns -> {"none", "running", "converged", "needs-user", "failed"}]
    /\ decided \in [Turns -> BOOLEAN]
    /\ back \in [Turns -> {"none", "answer", "ask", "failed", "busy"}]
    /\ lease \in [Scopes -> Leases \cup {None}]
    /\ clock \in 0..MaxClock /\ faults \in 0..MaxFaults

\* Two turns deliberate over one scope at a time only if the lease of one of them has run
\* out meanwhile: the lease is exclusive as long as it lasts, and no longer.
ExclusiveWhileLeased ==
    \A t, u \in Turns :
        t # u /\ pc[t] \in Driven \ {"create", "undo"} /\ pc[u] \in Driven \ {"create", "undo"}
            /\ scope[t] = scope[u]
        => now[t] + LeaseTtl <= clock \/ now[u] + LeaseTtl <= clock

\* A turn nobody drives any more is not left running, nor its scope locked, unless the
\* database refused a write or the process died.
NothingIsLeftBehind ==
    \A t \in Turns : pc[t] = "left" /\ faults = 0
        => status[t] # "running" /\ \A s \in Scopes : lease[s] = None \/ lease[s].turn # t

\* What the user is told is what the tables say: a question only with its decision, an
\* answer only after all workers of a round have agreed.
HandedBackAsRecorded ==
    \A t \in Turns :
        /\ back[t] = "ask" => status[t] = "needs-user" /\ decided[t]
        /\ back[t] = "answer" => status[t] = "converged" /\ ~decided[t] /\ Converges(t)

\* The deliberation ends, however its workers behave.
EveryTurnEnds == \A t \in Turns : pc[t] = "start" ~> pc[t] = "left"

\* docs/blackboard.md has a lease conflict handed back as a question, too. It is not.
ConflictIsAsked == \A t \in Turns : back[t] # "busy"
=============================================================================
