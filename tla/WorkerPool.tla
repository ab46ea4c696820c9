------------------------------- MODULE WorkerPool -------------------------------
(* The pool of one registered worker: WorkerManager.run, drain and execute of
   src/agent/worker/manager.ts, over either kind of adapter. An in-process or one-shot
   adapter returns a promise of its own for every task. A persistent one shares a child
   process among all of them (PersistentJsonConnection): a line for each task goes in, a
   line for each answer comes out, with or without the id of its task.

   The worker itself is external: it may answer, answer nonsense, stay silent or die. *)
EXTENDS Integers, Sequences, FiniteSets, SequencesExt

CONSTANTS
    MaxTasks,       \* bound: how often run() is called
    MaxConcurrency, \* maxConcurrency of the registration
    QueueLimit,     \* queueLimit of the registration
    Adapters        \* the adapters to consider

ASSUME PoolAssumption ==
    /\ MaxTasks \in Nat /\ MaxConcurrency \in Nat \ {0} /\ QueueLimit \in Nat \ {0}
    /\ Adapters \subseteq {"own promise", "shared child"}

VARIABLES
    adapter,    \* the adapter of this registration
    queue,      \* pool.queue
    active,     \* pool.active
    task,       \* what became of a call: "new", "refused", "queued", "running", "settled"
    result,     \* the status it was resolved with, "none" until then
    pending,    \* tasks whose adapter promise is not settled (for a child: the pending map)
    child,      \* the child: "none", "running", "exited"
    stdin,      \* tasks whose line the child has not answered
    stdout,     \* lines the child has written and nobody has read
    answerOf    \* history: the task whose answer a task was completed with

pool == <<adapter, queue, active, task, result, pending, child, stdin, stdout, answerOf>>

PoolTasks == 1..MaxTasks    \* in the order of the calls; 0 stands for no task
Lines == [of : PoolTasks, id : BOOLEAN, kind : {"output"}]
         \cup [of : PoolTasks, id : {TRUE}, kind : {"error"}]
         \cup [of : {0}, id : {FALSE}, kind : {"garbage"}]

PoolInit ==
    /\ adapter \in Adapters
    /\ queue = <<>> /\ active = 0
    /\ task = [t \in PoolTasks |-> "new"] /\ result = [t \in PoolTasks |-> "none"]
    /\ pending = {} /\ child = "none" /\ stdin = {} /\ stdout = <<>>
    /\ answerOf = [t \in PoolTasks |-> 0]
-----------------------------------------------------------------------------
\* Mutant: only run() drains, not the end of a task.
StartedByRunOnly(waiting, busy) ==
    LET n == IF Len(waiting) <= MaxConcurrency - busy THEN Len(waiting)
             ELSE MaxConcurrency - busy
    IN  IF Len(waiting) > Len(queue) THEN SubSeq(waiting, 1, n) ELSE <<>>

\* drain: as many of the waiting tasks as there are free slots.
Started(waiting, busy) ==
    LET n == IF Len(waiting) <= MaxConcurrency - busy THEN Len(waiting)
             ELSE MaxConcurrency - busy
    IN  SubSeq(waiting, 1, n)

\* The tasks `ended` leave their slots with status s and drain fills these again; a task
\* whose timer has settled it before keeps what it has.
Proceed(waiting, ended, s, unsettled) ==
    LET leaving == {t \in ended : task[t] = "running"}
        started == Started(waiting, active - Cardinality(leaving))
    IN  /\ active' = active - Cardinality(leaving) + Len(started)
        /\ queue' = SubSeq(waiting, Len(started) + 1, Len(waiting))
        /\ task' = [t \in PoolTasks |-> CASE t \in leaving -> "settled"
                                      [] t \in ToSet(started) -> "running"
                                      [] t \in ToSet(waiting) \ ToSet(started) -> "queued"
                                      [] OTHER -> task[t]]
        /\ result' = [t \in PoolTasks |-> IF t \in leaving THEN s ELSE result[t]]
        /\ pending' = unsettled \cup ToSet(started)
        /\ stdin' = stdin \cup IF child' = "running" THEN ToSet(started) ELSE {}

\* run(): the queue has to have room even when a slot is free. The first task of a
\* persistent worker spawns its child; connectionFor never replaces it.
Run(t) ==
    /\ task[t] = "new" /\ \A u \in 1..(t - 1) : task[u] # "new"
    /\ IF Len(queue) >= QueueLimit
       THEN /\ task' = [task EXCEPT ![t] = "refused"]
            /\ UNCHANGED <<queue, active, result, pending, child, stdin>>
       ELSE /\ child' = IF adapter = "shared child" /\ child = "none" THEN "running"
                        ELSE child
            /\ Proceed(Append(queue, t), {}, "none", pending)
    /\ UNCHANGED <<adapter, stdout, answerOf>>

\* The timer of execute(). What the adapter does for the task goes on, and so does its
\* entry in the pending map.
Timeout(t) ==
    /\ task[t] = "running"
    /\ UNCHANGED <<adapter, child, stdout, answerOf>>
    /\ Proceed(queue, {t}, "timeout", pending)

\* A promise of an in-process or one-shot worker.
OwnPromise(t) ==
    /\ adapter = "own promise" /\ t \in pending
    /\ UNCHANGED <<adapter, child, stdout>>
    /\ \E s \in {"completed", "failed"} :
          /\ Proceed(queue, {t}, s, pending \ {t})
          /\ answerOf' = IF s = "completed" /\ task[t] = "running"
                         THEN [answerOf EXCEPT ![t] = t] ELSE answerOf
-----------------------------------------------------------------------------
(* PersistentJsonConnection *)

\* rejectAll: the promises of all pending tasks.
RejectAll ==
    /\ Proceed(queue, pending, "failed", {})
    /\ UNCHANGED answerOf

\* The child answers one of its tasks.
Answer(t) ==
    /\ child = "running" /\ t \in stdin
    /\ stdin' = stdin \ {t}
    /\ \E line \in {l \in Lines : l.of \in {t, 0}} : stdout' = Append(stdout, line)
    /\ UNCHANGED <<adapter, queue, active, task, result, pending, child, answerOf>>

\* It dies, or is killed for what it wrote to stderr. Lines it has written stay readable.
ChildExits ==
    /\ child = "running"
    /\ child' = "exited"
    /\ UNCHANGED <<adapter, stdout>>
    /\ RejectAll

\* Mutant: an answer without an id goes to the first that waits.
AddresseeFirst(line) ==
    IF line.id THEN line.of
    ELSE IF pending # {} THEN CHOOSE t \in pending : \A u \in pending : t <= u ELSE 0

\* The task a line is taken to answer. One without an id belongs to whoever waits alone.
Addressee(line) ==
    IF line.id THEN line.of
    ELSE IF Cardinality(pending) = 1 THEN CHOOSE t \in pending : TRUE ELSE 0

\* handleLine
HandleLine ==
    /\ stdout # <<>>
    /\ LET line == Head(stdout)
           t == Addressee(line)
       IN  /\ stdout' = Tail(stdout)
           /\ UNCHANGED <<adapter, child>>
           /\ CASE line.kind = "garbage" \/ t = 0 -> RejectAll
                [] line.kind # "garbage" /\ t # 0 /\ t \notin pending ->
                     UNCHANGED <<queue, active, task, result, pending, stdin, answerOf>>
                [] OTHER ->
                     LET good == line.kind = "output" IN
                     /\ Proceed(queue, {t}, IF good THEN "completed" ELSE "failed",
                                pending \ {t})
                     /\ answerOf' = IF good /\ task[t] = "running"
                                    THEN [answerOf EXCEPT ![t] = line.of] ELSE answerOf
-----------------------------------------------------------------------------
Inside == (\E t \in PoolTasks : Timeout(t) \/ OwnPromise(t) \/ Answer(t))
          \/ ChildExits \/ HandleLine

PoolNext == Inside \/ \E t \in PoolTasks : Run(t)

\* Of the worker nothing is assumed; the timers of execute() fire.
PoolFairness == \A t \in PoolTasks : WF_pool(Timeout(t))

PoolSpec == PoolInit /\ [][PoolNext]_pool /\ PoolFairness
-----------------------------------------------------------------------------
\* Every variable keeps its type.
PoolTypeOK ==
    /\ adapter \in Adapters /\ queue \in Seq(PoolTasks) /\ active \in 0..MaxConcurrency
    /\ task \in [PoolTasks -> {"new", "refused", "queued", "running", "settled"}]
    /\ result \in [PoolTasks -> {"none", "completed", "failed", "timeout"}]
    /\ pending \subseteq PoolTasks /\ child \in {"none", "running", "exited"}
    /\ stdin \subseteq PoolTasks /\ stdout \in Seq(Lines)
    /\ answerOf \in [PoolTasks -> PoolTasks \cup {0}]

\* active counts the tasks that run, neither a timeout nor a rejectAll that settles many
\* at once lets it drift, and no task waits while a slot is free.
SlotsAreCounted ==
    /\ active = Cardinality({t \in PoolTasks : task[t] = "running"})
    /\ ToSet(queue) = {t \in PoolTasks : task[t] = "queued"}
    /\ queue # <<>> => active = MaxConcurrency

\* A task is given the answer to another one only when an earlier task has timed out or
\* failed: as long as all goes well, an answer without an id is never handed to a task it
\* is not meant for.
StrangersAnswerOnlyAfterFailure ==
    (\E t \in PoolTasks : answerOf[t] \notin {t, 0})
        => \E t \in PoolTasks : result[t] \in {"timeout", "failed"}

\* A call that is accepted is resolved, whatever the worker does.
EveryTaskSettles ==
    \A t \in PoolTasks : task[t] \in {"queued", "running"} ~> task[t] = "settled"
=============================================================================
