---------------------------- MODULE SubagentBatch ----------------------------
(* One subagent.batch call: RuntimeSubagentBatchComponent.run
   (src/agent/runtime/subagent/component.ts) fans the tasks out over a few workers,
   ExecutionJobStore (src/executive/job/store.ts) keeps the job in memory, every
   transition is appended to the execution-job ledger of brain.db, and the socket's
   read model (src/socket/query/brain.reader.ts) rebuilds the job from that ledger.

   A child's tool loop is external to this module: it ends in one of the statuses
   runChild knows, or throws, or never ends: its MCP calls have awaits without a
   timer (McpClient). *)
EXTENDS Integers, Sequences, FiniteSets

CONSTANTS
    NumTasks,       \* tasks of the batch (readInput: 1..24)
    Concurrency,    \* the clamped limit of workers (1..8)
    NoTools,        \* tasks whose catalog is empty after narrowing
    MaxFaults       \* bound: appends to the ledger that fail

ASSUME BatchAssumption ==
    /\ NumTasks \in Nat \ {0} /\ Concurrency \in Nat \ {0} /\ MaxFaults \in Nat
    /\ NoTools \subseteq 1..NumTasks

VARIABLES
    batch,      \* the call: "new", "mapping", "returned" or "rejected"
    cursor,     \* mapConcurrent's cursor: tasks taken
    launched,   \* workers of mapConcurrent that have made their first step
    worker,     \* the task a worker awaits, Ready or Stopped
    results,    \* mapConcurrent's array: the status of each task's result, or None
    job,        \* the ExecutionJob in the store
    ledger,     \* events of the job in brain.db: [child, status], oldest first
    starts,     \* history: how often each task was started
    ended,      \* history: the status each child ended with
    faults      \* appends that failed so far

vars == <<batch, cursor, launched, worker, results, job, ledger, starts, ended, faults>>

Tasks == 1..NumTasks
NumWorkers == IF Concurrency < NumTasks THEN Concurrency ELSE NumTasks
Workers == 1..NumWorkers
Ready == 0
Stopped == -1
None == "none"
Ends == {"completed", "failed", "needs-user"}
Statuses == {"created", "running", "child-running"} \cup Ends

Stages == {"created", "running", "child-running", "paused", "completed"}
Jobs == [status : Statuses, stage : Stages, children : [Tasks -> Statuses],
         askId : 0..NumTasks, progress : [Ends -> 0..NumTasks], completed : BOOLEAN]

Count(children, s) == Cardinality({t \in Tasks : children[t] = s})
Progress(children) == [s \in Ends |-> Count(children, s)]

NoJob == [status |-> "created", stage |-> "created", children |-> [t \in Tasks |-> "created"],
          askId |-> 0, progress |-> [s \in Ends |-> 0], completed |-> FALSE]

Init ==
    /\ batch = "new" /\ cursor = 0 /\ launched = 0
    /\ worker = [w \in Workers |-> Ready]
    /\ results = [t \in Tasks |-> None]
    /\ job = NoJob
    /\ ledger = <<>>
    /\ starts = [t \in Tasks |-> 0] /\ ended = [t \in Tasks |-> None]
    /\ faults = 0

\* emit: one event per child and kind, all with the status of the job.
Event(child, j) == [child |-> child, status |-> j.status]
Fault == faults < MaxFaults /\ faults' = faults + 1
-----------------------------------------------------------------------------
(* ExecutionJobStore. *)

WithRunning(j) == [j EXCEPT !.status = "running", !.stage = "running"]
WithChildRunning(j, t) ==
    [j EXCEPT !.children[t] = "running", !.stage = "child-running",
              !.status = "child-running"]
\* completeChild; a child that needs the user leaves its question in askId and pause.
WithChildDone(j, t, s) ==
    LET children == [j.children EXCEPT ![t] = s]
    IN  [j EXCEPT !.children = children, !.progress = Progress(children),
                  !.askId = IF s = "needs-user" THEN t ELSE @,
                  !.stage = IF s = "needs-user" THEN "paused" ELSE @,
                  !.status = IF s = "needs-user" THEN "needs-user" ELSE @]
\* Mutant: the status the job happens to have, unless a child failed.
StatusAsItStands(j) ==
    IF \E t \in Tasks : j.children[t] = "failed" THEN "failed"
    ELSE IF j.status = "needs-user" THEN "needs-user"
    ELSE "completed"

\* finish: what the children ended with decides, not the status of the moment.
FinalStatus(j) ==
    IF \E t \in Tasks : j.children[t] = "needs-user" THEN "needs-user"
    ELSE IF \E t \in Tasks : j.children[t] = "failed" THEN "failed"
    ELSE "completed"
Finished(j) ==
    LET status == FinalStatus(j)
    IN  [j EXCEPT !.status = status, !.progress = Progress(j.children), !.completed = TRUE,
                  !.stage = IF status = "needs-user" THEN "paused" ELSE "completed"]
-----------------------------------------------------------------------------
(* run and mapConcurrent. *)

\* create and markRunning; the append of either event may throw out of run.
Begin ==
    /\ batch = "new"
    /\ \/ /\ job' = WithRunning(job)
          /\ ledger' = <<Event(0, job), Event(0, job')>>
          /\ batch' = "mapping" /\ UNCHANGED faults
       \/ /\ Fault /\ batch' = "rejected"
          /\ \/ job' = job /\ ledger' = ledger
             \/ job' = WithRunning(job) /\ ledger' = <<Event(0, job)>>
    /\ UNCHANGED <<cursor, launched, worker, results, starts, ended>>

\* Promise.all: the first worker that throws rejects the call; the others go on.
Reject(w) ==
    /\ worker' = [worker EXCEPT ![w] = Stopped]
    /\ batch' = "rejected"

\* completeChild and its events - the completion, the tool executions (at most one is
\* told apart), the pause of a child that needs the user - on top of a job and its
\* ledger. An append that fails throws out of runChild, the store already changed.
Complete(w, t, s, from, log, tools) ==
    LET pause == IF s = "needs-user" THEN 1 ELSE 0 IN
    /\ job' = WithChildDone(from, t, s)
    /\ ended' = [ended EXCEPT ![t] = s]
    /\ \E n \in 1 + pause .. 1 + pause + tools :
          LET appended(k) == ledger' = log \o [i \in 1..k |-> Event(t, job')]
          IN  \/ /\ appended(n)
                 /\ worker' = [worker EXCEPT ![w] = Ready]
                 /\ results' = [results EXCEPT ![t] = s]
                 /\ UNCHANGED <<batch, faults>>
              \/ /\ Fault /\ Reject(w) /\ UNCHANGED results
                 /\ \E k \in 0..n - 1 : appended(k)

\* The workers are created in one go: the first step of each comes before anything
\* a child does.
MayStep(w) == w = launched + 1 \/ launched = NumWorkers
Launch(w) == launched' = IF w > launched THEN w ELSE launched
\* Mutants: a task past the end; a cursor that stays.
HasTaskOffByOne == cursor <= NumTasks
TakenStays == cursor
HasTask == cursor < NumTasks
Taken == cursor + 1

\* A worker takes the next task and starts the child; without tools the child asks
\* for the user at once.
StartChild(w) ==
    LET t == cursor + 1
        running == WithChildRunning(job, t)
        log == Append(ledger, Event(t, running))
    IN  /\ batch # "new" /\ worker[w] = Ready /\ MayStep(w) /\ HasTask
        /\ Launch(w)
        /\ cursor' = Taken
        /\ starts' = [starts EXCEPT ![t] = @ + 1]
        /\ \/ /\ t \in NoTools
              /\ Complete(w, t, "needs-user", running, log, 0)
           \/ /\ t \notin NoTools
              /\ job' = running /\ ledger' = log
              /\ worker' = [worker EXCEPT ![w] = t]
              /\ UNCHANGED <<batch, results, ended, faults>>

\* The store has the child as running, and the append of that fails.
StartFails(w) ==
    /\ batch # "new" /\ worker[w] = Ready /\ MayStep(w) /\ HasTask /\ Fault
    /\ Launch(w) /\ Reject(w)
    /\ cursor' = Taken
    /\ starts' = [starts EXCEPT ![cursor + 1] = @ + 1]
    /\ job' = WithChildRunning(job, cursor + 1)
    /\ UNCHANGED <<results, ledger, ended>>

\* A child's tool loop ends: its status goes to the store, the ledger, the results.
EndChild(w, s) ==
    /\ worker[w] \in Tasks /\ launched = NumWorkers
    /\ Complete(w, worker[w], s, job, ledger, 1)
    /\ UNCHANGED <<cursor, launched, starts>>

\* A child's model call, or the parse of its answer, throws out of runChild.
ChildThrows(w) ==
    /\ worker[w] \in Tasks /\ launched = NumWorkers
    /\ Reject(w)
    /\ UNCHANGED <<cursor, launched, results, job, ledger, starts, ended, faults>>

\* A worker that finds no task left returns.
Leave(w) ==
    /\ batch # "new" /\ worker[w] = Ready /\ MayStep(w) /\ ~HasTask
    /\ Launch(w)
    /\ worker' = [worker EXCEPT ![w] = Stopped]
    /\ UNCHANGED <<batch, cursor, results, job, ledger, starts, ended, faults>>

\* Mutant: a paused job is waited for.
FinishUnlessPaused ==
    /\ batch = "mapping" /\ \A w \in Workers : worker[w] = Stopped
    /\ job.stage # "paused"
    /\ job' = Finished(job)
    /\ ledger' = Append(ledger, Event(0, job')) /\ batch' = "returned" /\ UNCHANGED faults
    /\ UNCHANGED <<cursor, launched, worker, results, starts, ended>>

\* All workers have returned: the job is finished and the call returns.
Finish ==
    /\ batch = "mapping" /\ \A w \in Workers : worker[w] = Stopped
    /\ job' = Finished(job)
    /\ \/ ledger' = Append(ledger, Event(0, job')) /\ batch' = "returned" /\ UNCHANGED faults
       \/ Fault /\ batch' = "rejected" /\ UNCHANGED ledger
    /\ UNCHANGED <<cursor, launched, worker, results, starts, ended>>

\* What a worker does, and what its child does.
WorkerStep(w) == StartChild(w) \/ StartFails(w) \/ Leave(w)
ChildStep(w) == (\E s \in Ends : EndChild(w, s)) \/ ChildThrows(w)

Next ==
    \/ Begin
    \/ \E w \in Workers : WorkerStep(w) \/ ChildStep(w)
    \/ Finish

\* The runtime runs what is ready. Of the children nothing is assumed: a model call times
\* out, but a child whose tool call hangs never ends.
Spec == Init /\ [][Next]_vars
FairSpec == Spec /\ WF_vars(Begin) /\ WF_vars(Finish)
                 /\ \A w \in Workers : WF_vars(WorkerStep(w))
-----------------------------------------------------------------------------
(* executionJobSnapshot of the read model: the status of a child is that of the last
   event about it, after the children that job.created lists. Events are taken in
   the order of their appends; the reader sorts them by their millisecond, and those
   of the same one can come in any order. *)
ReportedChild(t) ==
    LET about == {i \in DOMAIN ledger : ledger[i].child = t}
    IN  IF about = {} THEN "created"
        ELSE ledger[CHOOSE i \in about : \A k \in about : k <= i].status
-----------------------------------------------------------------------------
\* Tasks that a worker awaits.
Running == {t \in Tasks : \E w \in Workers : worker[w] = t}

\* The state of the call, its workers, the job and the ledger is well formed.
TypeOK ==
    /\ batch \in {"new", "mapping", "returned", "rejected"}
    /\ cursor \in 0..NumTasks /\ launched \in 0..NumWorkers
    /\ worker \in [Workers -> Tasks \cup {Ready, Stopped}]
    /\ results \in [Tasks -> Ends \cup {None}] /\ ended \in [Tasks -> Ends \cup {None}]
    /\ job \in Jobs
    /\ ledger \in Seq([child : 0..NumTasks, status : Statuses])
    /\ starts \in [Tasks -> Nat] /\ faults \in 0..MaxFaults

\* The workers share a cursor: no task is started twice, whatever ends first, and a
\* call that returns has run every task and holds the result of each in its place.
EachTaskOnce ==
    /\ \A t \in Tasks : starts[t] <= 1
    /\ batch = "returned" => \A t \in Tasks : starts[t] = 1 /\ results[t] = ended[t]

\* What a returned call tells the parent loop and what the job says agree, although
\* every starting child overwrites the job's status: the job needs the user exactly
\* when a child does, the question it points to is a child's that asked, and its
\* progress accounts for every child.
OutcomeAgrees ==
    batch = "returned" =>
        /\ job.status = "needs-user" <=> \E t \in Tasks : results[t] = "needs-user"
        /\ job.status = "completed" <=> \A t \in Tasks : results[t] = "completed"
        /\ job.status = "needs-user" => job.askId \in Tasks /\ results[job.askId] = "needs-user"
        /\ \A s \in Ends : job.progress[s] = Cardinality({t \in Tasks : results[t] = s})

\* A finished job never changes again: no child that outlives its call can write to
\* a job that was closed.
FinishedIsFinal == [][job.completed => job' = job]_vars

\* Nothing but a child holds the call up, whichever children fail and whatever the ledger
\* does: in the end the call has returned or thrown, or it has a child that does not end. And
\* a child that does not end holds up no other task: one is left over only when every worker
\* has such a child or has thrown (mapConcurrent).
OnlyChildrenHold ==
    /\ <>[](batch \in {"returned", "rejected"} \/ Running # {})
    /\ <>[](cursor = NumTasks \/ \A w \in Workers : worker[w] # Ready)

\* docs/crystal.reflection.md: the "pause, completion or failure" of a durable job
\* writes the child status into the ledger: once the call has returned, the read
\* model shows every child with the status it ended with.
ChildStatusIsReported ==
    batch = "returned" => \A t \in Tasks : ReportedChild(t) = ended[t]

=============================================================================
