---------------------------- MODULE ToolRuntime ----------------------------
(* One run of ExecutiveToolRuntime (src/executive/tool.runtime.ts): the model
   proposes tool calls, the loop guard (loop.guard.ts) and the budget decide which
   of them may run, the scheduler hands them to the adapter in batches, and the
   loop goes on, answers, or pauses with a question to the user.

   A call is a tool together with its input, the key of the guard's maps. *)
EXTENDS Integers, Sequences, FiniteSets, Sublists

CONSTANTS
    Calls,          \* the calls a model may propose
    Known,          \* those whose tool is in the catalog of this turn
    ToolOf,         \* the tool a call names
    ReadOnly, ConcurrencySafe, Exclusive, BatchUnit,    \* descriptor flags
    TurnBudget,     \* modelToolTurnBudget
    OperationBudget, RiskQuota,                         \* of the budget
    MaxCalls, MaxRepeatedCalls, MaxFailedRepeats, MaxUnknownRepeats, \* of the guard
    MaxStep         \* bound: calls in one answer of the model

ASSUME CallsAssumption ==
    /\ IsFiniteSet(Calls) /\ Known \subseteq Calls
    /\ ReadOnly \cup ConcurrencySafe \cup Exclusive \cup BatchUnit \subseteq Known
ASSUME LimitsAssumption ==
    /\ TurnBudget \in Nat \ {0}
    /\ {OperationBudget, RiskQuota, MaxCalls, MaxRepeatedCalls, MaxFailedRepeats,
        MaxUnknownRepeats, MaxStep} \subseteq Nat

VARIABLES
    phase,      \* "generate", "execute" or "done"
    outcome,    \* how the run ended: "reply", "ask", "error"; "none" while it runs
    turn,       \* answers of the model consumed
    guard,      \* ExecutiveLoopGuard: totalCalls, counts of calls, counts of failures
    used,       \* ExecutiveToolBudgetState: operations and high-risk operations
    step,       \* the step being run: calls blocked, planned, to run, in flight, done
    executions, \* allExecutions: how many results of each kind each call has
    events,     \* the results handed to onExecution, counted in the same way
    asked       \* history: how often each call was proposed

loop == <<phase, outcome, turn, guard, used, step, executions, events, asked>>

Kinds == {"ok", "failed", "guard", "budget", "result"}
Tools == {ToolOf[c] : c \in Calls}
GuardKey(c) == IF c \in Known THEN c ELSE ToolOf[c]
GuardKeys == {GuardKey(c) : c \in Calls}
Tally == [Calls \X Kinds -> Nat]

\* A catalog call that is not read only or is exclusive draws on the risk quota.
HighRisk(c) == c \in Known /\ (c \notin ReadOnly \/ c \in Exclusive)
Batchable(c) == c \in (ReadOnly \cap ConcurrencySafe) \ Exclusive

\* A tally with the calls of s added under a kind.
Plus(t, s, kind) ==
    [k \in DOMAIN t |-> t[k] + IF k[2] = kind THEN Occurrences(s, k[1]) ELSE 0]
\* A tally with a sequence of executions <<call, ok>> added.
PlusExecutions(t, x) ==
    [k \in DOMAIN t |-> t[k] + CASE k[2] = "ok" -> Occurrences(x, <<k[1], TRUE>>)
                                 [] k[2] = "failed" -> Occurrences(x, <<k[1], FALSE>>)
                                 [] OTHER -> 0]

Idle == [guarded |-> <<>>, budgeted |-> <<>>, plan |-> <<>>, todo |-> <<>>,
         running |-> <<>>, executed |-> <<>>]

LoopInit ==
    /\ phase = "generate" /\ outcome = "none" /\ turn = 0
    /\ guard = [total |-> 0, seen |-> [k \in GuardKeys |-> 0], failed |-> [c \in Calls |-> 0]]
    /\ used = [operations |-> 0, risk |-> 0]
    /\ step = Idle
    /\ executions = [k \in Calls \X Kinds |-> 0]
    /\ events = executions
    /\ asked = [c \in Calls |-> 0]

EndRun(how) == phase' = "done" /\ outcome' = how
-----------------------------------------------------------------------------
(* The loop guard and the budget, call by call. *)

\* inspect: the calls of an answer past the total limit; the others are counted
\* under their key.
PastTotal(p, i) == guard.total + i > MaxCalls
Counted(p, i, key) ==
    guard.seen[key] + Cardinality({j \in 1..i : ~PastTotal(p, j) /\ GuardKey(p[j]) = key})
Limit(c) == IF c \in Known THEN MaxRepeatedCalls ELSE MaxUnknownRepeats
Blocks(p, i) == PastTotal(p, i) \/ Counted(p, i, GuardKey(p[i])) > Limit(p[i])
GuardAfter(p) ==
    [guard EXCEPT !.total = @ + Len(p),
                  !.seen = [key \in GuardKeys |-> Counted(p, Len(p), key)]]

\* Mutant: a batch group is not closed by the next call.
StartsGroupUnflushed(a, i) == i = 1 \/ (a[i] \notin BatchUnit /\ a[i - 1] \notin BatchUnit)

\* groupBudgetUnits: adjacent batch-unit calls form one group, charged once.
StartsGroup(a, i) == i = 1 \/ a[i] \notin BatchUnit \/ a[i - 1] \notin BatchUnit
GroupFrom(a, i) ==
    {j \in i..Len(a) : j = i \/ \A k \in i..j : a[k] \in BatchUnit}
\* inspectExecution, group by group: what is used after the i-th call and whether
\* its group was allowed.
Ledger(a) ==
    LET ledger[i \in 0..Len(a)] ==
            IF i = 0 THEN [operations |-> used.operations, risk |-> used.risk,
                           allow |-> TRUE]
            ELSE LET before == ledger[i - 1]
                     high == \E j \in GroupFrom(a, i) : HighRisk(a[j])
                 IN  IF ~StartsGroup(a, i) THEN before
                     ELSE IF \/ before.operations >= OperationBudget
                             \/ high /\ before.risk >= RiskQuota
                          THEN [before EXCEPT !.allow = FALSE]
                          ELSE [operations |-> before.operations + 1,
                                risk |-> before.risk + IF high THEN 1 ELSE 0,
                                allow |-> TRUE]
    IN  ledger

\* Mutant: safe reads are collected across the other calls.
BatchesAcross(todo) ==
    LET safe == {i \in DOMAIN todo : Batchable(todo[i])}
    IN  IF safe = {} THEN {1} ELSE safe

\* The calls handed to the adapter next: the longest run of batchable calls, or one
\* call alone.
NextBatch(todo) ==
    LET safe == {i \in DOMAIN todo : \A j \in 1..i : Batchable(todo[j])}
    IN  IF safe = {} THEN {1} ELSE safe
-----------------------------------------------------------------------------
(* The loop. *)

\* The model answers without a call.
ModelReplies ==
    /\ phase = "generate"
    /\ EndRun("reply")
    /\ UNCHANGED <<turn, guard, used, step, executions, events, asked>>

\* The model call fails, or the answer does not parse: the caller's onParseFailure
\* makes a question of it, and without that callback the error leaves the loop.
GenerateFails ==
    /\ phase = "generate"
    /\ EndRun("error") \/ EndRun("ask")
    /\ UNCHANGED <<turn, guard, used, step, executions, events, asked>>

\* The model proposes the calls p; the guard and the budget sort them.
Propose(p) ==
    LET open == {i \in 1..Len(p) : ~Blocks(p, i)}
        allowed == Pick(p, open)
        guarded == Pick(p, (1..Len(p)) \ open)
        ledger == Ledger(allowed)
        charged == {i \in 1..Len(allowed) : ledger[i].allow}
        budgeted == Pick(allowed, (1..Len(allowed)) \ charged)
    IN  /\ phase = "generate"
        /\ turn' = turn + 1
        /\ asked' = [c \in Calls |-> asked[c] + Occurrences(p, c)]
        /\ guard' = GuardAfter(p)
        /\ events' = Plus(Plus(events, guarded, "guard"), budgeted, "budget")
        /\ IF open = {}
           THEN /\ EndRun("ask")
                /\ executions' = Plus(executions, guarded, "guard")
                /\ UNCHANGED <<used, step>>
           ELSE /\ phase' = "execute"
                /\ used' = [operations |-> ledger[Len(allowed)].operations,
                            risk |-> ledger[Len(allowed)].risk]
                /\ step' = [guarded |-> guarded, budgeted |-> budgeted,
                            plan |-> Pick(allowed, charged),
                            todo |-> Pick(allowed, charged), running |-> <<>>,
                            executed |-> <<>>]
                /\ UNCHANGED <<outcome, executions>>

\* executeScheduled hands the next batch to the adapter.
StartBatch ==
    LET taken == NextBatch(step.todo)
    IN  /\ phase = "execute" /\ step.running = <<>> /\ step.todo # <<>>
        /\ step' = [step EXCEPT !.running = Pick(step.todo, taken),
                                !.todo = Pick(step.todo, (1..Len(step.todo)) \ taken)]
        /\ UNCHANGED <<phase, outcome, turn, guard, used, executions, events, asked>>

\* The adapter returns a result for every call, in order; when it throws, every
\* call of the batch gets a failure.
EndBatch(ok) ==
    LET done == [n \in 1..Len(step.running) |-> <<step.running[n], ok[n]>>]
    IN  /\ phase = "execute" /\ step.running # <<>>
        /\ step' = [step EXCEPT !.running = <<>>, !.executed = @ \o done]
        /\ events' = PlusExecutions(events, done)
        /\ UNCHANGED <<phase, outcome, turn, guard, used, executions, asked>>

\* assertExecutionCoverage: missing, extra or reordered results end the run.
BatchMismatched ==
    /\ phase = "execute" /\ step.running # <<>>
    /\ EndRun("error")
    /\ UNCHANGED <<turn, guard, used, step, executions, events, asked>>

\* Mutant: failures are counted afresh in every step.
FailuresInStep(x, i, c) == Occurrences(SubSeq(x, 1, i), <<c, FALSE>>)

\* recordResult on every execution of the step, in order: the positions of the
\* failures past the limit.
FailuresBy(x, i, c) ==
    guard.failed[c] + Occurrences(SubSeq(x, 1, i), <<c, FALSE>>)
PastFailures(x) ==
    {i \in DOMAIN x : ~x[i][2] /\ FailuresBy(x, i, x[i][1]) > MaxFailedRepeats}

\* Mutants: the calls the budget blocked are not recorded; one turn too many.
GatheredWithoutBudget ==
    Plus(PlusExecutions(executions, step.executed), step.guarded, "guard")
TurnsOffByOne == turn > TurnBudget

\* What the step adds to allExecutions.
Gathered ==
    Plus(Plus(PlusExecutions(executions, step.executed), step.guarded, "guard"),
         step.budgeted, "budget")
OutOfTurns == turn >= TurnBudget

\* The step is over: its results are recorded, and the run pauses when an execution
\* asks for it (onExecutionAskRequired), when the budget or the result guard
\* blocked a call, or when the turns are used up.
EndStep ==
    LET x == step.executed
        repeated == Pick([i \in DOMAIN x |-> x[i][1]], PastFailures(x))
    IN  /\ phase = "execute" /\ step.running = <<>> /\ step.todo = <<>>
        /\ guard' = [guard EXCEPT !.failed = [c \in Calls |-> FailuresBy(x, Len(x), c)]]
        /\ executions' = Plus(Gathered, repeated, "result")
        /\ events' = Plus(events, repeated, "result")
        /\ step' = Idle
        /\ \/ /\ (\E i \in DOMAIN x : ~x[i][2]) \/ step.budgeted # <<>>
                 \/ repeated # <<>> \/ OutOfTurns
              /\ EndRun("ask")
           \/ /\ step.budgeted = <<>> /\ repeated = <<>> /\ ~OutOfTurns
              /\ phase' = "generate"
              /\ UNCHANGED outcome
        /\ UNCHANGED <<turn, used, asked>>

Proposals == UNION {[1..n -> Calls] : n \in 1..MaxStep}

LoopNext ==
    \/ ModelReplies
    \/ GenerateFails
    \/ \E p \in Proposals : Propose(p)
    \/ StartBatch
    \/ \E ok \in [1..Len(step.running) -> BOOLEAN] : EndBatch(ok)
    \/ BatchMismatched
    \/ EndStep
    \/ phase = "done" /\ UNCHANGED loop

LoopSpec == LoopInit /\ [][LoopNext]_loop
-----------------------------------------------------------------------------
\* How often a call ran or was blocked, by the recorded results, and how often it was
\* handed to the adapter so far.
RunsRecorded(c) == executions[<<c, "ok">>] + executions[<<c, "failed">>]
Answered(c) == RunsRecorded(c) + executions[<<c, "guard">>] + executions[<<c, "budget">>]
Ran(c) == RunsRecorded(c) + Occurrences(step.executed, <<c, TRUE>>)
          + Occurrences(step.executed, <<c, FALSE>>) + Occurrences(step.running, c)
\* What was handed to the adapter of the calls in C: the n-th run of each.
RunsOf(C) == UNION {{c} \X (1..Ran(c)) : c \in C}

\* The run's state is well formed: phases and outcomes go together and the counters
\* stay within the budget's and the run's limits.
LoopTypeOK ==
    /\ phase \in {"generate", "execute", "done"}
    /\ outcome \in {"none", "reply", "ask", "error"} /\ (outcome = "none" <=> phase # "done")
    /\ turn \in 0..TurnBudget
    /\ guard.total \in 0..TurnBudget * MaxStep
    /\ guard.seen \in [GuardKeys -> 0..TurnBudget * MaxStep]
    /\ guard.failed \in [Calls -> 0..TurnBudget * MaxStep]
    /\ used \in [operations : 0..OperationBudget, risk : 0..RiskQuota]
    /\ {step.guarded, step.budgeted, step.plan, step.todo, step.running} \subseteq Seq(Calls)
    /\ step.executed \in Seq(Calls \X BOOLEAN)
    /\ executions \in Tally /\ events \in Tally /\ asked \in [Calls -> Nat]

\* No call disappears and none is answered twice: between steps, and in a finished
\* run that did not throw, every proposed call has exactly one result that says it
\* ran or was blocked, and the published events are the recorded results
\* (assertExecutionCoverage: "a tool call cannot disappear from the event/result
\* stream").
EveryCallIsAnswered ==
    outcome # "error" /\ phase \in {"generate", "done"} =>
        /\ \A c \in Calls : Answered(c) = asked[c]
        /\ events = executions

\* What was handed to the adapter stays within the budget, counted on the calls
\* themselves: calls outside batch units one by one, and high-risk calls among them
\* against the quota, over all steps of the run.
SpendingIsBounded ==
    /\ Cardinality(RunsOf(Calls \ BatchUnit)) <= OperationBudget
    /\ Cardinality(RunsOf({c \in Calls \ BatchUnit : HighRisk(c)})) <= RiskQuota

\* The model is not asked again about a call that already failed too often, and no
\* catalog call runs more often than the guard permits, whatever the steps it was
\* spread over and the calls around it.
NoHopelessRetry ==
    \A c \in Calls :
        /\ c \in Known => Ran(c) <= MaxRepeatedCalls
        /\ phase = "generate" => executions[<<c, "failed">>] <= MaxFailedRepeats

\* A call that is not a safe read is a barrier: it runs alone, every call proposed
\* before it in its step has finished, and none proposed after it has started; the
\* results come in the order of the calls.
WritesAreBarriers ==
    phase = "execute" =>
        /\ [i \in DOMAIN step.executed |-> step.executed[i][1]] \o step.running \o step.todo
           = step.plan
        /\ Len(step.running) > 1 => \A i \in DOMAIN step.running : Batchable(step.running[i])

=============================================================================
