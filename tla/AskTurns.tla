-------------------------------- MODULE AskTurns --------------------------------
(* The life of a turn (RuntimeModule.handleMessage) with what it leaves behind for the next
   ones: the sentinel file by which a restart finds interrupted turns (InFlightTracker), the
   questions and answers of the ledger (MemoryModule.rememberTurn), and the ghost file by
   which an answer finds its question's context (ContinuationGhostStore). Turns of one scope
   run side by side; nothing serializes them.

   A turn is numbered in the order its context is made, which dates its question, and a
   question has the number of the turn that raised it. The model is external: it asks or
   not, or the tool loop, the blackboard or the scope recall does. *)
EXTENDS Integers, FiniteSets, FiniteSetsExt

CONSTANTS
    NumTurns,      \* bound: how many messages arrive
    MaxChainDepth, \* memory.tuning.continuation.maxChainDepth
    Scopes,        \* where owner keys come from, see below
    Reuse,         \* whether clients use a request id twice
    MaxCrashes,    \* bound: deaths of the process
    MaxFaults,     \* bound: reads and writes that fail
    MaxUndos       \* bound: messages taken back

ASSUME TurnsAssumption ==
    /\ NumTurns \in Nat /\ MaxChainDepth \in Nat \ {0}
    /\ MaxCrashes \in Nat /\ MaxFaults \in Nat /\ MaxUndos \in Nat
    /\ Scopes \subseteq {"explicit", "recalled", "own"} /\ Reuse \in BOOLEAN

Turns == 1..NumTurns
None == 0
Absent == 0         \* a file that is not there
Torn == -1          \* a file that is created and not filled

VARIABLES
    up,         \* "warming", "ready" or "broken" (a warm-up that rejected)
    recovered,  \* turns whose sentinel the warm-up has read and unlinked
    reported,   \* turns with a process-restart continuation
    pc, turn,   \* where each turn is, and what it knows
    sentinel,   \* the sentinel file of each request: Absent, Torn, or the turn that filled it
    ghost,      \* the ghost file of each request: likewise
    asks,       \* the ledger's questions: their depth in their chain, 0 when there is none
    answers,    \* the ledger's ask-answer pairs: the turns that answered a question
    abandoned,  \* questions whose state is abandoned
    interrupted, \* history: turns that a crash cut off
    orphaned,    \* history: turns whose sentinel was unlinked before a warm-up failed
    kept,        \* history: turns that ended and could not write or unlink their sentinel
    crashes, faults, undos

process == <<up, recovered, reported>>
ledger == <<asks, answers, abandoned>>
history == <<interrupted, orphaned, kept>>
counters == <<crashes, faults, undos>>
vars == <<process, pc, turn, sentinel, ghost, ledger, history, counters>>

(* The owner key of a turn: the request names a scope ("explicit"), a scope is recalled in
   prepareTurn ("recalled"), or there is none and the key is the message's own ("own"). One
   scope is modelled. A request id, which the clients choose, is named after the first turn
   that used it. *)
Kinds == {"no", "model", "runtime"}   \* whose question, if any, the reply is
Places == {"new", "looking up", "marking", "thinking", "remembering", "recording",
           "ghost", "writing ghost", "ending", "done", "lost"}
Running == {"thinking", "remembering", "recording", "ghost", "writing ghost", "ending"}

Blank == [scope |-> "none", request |-> None, resumes |-> None,
          checked |-> None, asks |-> "no", answered |-> None, unsaved |-> FALSE]

Init ==
    /\ up = "warming" /\ recovered = {} /\ reported = {}
    /\ pc = [t \in Turns |-> "new"] /\ turn = [t \in Turns |-> Blank]
    /\ sentinel = [r \in Turns |-> Absent] /\ ghost = [r \in Turns |-> Absent]
    /\ asks = [t \in Turns |-> 0] /\ answers = [t \in Turns |-> {}] /\ abandoned = {}
    /\ interrupted = {} /\ orphaned = {} /\ kept = {}
    /\ crashes = 0 /\ faults = 0 /\ undos = 0
-----------------------------------------------------------------------------
\* getLatestPendingAsk: the latest question of the scope that has no answer.
Pending == {a \in Turns : asks[a] > 0 /\ turn[a].scope # "own" /\ answers[a] = {}
                          /\ a \notin abandoned}
Latest == IF Pending = {} THEN None ELSE Max(Pending)

\* Only the explicit scope is in the context of handleMessage and of generateTurnReply; the
\* recalled one is in the enriched context that rememberTurn gets.
PendingByContext(t) == IF turn[t].scope = "explicit" THEN Latest ELSE None
PendingEnriched(t) == IF turn[t].scope # "own" THEN Latest ELSE None

\* A question is one deeper than the one it follows.
DepthAfter(a) == IF a = None THEN 1 ELSE asks[a] + 1

\* The ghost a message resumes, if it does, is there to be read.
GhostFound(t) == turn[t].resumes # None => ghost[turn[turn[t].resumes].request] \in Turns

Goes(t, place) == pc' = [pc EXCEPT ![t] = place]
-----------------------------------------------------------------------------
\* The message arrives and the warm-up it awaits is over. It may resume a question that was
\* shown, which brings its scope along.
Receive(t) ==
    /\ pc[t] = "new" /\ \A u \in 1..(t - 1) : pc[u] # "new"
    /\ up = "ready"
    /\ \E scope \in Scopes, r \in {t} \cup {turn[u].request : u \in {v \in 1..(t - 1) : Reuse}},
          a \in {None} \cup {u \in 1..(t - 1) : turn[u].asks # "no" /\ pc[u] \in {"done", "lost"}} :
         /\ a # None /\ scope # "explicit" => turn[a].scope = "own"
         /\ turn' = [turn EXCEPT ![t].scope = scope, ![t].request = r, ![t].resumes = a]
    /\ Goes(t, "looking up")
    /\ UNCHANGED <<process, sentinel, ghost, ledger, history, counters>>

\* A turn that ends before it starts: the ghost to resume is not there, or the pending
\* question wants a structured answer and the message has none. The reply is a question that
\* leaves no trace.
Refuse(t) ==
    /\ pc[t] = "looking up"
    /\ ~GhostFound(t) \/ PendingByContext(t) # None
    /\ Goes(t, "done")
    /\ UNCHANGED <<process, turn, sentinel, ghost, ledger, history, counters>>

\* markStart creates the file of the request, whoever else has it, and fills it.
MarkStart(t) ==
    /\ pc[t] = "looking up" /\ GhostFound(t)
    /\ sentinel' = [sentinel EXCEPT ![turn[t].request] = Torn]
    /\ Goes(t, "marking")
    /\ UNCHANGED <<process, turn, ghost, ledger, history, counters>>

Marked(t) ==
    /\ pc[t] = "marking"
    /\ sentinel' = [sentinel EXCEPT ![turn[t].request] = t]
    /\ Goes(t, "thinking")
    /\ UNCHANGED <<process, turn, ghost, ledger, history, counters>>

\* A write that fails, midway or after its last byte, rejects the turn before its try block:
\* the file stays.
MarkFails(t) ==
    /\ pc[t] = "marking" /\ faults < MaxFaults
    /\ faults' = faults + 1
    /\ sentinel' \in {sentinel, [sentinel EXCEPT ![turn[t].request] = t]}
    /\ kept' = kept \cup {t}
    /\ Goes(t, "done")
    /\ UNCHANGED <<process, turn, ghost, ledger, interrupted, orphaned, crashes, undos>>

\* Mutant: no finally block, the sentinel of a turn that fails stays.
StopsUnmarked(t) ==
    /\ pc[t] = "thinking"
    /\ Goes(t, "done")
    /\ UNCHANGED <<process, turn, sentinel, ghost, ledger, history, counters>>

\* The client's interrupt, or a call that fails, before there is a reply.
Stopped(t) ==
    /\ pc[t] = "thinking"
    /\ Goes(t, "ending")
    /\ UNCHANGED <<process, turn, sentinel, ghost, ledger, history, counters>>

\* Mutant: the cap is compared with the depth before the question.
GenerateBeyondCap(t) ==
    LET pending == PendingByContext(t)
    IN  /\ pc[t] = "thinking"
        /\ \E kind \in Kinds :
             turn' = [turn EXCEPT ![t].checked = pending, ![t].asks =
                        IF kind = "model" /\ DepthAfter(pending) > MaxChainDepth + 1
                        THEN "no" ELSE kind]
        /\ Goes(t, "remembering")
        /\ UNCHANGED <<process, sentinel, ghost, ledger, history, counters>>

\* prepareTurn, assembleTurnContext, the model's answer and generateTurnReply: a question
\* of the model is dropped when the chain is at its cap; one of the runtime (replyFromAsk)
\* is not subject to the cap.
Generate(t) ==
    LET pending == PendingByContext(t)
    IN  /\ pc[t] = "thinking"
        /\ \E kind \in Kinds :
             turn' = [turn EXCEPT ![t].checked = pending, ![t].asks =
                        IF kind = "model" /\ DepthAfter(pending) > MaxChainDepth
                        THEN "no" ELSE kind]
        /\ Goes(t, "remembering")
        /\ UNCHANGED <<process, sentinel, ghost, ledger, history, counters>>

\* Mutant: the answer goes to the question that was pending when the model was asked.
RememberSeen(t) ==
    LET a == turn[t].checked
    IN  /\ pc[t] = "remembering"
        /\ turn' = [turn EXCEPT ![t].answered = a]
        /\ answers' = IF a = None THEN answers ELSE [answers EXCEPT ![a] = @ \cup {t}]
        /\ Goes(t, "recording")
        /\ UNCHANGED <<process, sentinel, ghost, asks, abandoned, history, counters>>

\* rememberTurn up to its first await: the message is the answer to the question that is
\* pending by now.
Remember(t) ==
    LET a == PendingEnriched(t)
    IN  /\ pc[t] = "remembering"
        /\ turn' = [turn EXCEPT ![t].answered = a]
        /\ answers' = IF a = None THEN answers ELSE [answers EXCEPT ![a] = @ \cup {t}]
        /\ Goes(t, "recording")
        /\ UNCHANGED <<process, sentinel, ghost, asks, abandoned, history, counters>>

\* The rest of rememberTurn: the turn's own question follows the one it answered.
RecordAsk(t) ==
    /\ pc[t] = "recording"
    /\ asks' = IF turn[t].asks = "no" THEN asks
               ELSE [asks EXCEPT ![t] = DepthAfter(turn[t].answered)]
    /\ Goes(t, "ghost")
    /\ UNCHANGED <<process, turn, sentinel, ghost, answers, abandoned, history, counters>>

\* persistTurnWithoutFailingReply: a write that throws is published, the reply stays.
StoreFails(t) ==
    /\ pc[t] \in {"remembering", "recording", "ghost", "writing ghost"} /\ faults < MaxFaults
    /\ faults' = faults + 1
    /\ turn' = [turn EXCEPT ![t].unsaved = TRUE]
    /\ Goes(t, "ending")
    /\ UNCHANGED <<process, sentinel, ghost, ledger, history, crashes, undos>>

\* Mutant: the write of the ghost is not awaited, nor is it ever finished.
RecordGhostUnawaited(t) ==
    /\ pc[t] = "ghost" /\ turn[t].asks # "no"
    /\ ghost' = [ghost EXCEPT ![turn[t].request] = Torn]
    /\ Goes(t, "ending")
    /\ UNCHANGED <<process, turn, sentinel, ledger, history, counters>>

\* persistTurn: the turn's question leaves a ghost under the turn's request ...
RecordGhost(t) ==
    /\ pc[t] = "ghost" /\ turn[t].asks # "no"
    /\ ghost' = [ghost EXCEPT ![turn[t].request] = Torn]
    /\ Goes(t, "writing ghost")
    /\ UNCHANGED <<process, turn, sentinel, ledger, history, counters>>

GhostRecorded(t) ==
    /\ pc[t] = "writing ghost"
    /\ ghost' = [ghost EXCEPT ![turn[t].request] = t]
    /\ Goes(t, "ending")
    /\ UNCHANGED <<process, turn, sentinel, ledger, history, counters>>

\* ... or, without one, completeAnsweredAskGhost removes that of the question it answered,
\* else the one its message resumed.
Completed(t) == IF turn[t].answered # None THEN turn[t].answered ELSE turn[t].resumes

CompleteGhost(t) ==
    /\ pc[t] = "ghost" /\ turn[t].asks = "no"
    /\ ghost' = IF Completed(t) = None THEN ghost
                ELSE [ghost EXCEPT ![turn[Completed(t)].request] = Absent]
    /\ Goes(t, "ending")
    /\ UNCHANGED <<process, turn, sentinel, ledger, history, counters>>

\* markEnd in the finally block: the file of the request goes, whichever turn has written it.
MarkEnd(t) ==
    /\ pc[t] = "ending"
    /\ sentinel' = [sentinel EXCEPT ![turn[t].request] = Absent]
    /\ Goes(t, "done")
    /\ UNCHANGED <<process, turn, ghost, ledger, history, counters>>

\* An unlink that fails for another reason than a missing file: the turn rejects, whatever its
\* reply, and the file stays.
MarkEndFails(t) ==
    /\ pc[t] = "ending" /\ faults < MaxFaults
    /\ faults' = faults + 1
    /\ kept' = kept \cup {t}
    /\ Goes(t, "done")
    /\ UNCHANGED <<process, turn, sentinel, ghost, ledger, interrupted, orphaned, crashes, undos>>

\* recordUndo: the questions from the anchor on are abandoned, answered or not; their ghosts
\* stay.
RecordUndo ==
    /\ undos < MaxUndos /\ undos' = undos + 1
    /\ \E anchor \in Turns :
         /\ pc[anchor] \notin {"new", "lost"} /\ turn[anchor].scope # "own"
         /\ abandoned' = abandoned \cup {a \in anchor..NumTurns :
                                            asks[a] > 0 /\ turn[a].scope # "own"}
    /\ abandoned' # abandoned
    /\ UNCHANGED <<process, pc, turn, sentinel, ghost, asks, answers, history, crashes, faults>>
-----------------------------------------------------------------------------
\* The process dies; a message that is not yet handled is sent again.
Crash ==
    /\ crashes < MaxCrashes
    /\ crashes' = crashes + 1
    /\ interrupted' = interrupted \cup {t \in Turns : pc[t] \in Running}
    /\ orphaned' = orphaned \cup recovered
    /\ pc' = [t \in Turns |-> IF pc[t] \in {"new", "done"} THEN pc[t] ELSE "lost"]
    /\ up' = "warming" /\ recovered' = {}
    /\ UNCHANGED <<reported, turn, sentinel, ghost, ledger, kept, faults, undos>>

\* recoverOrphans: file by file, read, parsed and unlinked.
RecoverOrphan ==
    /\ up = "warming"
    /\ \E r \in Turns :
         /\ sentinel[r] \in Turns
         /\ recovered' = recovered \cup {sentinel[r]}
         /\ sentinel' = [sentinel EXCEPT ![r] = Absent]
    /\ UNCHANGED <<up, reported, pc, turn, ghost, ledger, history, counters>>

\* A file that does not parse, or cannot be read, rejects the warm-up; what it had collected
\* is gone.
RecoveryFails ==
    /\ up = "warming"
    /\ \/ \E r \in Turns : sentinel[r] = Torn
          /\ UNCHANGED faults
       \/ faults < MaxFaults /\ faults' = faults + 1
    /\ up' = "broken" /\ recovered' = {}
    /\ orphaned' = orphaned \cup recovered
    /\ UNCHANGED <<reported, pc, turn, sentinel, ghost, ledger, interrupted, kept, crashes,
                   undos>>

\* Mutant: the promise that rejected is kept.
KeepsRejected ==
    /\ up = "broken" /\ up' = "broken"
    /\ UNCHANGED <<recovered, reported, pc, turn, sentinel, ghost, ledger, history, counters>>

\* warmup forgets a promise that rejected: the next message tries again.
RetryWarmup ==
    /\ up = "broken" /\ up' = "warming"
    /\ UNCHANGED <<recovered, reported, pc, turn, sentinel, ghost, ledger, history, counters>>

\* Every file is read: the continuations are written, one after the other without an await.
Recovered ==
    /\ up = "warming" /\ \A r \in Turns : sentinel[r] = Absent
    /\ reported' = reported \cup recovered
    /\ up' = "ready" /\ recovered' = {}
    /\ UNCHANGED <<pc, turn, sentinel, ghost, ledger, history, counters>>

Advance(t) ==
    \/ Refuse(t) \/ MarkStart(t) \/ Marked(t)
    \/ Generate(t) \/ Remember(t) \/ RecordAsk(t) \/ RecordGhost(t) \/ GhostRecorded(t)
    \/ CompleteGhost(t) \/ MarkEnd(t)

Warmup == RecoverOrphan \/ RetryWarmup \/ Recovered

Next ==
    \/ \E t \in Turns : Receive(t) \/ Advance(t) \/ Stopped(t) \/ MarkFails(t) \/ StoreFails(t)
                       \/ MarkEndFails(t)
    \/ Warmup \/ RecoveryFails \/ RecordUndo \/ Crash

Spec == Init /\ [][Next]_vars

\* The event loop resumes every pending await, the model answers, a start-up recovers and
\* clients go on sending messages.
FairSpec == Spec /\ WF_vars(Warmup) /\ \A t \in Turns : WF_vars(Advance(t))
-----------------------------------------------------------------------------
\* What a turn knows of itself.
Knowledge == [scope : Scopes \cup {"none"}, request : Turns \cup {None},
              resumes : Turns \cup {None}, checked : Turns \cup {None}, asks : Kinds,
              answered : Turns \cup {None}, unsaved : BOOLEAN]

\* The type invariant.
TypeOK ==
    /\ up \in {"warming", "ready", "broken"}
    /\ recovered \subseteq Turns /\ reported \subseteq Turns
    /\ pc \in [Turns -> Places]
    /\ turn \in [Turns -> Knowledge]
    /\ sentinel \in [Turns -> Turns \cup {Absent, Torn}]
    /\ ghost \in [Turns -> Turns \cup {Absent, Torn}]
    /\ asks \in [Turns -> Nat] /\ answers \in [Turns -> SUBSET Turns]
    /\ abandoned \subseteq Turns
    /\ interrupted \subseteq Turns /\ orphaned \subseteq Turns /\ kept \subseteq Turns
    /\ crashes \in Nat /\ faults \in Nat /\ undos \in Nat

\* No other turn has used this turn's request id.
Alone(t) == \A u \in Turns \ {t} : pc[u] # "new" => turn[u].request # turn[t].request

\* However turns and undos interleave, an answer joins a question that is on record, has no
\* answer and is not taken back at that moment: the search for the pending question and the
\* append are one step, whatever was pending when the model was asked (rememberTurn).
AnswersArePending ==
    [][\A a \in Turns : answers'[a] # answers[a] =>
          asks[a] > 0 /\ answers[a] = {} /\ a \notin abandoned]_vars

\* So no question has two answers.
AnsweredOnce == \A a \in Turns : Cardinality(answers[a]) <= 1

\* After a warm-up, exactly the turns a crash cut off have a process-restart continuation
\* (recoverProcessRestartContinuations). Not reported are turns that shared their request id
\* and turns whose sentinel an earlier warm-up unlinked before it failed; reported without a
\* crash are only turns that ended with a failing write or unlink of their sentinel.
InterruptedIsReported ==
    /\ reported \subseteq interrupted \cup kept
    /\ up = "ready" => \A t \in interrupted : Alone(t) => t \in reported \cup orphaned

\* A question beyond maxChainDepth is the runtime's own, or was checked against another
\* chain than the one it joined: its scope was recalled, or the pending question changed
\* while the model spoke (generateTurnReply).
CapIsEnforced ==
    \A a \in Turns : asks[a] > MaxChainDepth =>
        \/ turn[a].asks = "runtime" \/ turn[a].scope = "recalled"
        \/ turn[a].checked # turn[a].answered

\* The ghost of a question that is still pending is there from the end of its turn on, unless
\* a write failed or a request id was used twice (persistTurn, completeAnsweredAskGhost).
PendingHasItsGhost ==
    \A a \in Pending :
        pc[a] \in {"ending", "done"} /\ ~turn[a].unsaved /\ Alone(a)
            => ghost[turn[a].request] = a

\* A warm-up that failed is not held against later messages: the process becomes ready, but
\* for a sentinel that does not parse (warmup, recoverOrphans).
WarmupRecovers == up = "broken" ~> up = "ready" \/ \E r \in Turns : sentinel[r] = Torn
=============================================================================
