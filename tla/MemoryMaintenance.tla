------------------------- MODULE MemoryMaintenance -------------------------
(* The background maintenance of hot memory: BackgroundScheduler              *)
(* (memory/lifecycle/scheduler.ts) and the two workers that take episodes out *)
(* of the working-memory store, ConsolidationWorker (consolidation/worker.ts) *)
(* and HotMemoryCompressionWorker (hot/compression.worker.ts).                *)
(*                                                                            *)
(* Every job runs over the owners seen in this process, guarded by busy flags *)
(* that are not symmetric: compression does not start during a consolidation, *)
(* yet a consolidation starts during a compression.  Each step below is the   *)
(* code from one await to the next; an operation of the store, the graph, the *)
(* model or the audit log is one step that may fail.  The store itself is the *)
(* subject of WorkingMemory: here an operation takes effect at once.          *)
EXTENDS Naturals, Sequences, FiniteSets

CONSTANTS
    Owners,      \* continuity owners
    Episodes,    \* episode ids
    OwnerOf,     \* the owner of each episode
    Loaded,      \* episodes an earlier process left in the store, due by now
    Jobs,        \* the jobs an instance has configured
    BatchSize,   \* candidates per owner and drain
    MaxPerOwner, \* config.maxEpisodesPerUser
    MaxWrites,   \* bound: episodes written by turns
    MaxAging,    \* bound: how often an episode becomes due or expires
    MaxFaults    \* bound: failing operations and process crashes

AllJobs == {"consolidation", "decay", "dream", "scope", "skill", "summary",
            "compression", "archive"}
Decisions == {"discard", "reinforce", "consolidate"}

ASSUME MaintenanceAssumption ==
    /\ IsFiniteSet(Episodes) /\ OwnerOf \in [Episodes -> Owners]
    /\ Loaded \subseteq Episodes
    /\ Jobs \subseteq AllJobs
    /\ BatchSize \in Nat \ {0} /\ MaxPerOwner \in Nat \ {0}
    /\ MaxWrites \in Nat /\ MaxAging \in Nat /\ MaxFaults \in Nat

VARIABLES
    owners,   \* this.owners, in insertion order
    timers,   \* the interval timers are running
    idle,     \* owners with an armed idle timer
    busy,     \* the raised busy flags
    targets,  \* the owners each running job has not finished
    pc,       \* where each job is suspended
    cands,    \* candidate ids the two workers have not looked at
    plan,     \* the decision on the head of cands and the steps left of it
    batch,    \* episodes compression has read
    deleted,  \* episodes compression has dropped
    hot,      \* the working-memory store, episode by episode
    cooling,  \* its circuit breaker is open and cooling down
    nodes,    \* memory nodes made of each episode in the graph
    links,    \* nodes related to the episode they came from
    audit,    \* entries of RETROSPECTIVE.md and of the event ledger
    fate,     \* history: which job removed the episode
    aging,    \* bound: how often an episode may still grow older
    faults    \* bound: faults left

flow  == <<owners, timers, idle, busy, targets, pc>>
work  == <<cands, plan, batch, deleted>>
store == <<hot, cooling, fate>>
graph == <<nodes, links>>
vars  == <<flow, work, store, graph, audit, aging, faults>>

InStore(e) == hot[e] \in {"fresh", "due"}
Elements(s) == {s[i] : i \in 1..Len(s)}

Init ==
    /\ owners = <<>> /\ timers = TRUE /\ idle = {} /\ busy = {}
    /\ targets = [j \in Jobs |-> <<>>] /\ pc = [j \in Jobs |-> "idle"]
    /\ cands = [j \in Jobs |-> <<>>] /\ plan = [decision |-> "none", steps |-> <<>>]
    /\ batch = <<>> /\ deleted = <<>>
    /\ hot = [e \in Episodes |-> IF e \in Loaded THEN "due" ELSE "none"] /\ cooling = FALSE
    /\ nodes = [e \in Episodes |-> 0] /\ links = [e \in Episodes |-> 0]
    /\ audit = [e \in Episodes |-> {}] /\ fate = [e \in Episodes |-> "none"]
    /\ aging = MaxAging /\ faults = MaxFaults

-----------------------------------------------------------------------------
(* The scheduler.  The archive is global: it works on no owner. *)

BrainJobs == {"summary", "compression", "archive"}

\* The flags that keep a job from starting, and the ones it raises.
Blocks(j) ==
    {j} \cup (IF j \in BrainJobs THEN {"brainMaintenance"} ELSE {})
        \cup (IF j = "compression" THEN {"consolidation"} ELSE {})
        \cup (IF j = "archive" THEN {"summary", "dream"} ELSE {})
Raises(j) == {j} \cup (IF j \in BrainJobs THEN {"brainMaintenance"} ELSE {})

UsesWorkingMemory(j) == j \in {"consolidation", "compression"}
MayStart(j) == busy \cap Blocks(j) = {} /\ ~(UsesWorkingMemory(j) /\ cooling)

Start(j, list) ==
    /\ pc' = [pc EXCEPT ![j] = "owner"]
    /\ targets' = [targets EXCEPT ![j] = list]
    /\ busy' = busy \cup Raises(j)
    /\ UNCHANGED <<owners, timers, work, store, graph, audit, aging, faults>>

\* An interval timer fires; a job that may not start skips this tick.
Tick(j) ==
    /\ timers /\ MayStart(j)
    /\ Start(j, IF j = "archive" THEN <<>> ELSE owners)
    /\ UNCHANGED idle

\* The idle timer of one owner fires.
IdleDream(o) ==
    /\ o \in idle /\ "dream" \in Jobs
    /\ idle' = idle \ {o}
    /\ IF MayStart("dream") THEN Start("dream", <<o>>)
       ELSE UNCHANGED <<owners, timers, busy, targets, pc, work, store, graph, audit,
                        aging, faults>>

\* The finally block of a job that had no owner to work on.
Finish(j) ==
    /\ pc[j] = "owner" /\ targets[j] = <<>>
    /\ pc' = [pc EXCEPT ![j] = "idle"]
    /\ busy' = busy \ Raises(j)
    /\ UNCHANGED <<owners, timers, idle, targets, work, store, graph, audit, aging,
                   faults>>

\* Mutant: the flags stay up after a job.
NextOwnerKeepsFlags(j) ==
    /\ targets' = [targets EXCEPT ![j] = Tail(@)]
    /\ pc' = [pc EXCEPT ![j] = IF Len(targets[j]) > 1 THEN "owner" ELSE "idle"]
    /\ UNCHANGED busy

\* The next owner of a job, or the finally block after the last; an error of this one is
\* published and swallowed.
NextOwner(j) ==
    /\ targets' = [targets EXCEPT ![j] = Tail(@)]
    /\ IF Len(targets[j]) > 1
       THEN pc' = [pc EXCEPT ![j] = "owner"] /\ UNCHANGED busy
       ELSE pc' = [pc EXCEPT ![j] = "idle"] /\ busy' = busy \ Raises(j)

\* A job of which only the flags matter here works on one owner.
Sweep(j) ==
    /\ ~UsesWorkingMemory(j)
    /\ pc[j] = "owner" /\ targets[j] # <<>>
    /\ NextOwner(j)
    /\ UNCHANGED <<owners, timers, idle, work, store, graph, audit, aging, faults>>

-----------------------------------------------------------------------------
(* Operations of the store, which may fail before or after taking effect: the *)
(* log line is written before the log is measured and compacted.              *)

Fault == faults > 0 /\ faults' = faults - 1

Applied(op, e, by) ==
    CASE op = "touch" -> UNCHANGED <<hot, fate>>
      [] op = "reinforce" ->
           hot' = [hot EXCEPT ![e] = IF InStore(e) THEN "fresh" ELSE @] /\ fate' = fate
      [] op = "drop" ->
           /\ hot' = [hot EXCEPT ![e] = IF InStore(e) THEN "gone" ELSE @]
           /\ fate' = [fate EXCEPT ![e] = IF InStore(e) THEN by ELSE @]

StoreOk(op, e, by) == ~cooling /\ Applied(op, e, by) /\ UNCHANGED <<cooling, faults>>

StoreFails(op, e, by) ==
    \/ cooling /\ UNCHANGED <<store, faults>>
    \/ /\ ~cooling /\ cooling' = TRUE /\ Fault
       /\ UNCHANGED <<hot, fate>> \/ Applied(op, e, by)

\* enforceUserCapacity: how many episodes of an owner a write has to make room
\* of, and the choices of n of them: the earliest review comes first.
Held(o) == {e \in Episodes : OwnerOf[e] = o /\ InStore(e)}
Overflow(o) ==
    IF Cardinality(Held(o)) < MaxPerOwner THEN 0 ELSE Cardinality(Held(o)) - MaxPerOwner + 1
Evictions(o, n) ==
    {V \in SUBSET Held(o) :
        /\ Cardinality(V) = n
        /\ \A v \in V, d \in Held(o) \ V : hot[d] = "due" => hot[v] = "due"}

\* The episodes of V are dropped one by one; after the last the new one is written.
Evict(V, written) ==
    /\ hot' = [f \in Episodes |-> IF f \in written THEN "fresh"
                                 ELSE IF f \in V THEN "gone" ELSE hot[f]]
    /\ fate' = [f \in Episodes |-> IF f \in V THEN "evicted" ELSE fate[f]]

MayWrite(e) ==
    /\ hot[e] = "none"
    /\ Cardinality({f \in Episodes : hot[f] # "none"}) < MaxWrites

WriteOk(e) ==
    /\ MayWrite(e) /\ ~cooling
    /\ \E V \in Evictions(OwnerOf[e], Overflow(OwnerOf[e])) : Evict(V, {e})
    /\ UNCHANGED <<cooling, faults>>

\* The episode of a debate or of a user's feedback: nobody tracks the owner.
Record(e) == WriteOk(e) /\ UNCHANGED <<flow, work, graph, audit, aging>>

\* rememberTurn: the turn's episode is written, then the owner is tracked and
\* its idle timer re-armed, unless a dream is running.
Turn(e) ==
    LET o == OwnerOf[e] IN
    /\ WriteOk(e)
    /\ owners' = IF o \in Elements(owners) THEN owners ELSE Append(owners, o)
    /\ idle' = IF "dream" \notin Jobs THEN idle
               ELSE IF "dream" \in busy THEN idle \ {o}
               ELSE idle \cup {o}
    /\ UNCHANGED <<timers, busy, targets, pc, work, graph, audit, aging>>

\* One of the writes of either rejects: some of the evictions are done, all of them if
\* the episode is in the store, and the owner is not tracked.
TurnFails(e) ==
    LET o == OwnerOf[e] IN
    /\ MayWrite(e)
    /\ \/ cooling /\ UNCHANGED <<store, faults>>
       \/ /\ ~cooling /\ cooling' = TRUE /\ Fault
          /\ \/ \E n \in 0..Overflow(o) : \E V \in Evictions(o, n) : Evict(V, {})
             \/ \E V \in Evictions(o, Overflow(o)) : Evict(V, {e})
    /\ UNCHANGED <<flow, work, graph, audit, aging>>

\* dispose(): all timers are cleared, a running job goes on.
Stop ==
    /\ timers
    /\ timers' = FALSE /\ idle' = {}
    /\ UNCHANGED <<owners, busy, targets, pc, work, store, graph, audit, aging, faults>>

\* Mutant: the review time is not looked at.
AnyEpisode(o) == {e \in Episodes : OwnerOf[e] = o /\ InStore(e)}

\* listConsolidationCandidates: the due episodes of an owner.
Due(o) == {e \in Episodes : OwnerOf[e] = o /\ hot[e] = "due"}
Listings(o) ==
    LET n == IF Cardinality(Due(o)) < BatchSize THEN Cardinality(Due(o)) ELSE BatchSize
    IN  {s \in [1..n -> Due(o)] : \A i, k \in 1..n : i # k => s[i] # s[k]}

\* Both workers begin an owner alike: a worker that finds the store cooling
\* down returns, and a listing that fails ends this owner.
ListCandidates(j) ==
    /\ UsesWorkingMemory(j) /\ pc[j] = "owner" /\ targets[j] # <<>>
    /\ \/ /\ ~cooling
          /\ \E s \in Listings(Head(targets[j])) : cands' = [cands EXCEPT ![j] = s]
          /\ pc' = [pc EXCEPT ![j] = "read"]
          /\ UNCHANGED <<targets, busy, faults>>
       \/ cooling /\ NextOwner(j) /\ UNCHANGED <<cands, faults>>
       \/ ~cooling /\ Fault /\ NextOwner(j) /\ UNCHANGED cands
    /\ UNCHANGED <<owners, timers, idle, plan, batch, deleted, store, graph, audit, aging>>

-----------------------------------------------------------------------------
(* ConsolidationWorker.drain *)

Con == "consolidation"
Episode == Head(cands[Con])

\* Mutants: the audit entry after the drop; a promotion that forgets the drop.
PlanDropsFirst(d) ==
    CASE d = "discard" -> <<"drop", "audit">>
      [] d = "reinforce" -> <<"touch", "reinforce">>
      [] d = "consolidate" -> <<"episode", "node", "relate", "audit", "drop">>
PlanKeepsEpisode(d) ==
    CASE d = "discard" -> <<"audit", "drop">>
      [] d = "reinforce" -> <<"touch", "reinforce">>
      [] d = "consolidate" -> <<"episode", "node", "relate", "audit">>

\* What a decision of the model makes the worker do, in order.
Plan(d) ==
    CASE d = "discard" -> <<"audit", "drop">>
      [] d = "reinforce" -> <<"touch", "reinforce">>
      [] d = "consolidate" -> <<"episode", "node", "relate", "audit", "drop">>
NoPlan == [decision |-> "none", steps |-> <<>>]

NextCandidate ==
    /\ cands' = [cands EXCEPT ![Con] = Tail(@)]
    /\ plan' = NoPlan
    /\ pc' = [pc EXCEPT ![Con] = "read"]

\* readEpisode; a candidate that is gone is skipped.
ReadCandidate ==
    /\ pc[Con] = "read"
    /\ IF cands[Con] = <<>> THEN NextOwner(Con) /\ UNCHANGED <<cands, plan>>
       ELSE IF InStore(Episode)
       THEN pc' = [pc EXCEPT ![Con] = "classify"] /\ UNCHANGED <<targets, busy, cands, plan>>
       ELSE NextCandidate /\ UNCHANGED <<targets, busy>>
    /\ UNCHANGED <<owners, timers, idle, batch, deleted, store, graph, audit, aging,
                   faults>>

\* The model answers; an answer that does not parse is a discard.
Classify ==
    /\ pc[Con] = "classify"
    /\ \E d \in Decisions : plan' = [decision |-> d, steps |-> Plan(d)]
    /\ pc' = [pc EXCEPT ![Con] = "act"]
    /\ UNCHANGED <<owners, timers, idle, busy, targets, cands, batch, deleted, store,
                   graph, audit, aging, faults>>

ClassifyFails ==
    /\ pc[Con] = "classify" /\ Fault
    /\ NextCandidate
    /\ UNCHANGED <<owners, timers, idle, busy, targets, batch, deleted, store, graph,
                   audit, aging>>

StoreOps == {"drop", "touch", "reinforce"}

\* One step of the plan.  upsertEpisode is keyed by the episode and leaves no
\* trace a retry could double; upsertMemoryNode makes a new node.
Act ==
    /\ pc[Con] = "act"
    /\ LET op == Head(plan.steps) IN
        /\ IF op \in StoreOps THEN StoreOk(op, Episode, plan.decision)
           ELSE UNCHANGED <<store, faults>>
        /\ nodes' = IF op = "node" THEN [nodes EXCEPT ![Episode] = @ + 1] ELSE nodes
        /\ links' = IF op = "relate" THEN [links EXCEPT ![Episode] = @ + 1] ELSE links
        /\ audit' = IF op = "audit"
                    THEN [audit EXCEPT ![Episode] = @ \cup {plan.decision}] ELSE audit
    /\ IF Len(plan.steps) > 1
       THEN plan' = [plan EXCEPT !.steps = Tail(@)] /\ UNCHANGED <<pc, cands>>
       ELSE NextCandidate
    /\ UNCHANGED <<owners, timers, idle, busy, targets, batch, deleted, aging>>

\* It rejects: the failure is published and the candidate skipped.
ActFails ==
    /\ pc[Con] = "act"
    /\ IF Head(plan.steps) \in StoreOps
       THEN StoreFails(Head(plan.steps), Episode, plan.decision)
       ELSE Fault /\ UNCHANGED store
    /\ NextCandidate
    /\ UNCHANGED <<owners, timers, idle, busy, targets, batch, deleted, graph, audit,
                   aging>>

-----------------------------------------------------------------------------
(* HotMemoryCompressionWorker.drain *)

Cmp == "compression"
Found == Head(cands[Cmp])

\* drain returns or throws: the scheduler goes on to the next owner.
EndDrain ==
    /\ NextOwner(Cmp)
    /\ cands' = [cands EXCEPT ![Cmp] = <<>>]
    /\ batch' = <<>> /\ deleted' = <<>>

ReadEpisode ==
    /\ pc[Cmp] = "read" /\ cands[Cmp] # <<>> /\ InStore(Found)
    /\ batch' = Append(batch, Found)
    /\ cands' = [cands EXCEPT ![Cmp] = Tail(@)]
    /\ UNCHANGED <<flow, plan, deleted, store, graph, audit, aging, faults>>

\* A candidate that is gone is dropped once more.
ReadMissing ==
    /\ pc[Cmp] = "read" /\ cands[Cmp] # <<>> /\ ~InStore(Found)
    /\ \/ /\ StoreOk("drop", Found, Cmp)
          /\ cands' = [cands EXCEPT ![Cmp] = Tail(@)]
          /\ UNCHANGED <<targets, pc, busy, batch, deleted>>
       \/ StoreFails("drop", Found, Cmp) /\ EndDrain
    /\ UNCHANGED <<owners, timers, idle, plan, graph, audit, aging>>

AllRead ==
    /\ pc[Cmp] = "read" /\ cands[Cmp] = <<>>
    /\ IF batch = <<>> THEN EndDrain
       ELSE pc' = [pc EXCEPT ![Cmp] = "model"]
                 /\ UNCHANGED <<targets, busy, cands, batch, deleted>>
    /\ UNCHANGED <<owners, timers, idle, plan, store, graph, audit, aging, faults>>

\* The model summarizes the batch, or its answer is unusable.
Compress ==
    /\ pc[Cmp] = "model"
    /\ \/ /\ pc' = [pc EXCEPT ![Cmp] = "drop"]
          /\ UNCHANGED <<targets, busy, cands, batch, deleted, faults>>
       \/ Fault /\ EndDrain
    /\ UNCHANGED <<owners, timers, idle, plan, store, graph, audit, aging>>

\* The batch is dropped, episode by episode, before the summary is written.
DropNext ==
    /\ pc[Cmp] = "drop" /\ batch # <<>>
    /\ \/ /\ StoreOk("drop", Head(batch), Cmp)
          /\ deleted' = Append(deleted, Head(batch)) /\ batch' = Tail(batch)
          /\ UNCHANGED <<targets, pc, busy, cands>>
       \/ StoreFails("drop", Head(batch), Cmp) /\ EndDrain
    /\ UNCHANGED <<owners, timers, idle, plan, graph, audit, aging>>

\* Mutant: the summary names the episodes still to drop: none.
AppendEmptySummary ==
    /\ pc[Cmp] = "drop" /\ batch = <<>>
    /\ \/ /\ audit' = [e \in Episodes |-> IF e \in Elements(batch)
                                          THEN audit[e] \cup {Cmp} ELSE audit[e]]
          /\ UNCHANGED faults
       \/ Fault /\ UNCHANGED audit
    /\ EndDrain
    /\ UNCHANGED <<owners, timers, idle, plan, store, graph, aging>>

AppendSummary ==
    /\ pc[Cmp] = "drop" /\ batch = <<>>
    /\ \/ /\ audit' = [e \in Episodes |-> IF e \in Elements(deleted)
                                          THEN audit[e] \cup {Cmp} ELSE audit[e]]
          /\ UNCHANGED faults
       \/ Fault /\ UNCHANGED audit
    /\ EndDrain
    /\ UNCHANGED <<owners, timers, idle, plan, store, graph, aging>>

-----------------------------------------------------------------------------
(* The environment *)

\* An episode reaches its review time, then its expiry.
Age(e) ==
    /\ InStore(e) /\ aging > 0 /\ aging' = aging - 1
    /\ IF hot[e] = "fresh" THEN hot' = [hot EXCEPT ![e] = "due"] /\ fate' = fate
       ELSE hot' = [hot EXCEPT ![e] = "gone"] /\ fate' = [fate EXCEPT ![e] = "expired"]
    /\ UNCHANGED <<flow, work, cooling, graph, audit, faults>>

CoolingOver ==
    /\ cooling /\ cooling' = FALSE
    /\ UNCHANGED <<flow, work, hot, fate, graph, audit, aging, faults>>

\* The process dies and starts again: only what is on disk survives.
Crash ==
    /\ Fault
    /\ owners' = <<>> /\ timers' = TRUE /\ idle' = {} /\ busy' = {}
    /\ targets' = [j \in Jobs |-> <<>>] /\ pc' = [j \in Jobs |-> "idle"]
    /\ cands' = [j \in Jobs |-> <<>>] /\ plan' = NoPlan /\ batch' = <<>> /\ deleted' = <<>>
    /\ cooling' = FALSE
    /\ UNCHANGED <<hot, fate, graph, audit, aging>>

Consolidate == ReadCandidate \/ Classify \/ ClassifyFails \/ Act \/ ActFails
CompressBatch ==
    ReadEpisode \/ ReadMissing \/ AllRead \/ Compress \/ DropNext \/ AppendSummary
Work(j) == ListCandidates(j) \/ Sweep(j) \/ Finish(j)

Next ==
    \/ \E j \in Jobs : Tick(j) \/ Work(j)
    \/ \E o \in Owners : IdleDream(o)
    \/ \E e \in Episodes : Turn(e) \/ Record(e) \/ TurnFails(e) \/ Age(e)
    \/ Con \in Jobs /\ Consolidate
    \/ Cmp \in Jobs /\ CompressBatch
    \/ Stop \/ CoolingOver \/ Crash

\* setInterval fires again and again, the breaker's cool-down passes, and a model, file or
\* database operation ends. Of the jobs only consolidation is assumed to go on: no other may
\* keep an episode from it.
Fairness ==
    /\ Con \in Jobs => WF_vars(Tick(Con)) /\ WF_vars(Work(Con)) /\ WF_vars(Consolidate)
    /\ WF_vars(CoolingOver)

Spec == Init /\ [][Next]_vars
FairSpec == Spec /\ Fairness

-----------------------------------------------------------------------------
(* Properties *)

Steps == {"audit", "drop", "touch", "reinforce", "episode", "node", "relate"}

\* The scheduler, the workers, the store and the graph are well formed: every plan is of
\* a decision the worker knows, every candidate an episode.
TypeOK ==
    /\ owners \in Seq(Owners) /\ timers \in BOOLEAN /\ idle \subseteq Owners
    /\ busy \subseteq Jobs \cup {"brainMaintenance"}
    /\ targets \in [Jobs -> Seq(Owners)]
    /\ pc \in [Jobs -> {"idle", "owner", "read", "classify", "act", "model", "drop"}]
    /\ cands \in [Jobs -> Seq(Episodes)]
    /\ plan \in [decision : Decisions \cup {"none"}, steps : Seq(Steps)]
    /\ batch \in Seq(Episodes) /\ deleted \in Seq(Episodes)
    /\ hot \in [Episodes -> {"none", "fresh", "due", "gone"}] /\ cooling \in BOOLEAN
    /\ nodes \in [Episodes -> Nat] /\ links \in [Episodes -> Nat]
    /\ audit \in [Episodes -> SUBSET (Decisions \cup {Cmp})]
    /\ fate \in [Episodes -> Decisions \cup {"none", "expired", "evicted", Cmp}]
    /\ aging \in Nat /\ faults \in Nat

Running(j) == pc[j] # "idle"

\* However a job ends, it takes down exactly the flags it raised: none sticks
\* and none is cleared for another job, so the jobs that write the event ledger
\* never overlap and every job can start again.
FlagsMatchJobs ==
    /\ busy = UNION {Raises(j) : j \in {j \in Jobs : Running(j)}}
    /\ \A i, j \in Jobs \cap BrainJobs : Running(i) /\ Running(j) => i = j

\* Consolidation never removes an episode it has no evidence of: the audit entry
\* comes before the drop, the graph before both, also when a step fails and the
\* candidate is retried.
RemovalIsEvidenced ==
    \A e \in Episodes :
        /\ fate[e] \in Decisions => fate[e] \in audit[e]
        /\ fate[e] = "consolidate" => links[e] > 0

\* A retry promotes an episode a second time only because an earlier attempt
\* failed (or the process died) after making its node.
PromotedOncePerFailure ==
    \A e \in Episodes : links[e] <= nodes[e] /\ nodes[e] <= 1 + (MaxFaults - faults)

\* Compression drops its batch before it writes the summary of it: episodes are
\* lost without a trace only if an operation failed or the process died between.
CompressionLosesOnlyOnFailure ==
    \A e \in Episodes :
        fate[e] = Cmp /\ Cmp \notin audit[e] =>
            faults < MaxFaults \/ e \in Elements(deleted)
                \/ (Running(Cmp) /\ e \in Elements(batch))

\* An episode whose review was postponed leaves the store for two reasons only:
\* the compression had read it before, or a turn needed room in a full store
\* and every episode of the owner whose review is due went as well.
PostponedIsKept ==
    [][\A e \in Episodes : hot[e] = "fresh" /\ hot'[e] = "gone" =>
        \/ e \in Elements(batch)
        \/ /\ fate'[e] = "evicted" /\ Cardinality(Held(OwnerOf[e])) >= MaxPerOwner
           /\ \A d \in Held(OwnerOf[e]) : hot[d] = "due" => hot'[d] = "gone"]_vars

\* As long as the timers run and the owner is known, a due episode does not wait
\* for ever: it is promoted, postponed or dropped.
DueIsHandled ==
    \A e \in Episodes :
        hot[e] = "due" /\ OwnerOf[e] \in Elements(owners)
            ~> hot[e] # "due" \/ OwnerOf[e] \notin Elements(owners) \/ ~timers
=============================================================================
