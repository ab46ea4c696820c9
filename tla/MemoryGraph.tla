---------------------------- MODULE MemoryGraph ----------------------------
(* The memory nodes of one owner in the long-term graph                       *)
(* (cognitive/hippocampus/memory/graph/store.ts), and who writes them:        *)
(* consolidation (a promoted episode), the decay sweep, a confirmation of the *)
(* user, and the dream, which picks candidates, awaits a model and then       *)
(* applies what the model decided (dream/worker.ts).                          *)
(*                                                                            *)
(* The store keeps every row twice: a method changes the row of its Map and   *)
(* then runs one statement per row. Nothing is rolled back when a statement   *)
(* throws, and nothing joins the statements of a method in a transaction, so  *)
(* an action here has the outcomes of Outcomes: all rows stored, or a few     *)
(* stored and one lost. A crash between two statements is such an outcome     *)
(* followed by Restart.                                                       *)
(*                                                                            *)
(* One step of the clock is long enough for a sweep to change a row above the *)
(* floor. Importance is a level: 0 below the floor, 1 at it. Confidence,      *)
(* recall counts, summaries, symbols and gems (no code under src/ puts one    *)
(* into this store) are left out.                                             *)
EXTENDS Integers, FiniteSets

CONSTANTS
    Nodes,          \* ids of memory nodes
    None,           \* no row, no node, no pass
    Alike,          \* pairs <<a, b>> of nodes with a cosine of at least 0.78
    Close,          \* those of at least 0.85
    Matching,       \* the nodes a recall finds
    Levels,         \* of importance; Floor is the decay's floor, 0 is below it
    BatchSize,      \* rows of one decay sweep
    RecallN,        \* most and least recalled nodes shown to a dream
    DreamCap,       \* candidates of one dream pass
    MaxFaults, MaxPasses, MaxTime  \* bounds: throws and restarts, dreams, the clock

Floor == 1

(* MemoryNodeRecord. `charged` is history: the end of the last period that a  *)
(* decay sweep has charged the row for.                                       *)
Row == [importance : Levels, updatedAt : 0..MaxTime, charged : 0..MaxTime,
        contradicted : BOOLEAN, supersededBy : Nodes \cup {None}]

ASSUME GraphAssumption ==
    /\ None \notin Nodes \cup Row
    /\ Alike \subseteq {p \in Nodes \X Nodes : p[1] # p[2]}
    /\ Close \subseteq Alike
    /\ \A p \in Alike : <<p[2], p[1]>> \in Alike /\ (p \in Close => <<p[2], p[1]>> \in Close)
    /\ Matching \subseteq Nodes
    /\ Levels \subseteq Nat /\ Floor \in Levels
    /\ \A i \in Levels : i > Floor => i - 1 \in Levels
    /\ {BatchSize, RecallN, DreamCap} \subseteq Nat \ {0}
    /\ {MaxFaults, MaxPasses, MaxTime} \subseteq Nat

VARIABLES
    node,       \* the Map: a row for each node that exists
    disk,       \* the table
    edges,      \* the edges in their table; the Map of edges has no reader
    cached,     \* the cached answer of the recall, None when there is none
    pass,       \* the dream pass: its start and the candidates still to apply
    confirmed,  \* the node a confirmation has recalled and will reinforce
    now,        \* the clock
    owner,      \* what the scheduler of this process knows of the owner
    unsaved,    \* history: the rows whose last statement threw
    unflushed,  \* history: a method threw before it could clear the cache
    faults, passes

vars == <<node, disk, edges, cached, pass, confirmed, now, owner, unsaved, unflushed,
          faults, passes>>

Present == {n \in Nodes : node[n] # None}

Recalls == [kind : {"recall"}, id : Nodes]
Pairs == [kind : {"pair"}, left : Nodes, right : Nodes, signal : BOOLEAN]
Rights == [kind : {"right"}, left : Nodes, right : Nodes, delta : BOOLEAN]
Candidates == Recalls \cup Pairs \cup Rights

Edges == [edge : {"consolidated_into"}, to : Nodes]
         \cup [edge : {"supersedes"}, from : Nodes, to : Nodes]

Ends(e) == IF e.edge = "consolidated_into" THEN {e.to} ELSE {e.from, e.to}

GraphTypes ==
    /\ node \in [Nodes -> Row \cup {None}]
    /\ disk \in [Nodes -> Row \cup {None}]
    /\ edges \subseteq Edges
    /\ cached \in (SUBSET Nodes) \cup {None}
    /\ pass = None \/ pass \in [at : 0..MaxTime, todo : SUBSET Candidates]
    /\ confirmed \in Nodes \cup {None}
    /\ now \in 0..MaxTime
    /\ unsaved \subseteq Nodes
    /\ unflushed \in BOOLEAN
    /\ faults \in 0..MaxFaults
    /\ passes \in 0..MaxPasses

TypeOK == GraphTypes /\ owner \in {"unknown", "tracked", "stopped"}

Init ==
    /\ node = [n \in Nodes |-> None]
    /\ disk = [n \in Nodes |-> None]
    /\ edges = {}
    /\ cached = None
    /\ pass = None
    /\ confirmed = None
    /\ now = 0
    /\ owner = "unknown"
    /\ unsaved = {}
    /\ unflushed = FALSE
    /\ faults = 0
    /\ passes = 0

-----------------------------------------------------------------------------
(* Writing rows.                                                              *)

(* What may become of a method that writes the rows `ids` and then edges: the *)
(* rows stored, the row whose statement threw, and whether the edges made it. *)
Outcomes(ids) ==
    {[saved |-> ids, lost |-> {}, linked |-> TRUE]}
    \cup (IF faults = MaxFaults THEN {}
          ELSE {[saved |-> ids, lost |-> {}, linked |-> FALSE]}
               \cup UNION {{[saved |-> s, lost |-> {f}, linked |-> FALSE]
                            : s \in SUBSET (ids \ {f})} : f \in ids})

(* The same for a method that writes no edge.                                 *)
RowOutcomes(ids) == {o \in Outcomes(ids) : o.linked \/ o.lost # {}}

Done(o) == o.linked

(* The persist calls of a method: a row enters the Map before its statement   *)
(* runs.                                                                      *)
Stored(rows, o, p) ==
    LET Over(old, ids) == [n \in Nodes |-> IF n \in ids THEN rows[n] ELSE old[n]]
    IN  /\ node' = Over(node, o.saved \cup o.lost)
        /\ disk' = Over(disk, o.saved)
        /\ pass' = p
        /\ unsaved' = (unsaved \ o.saved) \cup o.lost
        /\ faults' = IF Done(o) THEN faults ELSE faults + 1
        /\ now' = now

(* invalidateRecallCache, where the method gets that far.                     *)
Flushed(reached) ==
    /\ cached' = IF reached THEN None ELSE cached
    /\ unflushed' = ~reached

(* relate, where the method gets that far.                                    *)
Linked(o, e) == edges' = IF o.linked THEN edges \cup {e} ELSE edges

-----------------------------------------------------------------------------
(* Consolidation, decay, confirmation.                                        *)

(* trackOwner: a turn of the owner has been remembered.                       *)
Track ==
    /\ owner = "unknown"
    /\ owner' = "tracked"
    /\ UNCHANGED <<node, disk, edges, cached, pass, confirmed, now, unsaved, unflushed,
                   faults, passes>>

(* dispose: the timers are cleared for good; a job that runs goes on.         *)
Stop ==
    /\ owner = "tracked"
    /\ owner' = "stopped"
    /\ UNCHANGED <<node, disk, edges, cached, pass, confirmed, now, unsaved, unflushed,
                   faults, passes>>

(* Every job of the scheduler loops over the owners it has tracked.           *)
Visited == owner # "unknown"

(* consolidateEpisode: a row under a fresh id, then the edge from the episode. *)
(* (upsertMemoryNode clears the cache before the edge is written.)            *)
Promote(n, i) ==
    /\ Visited
    /\ node[n] = None /\ disk[n] = None
    /\ \A e \in edges : n \notin Ends(e)
    /\ \E o \in Outcomes({n}) :
        LET row == [importance |-> i, updatedAt |-> now, charged |-> now,
                    contradicted |-> FALSE, supersededBy |-> None]
        IN  /\ Stored([k \in {n} |-> row], o, pass)
            /\ Linked(o, [edge |-> "consolidated_into", to |-> n])
            /\ Flushed(o.lost = {})
    /\ UNCHANGED <<confirmed, owner, passes>>

(* Mutant: the rows written last come first.                                  *)
Newest ==
    {b \in SUBSET Present :
        /\ Cardinality(b) = IF Cardinality(Present) < BatchSize
                            THEN Cardinality(Present) ELSE BatchSize
        /\ \A n \in b, m \in Present \ b : node[n].updatedAt >= node[m].updatedAt}

(* The rows a sweep looks at: those that were written longest ago.            *)
Oldest ==
    {b \in SUBSET Present :
        /\ Cardinality(b) = IF Cardinality(Present) < BatchSize
                            THEN Cardinality(Present) ELSE BatchSize
        /\ \A n \in b, m \in Present \ b : node[n].updatedAt <= node[m].updatedAt}

(* decayImportance: nothing for a row of this moment or at the floor; else    *)
(* less, and never below the floor, to which a row below it is raised.        *)
Decays(n) == node[n].updatedAt < now /\ node[n].importance # Floor

(* Mutant: the row keeps its date.                                            *)
DecayedUndated(n) ==
    [node[n] EXCEPT !.importance = IF @ > Floor THEN @ - 1 ELSE Floor, !.charged = now]

Decayed(n) ==
    [node[n] EXCEPT !.importance = IF @ > Floor THEN @ - 1 ELSE Floor,
                    !.updatedAt = now, !.charged = now]

(* applyDecaySweep for one owner, on the timer of runDecayOnce.               *)
Sweep ==
    /\ Visited
    /\ UNCHANGED <<edges, confirmed, owner, passes>>
    /\ \E batch \in Oldest :
        LET changed == {n \in batch : Decays(n)}
        IN  \E o \in RowOutcomes(changed) :
                /\ Stored([n \in changed |-> Decayed(n)], o, pass)
                /\ Flushed(Done(o))

(* recallMemoryNodes for a confirmation of the user: the answer is cached, and *)
(* marking its rows as recalled persists each of them and clears the cache,   *)
(* unless there is none. The best row is reinforced if its score is high.     *)
Recall ==
    /\ confirmed = None
    /\ LET found == IF cached # None THEN cached ELSE Matching \cap Present
       IN  \E o \in RowOutcomes(found) :
            /\ Stored([n \in found |-> node[n]], o, pass)
            /\ IF Done(o) /\ found # {} THEN Flushed(TRUE)
               ELSE /\ cached' = found
                    /\ unflushed' = (unflushed /\ cached # None)
            /\ confirmed' \in IF Done(o) THEN found \cup {None} ELSE {None}
    /\ UNCHANGED <<edges, owner, passes>>

(* applyMemoryReinforce: any multiplier from 0.5 to 1.5, cut to the range.    *)
Reinforced(n, i, t) == [node[n] EXCEPT !.importance = i, !.updatedAt = t]

Nearby(n) == {i \in Levels : i - node[n].importance \in -1..1}

(* The confirmation's own call, with the multiplier 1.2.                      *)
Confirm ==
    /\ confirmed # None
    /\ \E i \in Nearby(confirmed) : \E o \in RowOutcomes({confirmed}) :
        /\ i >= node[confirmed].importance
        /\ Stored([n \in {confirmed} |-> Reinforced(n, i, now)], o, pass)
        /\ Flushed(Done(o))
    /\ confirmed' = None
    /\ UNCHANGED <<edges, owner, passes>>

-----------------------------------------------------------------------------
(* The dream.                                                                 *)

(* listContradictionPairs: the more important of two like nodes is the left.  *)
(* A candidate carries a copy of what its guard will look at.                 *)
Contradictions ==
    {[kind |-> "pair", left |-> p[1], right |-> p[2],
      signal |-> node[p[1]].contradicted \/ node[p[2]].contradicted \/ p \in Close]
        : p \in {q \in Alike : /\ {q[1], q[2]} \subseteq Present
                               /\ node[q[1]].importance > node[q[2]].importance}}

(* The first k, in an order that depends on counts left out: any k.           *)
FirstOf(S, k) ==
    {T \in SUBSET S : Cardinality(T) = IF Cardinality(S) < k THEN Cardinality(S) ELSE k}

(* collectDreamCandidates: the extremes of the recall counts, then the pairs, *)
(* all cut to the batch size of the scheduler. A node that is among the most  *)
(* and among the least recalled is two candidates, and one here: the second   *)
(* is dated like the first and may lead to any level the first may lead to.   *)
Extremes ==
    UNION {FirstOf(tops \cup bottoms, DreamCap)
           : tops \in FirstOf(Present, RecallN), bottoms \in FirstOf(Present, RecallN)}

RoomForPairs ==
    LET shown == 2 * (IF Cardinality(Present) < RecallN THEN Cardinality(Present) ELSE RecallN)
    IN  IF shown < DreamCap THEN DreamCap - shown ELSE 0

(* runOnce up to the await of the model. The guard is dreamBusy.              *)
DreamStart ==
    /\ Visited
    /\ pass = None
    /\ passes < MaxPasses
    /\ passes' = passes + 1
    /\ \E extremes \in Extremes : \E pairs \in FirstOf(Contradictions, RoomForPairs) :
        LET todo == {[kind |-> "recall", id |-> n] : n \in extremes} \cup pairs
        IN  /\ todo # {}
            /\ pass' = [at |-> now, todo |-> todo]
    /\ UNCHANGED <<node, disk, now, owner, edges, cached, confirmed, unsaved, unflushed, faults>>

(* The candidates are applied in their order, recalls before pairs; those the *)
(* model has no decision for ("skip", or an action for another kind) are      *)
(* passed over. A verdict against both sides of a pair is two calls, of which *)
(* the second waits as "right".                                               *)
InTurn(c) == c.kind # "right" => \A d \in pass.todo : d.kind # "right"

After(c) == {d \in pass.todo \ {c} : c.kind \in {"pair", "right"} => d.kind = "pair"}

Left(todo) == IF todo = {} THEN None ELSE [pass EXCEPT !.todo = todo]

(* The model failed, its answer was unreadable, or the rest is skipped.       *)
DreamEnds ==
    /\ pass # None
    /\ \A d \in pass.todo : d.kind # "right"
    /\ pass' = None
    /\ UNCHANGED <<node, disk, now, owner, edges, cached, confirmed, unsaved, unflushed, faults,
                   passes>>

(* The decision "recall-reinforce". The row read is the one of this moment,   *)
(* the time written is the one at which the pass began.                       *)
Reinforce(c) ==
    /\ InTurn(c)
    /\ c.kind = "recall"
    /\ c.id \in Present
    /\ \E i \in Nearby(c.id) : \E o \in RowOutcomes({c.id}) :
        /\ Stored([n \in {c.id} |-> Reinforced(n, i, pass.at)], o, Left(After(c)))
        /\ Flushed(Done(o))
    /\ UNCHANGED <<edges, confirmed, owner, passes>>

(* applyContradictionAudit of n: the row, then the edge "contradicts", if one *)
(* is asked for. Of the edge only its failure is modelled.                    *)
Audited(c, n, delta, rest) ==
    /\ \E o \in Outcomes({n}) :
        /\ Stored([k \in {n} |-> [node[n] EXCEPT !.contradicted = @ \/ delta,
                                                 !.updatedAt = pass.at]],
                  o, Left(After(c) \cup (IF Done(o) THEN rest ELSE {})))
        /\ Flushed(Done(o))
    /\ UNCHANGED <<edges, confirmed, owner, passes>>

(* The decision "contradiction-audit" with its weaker side.                   *)
Audit(c, weaker, delta) ==
    /\ InTurn(c)
    /\ c.kind = "pair"
    /\ {c.left, c.right} \subseteq Present
    /\ \/ weaker = "left" /\ Audited(c, c.left, delta, {})
       \/ weaker = "right" /\ Audited(c, c.right, delta, {})
       \/ weaker = "both" /\ Audited(c, c.left, delta,
            {[kind |-> "right", left |-> c.left, right |-> c.right, delta |-> delta]})

AuditRight(c) ==
    /\ InTurn(c)
    /\ c.kind = "right"
    /\ Audited(c, c.right, c.delta, {})

(* applyReconsolidation: the winner's row, the loser's row, the edge.         *)
Superseding(winner, loser) ==
    [n \in {winner, loser} |->
        IF n = winner THEN [node[n] EXCEPT !.updatedAt = pass.at]
        ELSE [node[n] EXCEPT !.supersededBy = winner, !.updatedAt = pass.at]]

(* Mutant: the edge is stored first.                                          *)
ReconsolidateEdgeFirst(c, winner) ==
    /\ InTurn(c)
    /\ c.kind = "pair"
    /\ c.signal
    /\ {c.left, c.right} \subseteq Present
    /\ winner \in {c.left, c.right}
    /\ LET loser == IF winner = c.left THEN c.right ELSE c.left
       IN  \E o \in Outcomes({winner, loser}) :
            /\ loser \in o.saved \cup o.lost => winner \in o.saved
            /\ Stored(Superseding(winner, loser), o, Left(After(c)))
            /\ edges' = edges \cup {[edge |-> "supersedes", from |-> winner, to |-> loser]}
            /\ Flushed(Done(o))
    /\ UNCHANGED <<confirmed, owner, passes>>

(* The decision "reconsolidation": only on a signal the candidate carries.    *)
Reconsolidate(c, winner) ==
    /\ InTurn(c)
    /\ c.kind = "pair"
    /\ c.signal
    /\ {c.left, c.right} \subseteq Present
    /\ winner \in {c.left, c.right}
    /\ LET loser == IF winner = c.left THEN c.right ELSE c.left
       IN  \E o \in Outcomes({winner, loser}) :
            /\ loser \in o.saved \cup o.lost => winner \in o.saved
            /\ Stored(Superseding(winner, loser), o, Left(After(c)))
            /\ Linked(o, [edge |-> "supersedes", from |-> winner, to |-> loser])
            /\ Flushed(Done(o))
    /\ UNCHANGED <<confirmed, owner, passes>>

-----------------------------------------------------------------------------
(* A cached answer lives for a minute, which may or may not be over.          *)
Tick ==
    /\ now < MaxTime
    /\ now' = now + 1
    /\ cached' \in {cached, None}
    /\ unflushed' = (unflushed /\ cached' # None)
    /\ UNCHANGED <<node, disk, owner, edges, pass, confirmed, unsaved, faults, passes>>

(* The process ends at any moment; initialize() loads the Maps from the tables, *)
(* and the scheduler knows of no owner.                                       *)
Restart ==
    /\ faults < MaxFaults
    /\ faults' = faults + 1
    /\ node' = disk
    /\ owner' = "unknown"
    /\ pass' = None
    /\ cached' = None
    /\ confirmed' = None
    /\ unsaved' = {}
    /\ unflushed' = FALSE
    /\ UNCHANGED <<disk, edges, now, passes>>

Dream ==
    \/ DreamStart
    \/ DreamEnds
    \/ pass # None /\ \E c \in pass.todo :
        \/ Reinforce(c)
        \/ \E weaker \in {"left", "right", "both"}, delta \in BOOLEAN : Audit(c, weaker, delta)
        \/ AuditRight(c)
        \/ \E winner \in Nodes : Reconsolidate(c, winner)

Next ==
    \/ \E n \in Nodes, i \in Levels : Promote(n, i)
    \/ Sweep
    \/ Recall
    \/ Confirm
    \/ Dream
    \/ Track \/ Stop
    \/ Tick
    \/ Restart

Spec == Init /\ [][Next]_vars

(* The timer of the sweep fires again and again until dispose, and visits the *)
(* owner once it is tracked. Nothing is assumed of turns and of time.         *)
FairSpec == Spec /\ WF_vars(owner = "tracked" /\ Sweep)
-----------------------------------------------------------------------------
(* Properties.                                                                *)

(* The three copies of the graph: a row of the table differs from the Map     *)
(* only if the last statement for it threw (store.ts changes the Map first    *)
(* and rolls nothing back), and a cached answer of the recall is what a       *)
(* search would find now, unless a method threw before it could clear it.     *)
CopiesAgree ==
    /\ \A n \in Nodes : node[n] # disk[n] => n \in unsaved
    /\ cached # None => cached = Matching \cap Present \/ unflushed

(* Rows are written before the edge that speaks of them, and no transaction   *)
(* joins them: whatever failed or crashed between, an edge in the table has   *)
(* its rows there, and the loser of a "supersedes" edge says that it is       *)
(* superseded. While nothing failed, a superseded row has its edge, too.      *)
EdgesAreBacked ==
    /\ \A e \in edges :
        /\ e.edge = "consolidated_into" => disk[e.to] # None
        /\ e.edge = "supersedes" => /\ disk[e.from] # None
                                   /\ disk[e.to] # None
                                   /\ disk[e.to].supersededBy # None
    /\ faults = 0 =>
        \A n \in Nodes : disk[n] # None /\ disk[n].supersededBy # None =>
            [edge |-> "supersedes", from |-> disk[n].supersededBy, to |-> n] \in edges

(* What the graph holds three times agrees as far as nothing has failed, and  *)
(* its edges are backed by its rows whatever has failed.                      *)
GraphHoldsTogether == CopiesAgree /\ EdgesAreBacked

(* A row charged up to some time but dated before it: the next sweep takes    *)
(* the same period from its importance again.                                 *)
Overcharged(row) == row # None /\ row.updatedAt < row.charged

(* runOnce of the dream takes the time once, before it awaits the model, and  *)
(* writes it into the rows afterwards. Only such a pass, if a sweep has been  *)
(* over the row meanwhile, dates a row back behind the sweep.                 *)
OnlyADreamDatesBack ==
    [][\A n \in Nodes : Overcharged(node'[n]) =>
        \/ Overcharged(node[n]) \/ Overcharged(disk[n])
        \/ pass # None /\ node[n] # None /\ pass.at < node[n].charged]_vars

AboveFloor(n) == n \in Present /\ node[n].importance > Floor

(* A sweep skips rows at the floor and leaves their date as it is, so they    *)
(* are the oldest for ever: as many of them as a batch holds hide the rest.   *)
Starved(n) ==
    BatchSize <= Cardinality({m \in Present \ {n} :
        node[m].importance = Floor /\ node[m].updatedAt <= node[n].updatedAt})

(* While the scheduler knows the owner, a node above the floor is reached by  *)
(* a sweep (or by another write that dates it), unless enough nodes at the    *)
(* floor are older. After a restart nothing decays before the owner's turn.   *)
DecayReachesAll ==
    \A n \in Nodes : AboveFloor(n) /\ owner = "tracked" ~>
        \/ ~AboveFloor(n) \/ Starved(n) \/ node[n].updatedAt = now
        \/ owner # "tracked"

(* What the sweep is for (scheduler.ts:7-8): no node keeps a high importance  *)
(* for ever. It fails, see Starved.                                           *)
EveryNodeDecays ==
    \A n \in Nodes : AboveFloor(n) ~> ~AboveFloor(n) \/ node[n].updatedAt = now

(* docs/boundaries.md, R7: a dream writes nothing without a recorded negative *)
(* signal, and never merges on similarity alone. It fails: similarity is      *)
(* enough of a signal.                                                        *)
MergeNeedsSignal ==
    \A n \in Present : node[n].supersededBy # None =>
        node[n].contradicted \/ node[node[n].supersededBy].contradicted
=============================================================================
