--------------------------- MODULE MemoryGraph_proofs ---------------------------
(* Proofs about MemoryGraph, for any nodes, levels, batches and numbers of faults, passes  *)
(* and ticks. The methods differ in the rows they write and agree in the way they write    *)
(* them; so a lemma on what may become of any write carries most of the proof, and a       *)
(* method has only to show that its rows are no step back from the rows of the Map.        *)
EXTENDS MemoryGraph, TLAPS

\* No row is charged for a time to come.
Dated ==
    \A n \in Nodes : /\ node[n] # None => node[n].charged <= now
                     /\ disk[n] # None => disk[n].charged <= now

\* The table lags behind the Map and is never ahead of it.
TableLags ==
    \A n \in Nodes : disk[n] # None =>
        /\ node[n] # None
        /\ disk[n].supersededBy # None => node[n].supersededBy # None

\* A candidate of a dream whose first half is done finds the other node; a pair is of two.
InHand(c) ==
    /\ c.kind = "right" => c.right \in Present
    /\ c.kind = "pair" => c.left # c.right

\* A node somebody has in hand is there.
InHandIsPresent ==
    /\ confirmed # None => confirmed \in Present
    /\ cached # None => cached \subseteq Present
    /\ pass # None => \A c \in pass.todo : InHand(c)

\* Without a fault every row is saved.
FaultlessIsSaved == faults = 0 => unsaved = {}

IInv ==
    /\ GraphTypes
    /\ Dated
    /\ TableLags
    /\ InHandIsPresent
    /\ FaultlessIsSaved
    /\ GraphHoldsTogether

-----------------------------------------------------------------------------
(* What may become of a write. *)

LEMMA OutcomeIsOf ==
  ASSUME NEW ids, NEW o \in Outcomes(ids)
  PROVE  /\ o.saved \subseteq ids /\ o.lost \subseteq ids /\ o.saved \cap o.lost = {}
         /\ o.linked => o.saved = ids /\ o.lost = {}
         /\ o.linked \in BOOLEAN
         /\ ~o.linked => faults # MaxFaults
         /\ o.lost = {} => o.saved = ids
<1>1. CASE o = [saved |-> ids, lost |-> {}, linked |-> TRUE]
  BY <1>1
<1>2. CASE faults # MaxFaults /\ o = [saved |-> ids, lost |-> {}, linked |-> FALSE]
  BY <1>2
<1>3. CASE faults # MaxFaults /\ \E f \in ids : \E s \in SUBSET (ids \ {f}) :
             o = [saved |-> s, lost |-> {f}, linked |-> FALSE]
  BY <1>3
<1> QED
  BY <1>1, <1>2, <1>3 DEF Outcomes

LEMMA RowOutcomeIsOf ==
  ASSUME NEW ids, NEW o \in RowOutcomes(ids)
  PROVE  o \in Outcomes(ids) /\ (o.linked \/ o.lost # {})
BY DEF RowOutcomes

\* The rows a method writes are of nodes, are not dated ahead, and supersede no less than
\* those of the Map.
Advances(rows, ids) ==
    \A n \in ids : /\ rows[n] \in Row /\ rows[n].charged <= now
                   /\ node[n] # None /\ node[n].supersededBy # None => rows[n].supersededBy # None

\* Rows are written one by one and one of them may be lost.
LEMMA StoredRows ==
  ASSUME NEW ids, ids \subseteq Nodes, NEW o \in Outcomes(ids), NEW rows, NEW p, Stored(rows, o, p)
  PROVE  /\ \A n \in o.saved : node'[n] = rows[n] /\ disk'[n] = rows[n] /\ n \notin unsaved'
         /\ \A n \in o.lost : node'[n] = rows[n] /\ disk'[n] = disk[n] /\ n \in unsaved'
         /\ \A n \in Nodes \ (o.saved \cup o.lost) :
               node'[n] = node[n] /\ disk'[n] = disk[n] /\ (n \in unsaved' <=> n \in unsaved)
         /\ node' = [n \in Nodes |-> node'[n]] /\ disk' = [n \in Nodes |-> disk'[n]]
         /\ pass' = p /\ now' = now
<1>1. /\ o.saved \subseteq Nodes /\ o.lost \subseteq Nodes /\ o.saved \cap o.lost = {}
  BY OutcomeIsOf
<1>2. /\ node' = [n \in Nodes |-> IF n \in o.saved \cup o.lost THEN rows[n] ELSE node[n]]
      /\ disk' = [n \in Nodes |-> IF n \in o.saved THEN rows[n] ELSE disk[n]]
      /\ unsaved' = (unsaved \ o.saved) \cup o.lost /\ pass' = p /\ now' = now
  BY DEF Stored
<1> QED
  BY <1>1, <1>2

LEMMA WriteKeeps ==
  ASSUME GraphTypes, Dated, TableLags, FaultlessIsSaved, CopiesAgree,
         NEW ids, ids \subseteq Nodes, NEW o \in Outcomes(ids), NEW rows, NEW p,
         Stored(rows, o, p), Advances(rows, ids)
  PROVE  /\ node' \in [Nodes -> Row \cup {None}] /\ disk' \in [Nodes -> Row \cup {None}]
         /\ now' \in 0..MaxTime /\ unsaved' \subseteq Nodes /\ faults' \in 0..MaxFaults
         /\ Dated' /\ TableLags' /\ FaultlessIsSaved'
         /\ \A n \in Nodes : node'[n] # disk'[n] => n \in unsaved'
         /\ Present' = Present \cup o.saved \cup o.lost
         /\ \A n \in Nodes : disk[n] # None =>
               disk'[n] # None /\ (disk[n].supersededBy # None => disk'[n].supersededBy # None)
         /\ faults' = 0 => o.linked /\ faults = 0
<1> USE GraphAssumption
<1>1. /\ o.saved \subseteq ids /\ o.lost \subseteq ids /\ o.saved \cap o.lost = {}
      /\ o.linked => o.saved = ids /\ o.lost = {}
      /\ o.linked \in BOOLEAN /\ (~o.linked => faults # MaxFaults)
  BY OutcomeIsOf
<1>2. /\ \A n \in o.saved : node'[n] = rows[n] /\ disk'[n] = rows[n] /\ n \notin unsaved'
      /\ \A n \in o.lost : node'[n] = rows[n] /\ disk'[n] = disk[n] /\ n \in unsaved'
      /\ \A n \in Nodes \ (o.saved \cup o.lost) :
            node'[n] = node[n] /\ disk'[n] = disk[n] /\ (n \in unsaved' <=> n \in unsaved)
      /\ node' = [n \in Nodes |-> node'[n]] /\ disk' = [n \in Nodes |-> disk'[n]]
      /\ now' = now
  BY StoredRows
<1>3. \A n \in o.saved \cup o.lost : n \in Nodes /\ rows[n] \in Row /\ rows[n] # None
  BY <1>1 DEF Advances
<1>4. node' \in [Nodes -> Row \cup {None}] /\ disk' \in [Nodes -> Row \cup {None}]
  <2>1. \A n \in Nodes : node'[n] \in Row \cup {None} /\ disk'[n] \in Row \cup {None}
    BY <1>2, <1>3 DEF GraphTypes
  <2> QED
    BY <1>2, <2>1
<1>5. unsaved' \subseteq Nodes /\ faults' \in 0..MaxFaults /\ (faults' = 0 => o.linked /\ faults = 0)
  BY <1>1, <1>2 DEF Stored, Done, GraphTypes
<1>6. FaultlessIsSaved'
  BY <1>1, <1>5 DEF FaultlessIsSaved, Stored
<1>7. Dated'
  <2>1. \A n \in Nodes : /\ node'[n] # None => node'[n].charged <= now
                         /\ disk'[n] # None => disk'[n].charged <= now
    BY <1>1, <1>2, <1>3 DEF Dated, Advances
  <2> QED
    BY <1>2, <2>1 DEF Dated
<1>8. TableLags'
  BY <1>1, <1>2, <1>3 DEF TableLags, Advances
<1>9. \A n \in Nodes : node'[n] # disk'[n] => n \in unsaved'
  BY <1>2 DEF CopiesAgree
<1>10. Present' = Present \cup o.saved \cup o.lost
  BY <1>2, <1>3 DEF Present
<1>11. \A n \in Nodes : disk[n] # None =>
          disk'[n] # None /\ (disk[n].supersededBy # None => disk'[n].supersededBy # None)
  BY <1>1, <1>2, <1>3 DEF TableLags, Advances
<1> QED
  BY <1>2, <1>4, <1>5, <1>6, <1>7, <1>8, <1>9, <1>10, <1>11 DEF GraphTypes

\* An edge that was backed stays backed.
LEMMA EdgesStayBacked ==
  ASSUME EdgesAreBacked, GraphTypes,
         \A n \in Nodes : disk[n] # None =>
            disk'[n] # None /\ (disk[n].supersededBy # None => disk'[n].supersededBy # None),
         NEW e \in edges
  PROVE  /\ e.edge = "consolidated_into" => disk'[e.to] # None
         /\ e.edge = "supersedes" => disk'[e.from] # None /\ disk'[e.to] # None
                                     /\ disk'[e.to].supersededBy # None
<1>1. e.edge = "consolidated_into" => e.to \in Nodes
  BY DEF GraphTypes, Edges
<1>2. e.edge = "supersedes" => e.from \in Nodes /\ e.to \in Nodes
  BY DEF GraphTypes, Edges
<1> QED
  BY <1>1, <1>2 DEF EdgesAreBacked

\* A method that supersedes nothing, writes rows that are there and no edge.
LEMMA RewriteKeeps ==
  ASSUME IInv, NEW ids, ids \subseteq Present, NEW o \in Outcomes(ids), NEW rows, NEW p,
         Stored(rows, o, p), Advances(rows, ids),
         \A n \in ids : rows[n].supersededBy = node[n].supersededBy,
         UNCHANGED edges
  PROVE  /\ node' \in [Nodes -> Row \cup {None}] /\ disk' \in [Nodes -> Row \cup {None}]
         /\ now' \in 0..MaxTime /\ unsaved' \subseteq Nodes /\ faults' \in 0..MaxFaults
         /\ Dated' /\ TableLags' /\ FaultlessIsSaved' /\ EdgesAreBacked'
         /\ \A n \in Nodes : node'[n] # disk'[n] => n \in unsaved'
         /\ Present' = Present
<1> USE DEF IInv, GraphHoldsTogether
<1>1. ids \subseteq Nodes
  BY DEF Present
<1>2. /\ node' \in [Nodes -> Row \cup {None}] /\ disk' \in [Nodes -> Row \cup {None}]
      /\ now' \in 0..MaxTime /\ unsaved' \subseteq Nodes /\ faults' \in 0..MaxFaults
      /\ Dated' /\ TableLags' /\ FaultlessIsSaved'
      /\ \A n \in Nodes : node'[n] # disk'[n] => n \in unsaved'
      /\ Present' = Present \cup o.saved \cup o.lost
      /\ \A n \in Nodes : disk[n] # None =>
            disk'[n] # None /\ (disk[n].supersededBy # None => disk'[n].supersededBy # None)
      /\ faults' = 0 => o.linked /\ faults = 0
  BY <1>1, WriteKeeps
<1>3. Present' = Present
  BY <1>2, OutcomeIsOf
<1>4. EdgesAreBacked'
  <2>1. \A e \in edges' :
            /\ e.edge = "consolidated_into" => disk'[e.to] # None
            /\ e.edge = "supersedes" => disk'[e.from] # None /\ disk'[e.to] # None
                                        /\ disk'[e.to].supersededBy # None
    BY <1>2, EdgesStayBacked
  <2>2. ASSUME faults' = 0, NEW n \in Nodes, disk'[n] # None, disk'[n].supersededBy # None
        PROVE  [edge |-> "supersedes", from |-> disk'[n].supersededBy, to |-> n] \in edges'
    <3>1. o.linked /\ faults = 0 /\ unsaved = {} /\ node[n] = disk[n]
      BY <1>2, <2>2 DEF FaultlessIsSaved, CopiesAgree
    <3>2. o.saved = ids /\ o.lost = {}
      BY <3>1, OutcomeIsOf
    <3>3. disk'[n] = IF n \in ids THEN rows[n] ELSE disk[n]
      BY <1>1, <3>2, StoredRows
    <3>4. disk[n] # None /\ disk[n].supersededBy = disk'[n].supersededBy
      BY <2>2, <3>1, <3>3 DEF Present
    <3> QED
      BY <2>2, <3>1, <3>4 DEF EdgesAreBacked
  <2> QED
    BY <2>1, <2>2 DEF EdgesAreBacked
<1> QED
  BY <1>2, <1>3, <1>4

\* invalidateRecallCache, reached or not.
LEMMA FlushKeeps ==
  ASSUME GraphTypes, Present \subseteq Present', InHandIsPresent, NEW reached \in BOOLEAN, Flushed(reached)
  PROVE  /\ cached' \in (SUBSET Nodes) \cup {None} /\ unflushed' \in BOOLEAN
         /\ cached' # None => cached' \subseteq Present'
         /\ cached' # None => cached' = (Matching \cap Present)' \/ unflushed'
BY DEF Flushed, GraphTypes, InHandIsPresent, InHand

-----------------------------------------------------------------------------
(* The methods, one by one. *)

LEMMA PromoteStep ==
  ASSUME IInv, NEW n \in Nodes, NEW i \in Levels, Promote(n, i)
  PROVE  IInv'
<1> USE GraphAssumption DEF IInv, GraphHoldsTogether
<1> DEFINE row == [importance |-> i, updatedAt |-> now, charged |-> now,
                   contradicted |-> FALSE, supersededBy |-> None]
           rows == [k \in {n} |-> row]
<1>1. PICK o \in Outcomes({n}) :
        /\ Stored(rows, o, pass)
        /\ Linked(o, [edge |-> "consolidated_into", to |-> n])
        /\ Flushed(o.lost = {})
  BY DEF Promote
<1>2. node[n] = None /\ disk[n] = None /\ UNCHANGED <<confirmed, passes>>
  BY DEF Promote
<1>3. row \in Row /\ rows[n] = row
  BY DEF Row, GraphTypes
<1>4. Advances(rows, {n})
  BY <1>2, <1>3 DEF Advances, GraphTypes
<1> HIDE DEF row, rows
<1>5. /\ node' \in [Nodes -> Row \cup {None}] /\ disk' \in [Nodes -> Row \cup {None}]
      /\ now' \in 0..MaxTime /\ unsaved' \subseteq Nodes /\ faults' \in 0..MaxFaults
      /\ Dated' /\ TableLags' /\ FaultlessIsSaved'
      /\ \A k \in Nodes : node'[k] # disk'[k] => k \in unsaved'
      /\ Present' = Present \cup o.saved \cup o.lost
      /\ \A k \in Nodes : disk[k] # None =>
            disk'[k] # None /\ (disk[k].supersededBy # None => disk'[k].supersededBy # None)
      /\ faults' = 0 => o.linked /\ faults = 0
  BY <1>1, <1>4, WriteKeeps
<1>6. /\ cached' \in (SUBSET Nodes) \cup {None} /\ unflushed' \in BOOLEAN
      /\ cached' # None => cached' \subseteq Present'
      /\ cached' # None => cached' = (Matching \cap Present)' \/ unflushed'
  <2>1. (o.lost = {}) \in BOOLEAN
    OBVIOUS
  <2> QED
    BY <1>1, <1>5, <2>1, FlushKeeps
<1>7. pass' = pass /\ confirmed' = confirmed
  BY <1>1, <1>2 DEF Stored
<1>8. edges' \subseteq Edges
  BY <1>1 DEF Linked, Edges, GraphTypes
<1>9. EdgesAreBacked'
  <2>1. ASSUME NEW e \in edges'
        PROVE  /\ e.edge = "consolidated_into" => disk'[e.to] # None
               /\ e.edge = "supersedes" => disk'[e.from] # None /\ disk'[e.to] # None
                                           /\ disk'[e.to].supersededBy # None
    <3>1. CASE e \in edges
      BY <1>5, <3>1, EdgesStayBacked
    <3>2. CASE e \notin edges
      <4>1. e = [edge |-> "consolidated_into", to |-> n] /\ o.linked
        BY <1>1, <3>2 DEF Linked
      <4>2. disk'[n] = rows[n]
        BY <1>1, <4>1, OutcomeIsOf, StoredRows
      <4> QED
        BY <1>3, <4>1, <4>2
    <3> QED
      BY <3>1, <3>2
  <2>2. ASSUME faults' = 0, NEW k \in Nodes, disk'[k] # None, disk'[k].supersededBy # None
        PROVE  [edge |-> "supersedes", from |-> disk'[k].supersededBy, to |-> k] \in edges'
    <3>1. o.linked /\ faults = 0
      BY <1>5, <2>2
    <3>2. o.saved = {n} /\ o.lost = {}
      BY <3>1, OutcomeIsOf
    <3>3. disk'[n] = rows[n] /\ \A m \in Nodes \ {n} : disk'[m] = disk[m]
      BY <1>1, <3>2, StoredRows
    <3>4. k # n
      BY <1>3, <2>2, <3>3 DEF row
    <3> QED
      BY <1>1, <2>2, <3>1, <3>3, <3>4 DEF EdgesAreBacked, Linked
  <2> QED
    BY <2>1, <2>2 DEF EdgesAreBacked
<1>10. InHandIsPresent'
  BY <1>5, <1>6, <1>7 DEF InHandIsPresent, InHand
<1>11. GraphTypes'
  BY <1>2, <1>5, <1>6, <1>7, <1>8 DEF GraphTypes
<1> QED
  BY <1>5, <1>6, <1>9, <1>10, <1>11 DEF CopiesAgree

\* A row as old and as superseded as it was, at another level, of another date.
LEMMA ChangedRow ==
  ASSUME GraphTypes, Dated, NEW n \in Present, NEW i \in Levels, NEW t \in 0..MaxTime
  PROVE  /\ node[n] \in Row /\ node[n].charged <= now
         /\ [node[n] EXCEPT !.importance = i, !.updatedAt = t] \in Row
         /\ [node[n] EXCEPT !.importance = i, !.updatedAt = t].charged = node[n].charged
         /\ [node[n] EXCEPT !.importance = i, !.updatedAt = t].supersededBy = node[n].supersededBy
<1>1. n \in Nodes /\ node[n] \in Row /\ node[n].charged <= now
  BY DEF Present, GraphTypes, Dated
<1> QED
  BY <1>1 DEF Row

LEMMA SweepStep ==
  ASSUME IInv, Sweep
  PROVE  IInv'
<1> USE GraphAssumption DEF IInv, GraphHoldsTogether
<1>1. PICK batch \in Oldest : \E o \in RowOutcomes({n \in batch : Decays(n)}) :
           /\ Stored([n \in {n \in batch : Decays(n)} |-> Decayed(n)], o, pass)
           /\ Flushed(Done(o))
  BY DEF Sweep
<1> DEFINE changed == {n \in batch : Decays(n)}
           rows == [n \in changed |-> Decayed(n)]
<1>2. PICK o \in RowOutcomes(changed) : Stored(rows, o, pass) /\ Flushed(Done(o))
  BY <1>1
<1>3. o \in Outcomes(changed)
  BY RowOutcomeIsOf
<1>4. changed \subseteq Present /\ UNCHANGED <<edges, confirmed, passes>>
  BY DEF Oldest, Sweep
<1>5. \A n \in changed : /\ rows[n] \in Row /\ rows[n].charged <= now
                         /\ rows[n].supersededBy = node[n].supersededBy
  <2>1. SUFFICES ASSUME NEW n \in changed
                 PROVE  /\ Decayed(n) \in Row /\ Decayed(n).charged <= now
                        /\ Decayed(n).supersededBy = node[n].supersededBy
    OBVIOUS
  <2>2. n \in Nodes /\ node[n] \in Row /\ now \in 0..MaxTime /\ MaxTime \in Nat
    BY <1>4 DEF Present, GraphTypes
  <2>3. PICK i \in Levels : i = IF node[n].importance > Floor THEN node[n].importance - 1 ELSE Floor
    BY <2>2 DEF Row
  <2>4. Decayed(n) = [node[n] EXCEPT !.importance = i, !.updatedAt = now, !.charged = now]
    BY <2>3 DEF Decayed
  <2>5. Decayed(n) \in Row
    BY <2>2, <2>4 DEF Row
  <2>6. Decayed(n).charged = now /\ Decayed(n).supersededBy = node[n].supersededBy
    BY <2>2, <2>4 DEF Row
  <2> QED
    BY <2>2, <2>5, <2>6
<1>6. Advances(rows, changed)
  BY <1>5 DEF Advances
<1> HIDE DEF changed, rows
<1>7. /\ node' \in [Nodes -> Row \cup {None}] /\ disk' \in [Nodes -> Row \cup {None}]
      /\ now' \in 0..MaxTime /\ unsaved' \subseteq Nodes /\ faults' \in 0..MaxFaults
      /\ Dated' /\ TableLags' /\ FaultlessIsSaved' /\ EdgesAreBacked'
      /\ \A n \in Nodes : node'[n] # disk'[n] => n \in unsaved'
      /\ Present' = Present
  BY <1>2, <1>3, <1>4, <1>5, <1>6, RewriteKeeps
<1>8. /\ cached' \in (SUBSET Nodes) \cup {None} /\ unflushed' \in BOOLEAN
      /\ cached' # None => cached' \subseteq Present'
      /\ cached' # None => cached' = (Matching \cap Present)' \/ unflushed'
  BY <1>2, <1>3, <1>7, FlushKeeps, OutcomeIsOf DEF Done
<1>9. pass' = pass
  BY <1>2 DEF Stored
<1>10. InHandIsPresent' /\ GraphTypes'
  BY <1>4, <1>7, <1>8, <1>9 DEF InHandIsPresent, InHand, GraphTypes
<1> QED
  BY <1>7, <1>8, <1>10 DEF CopiesAgree

LEMMA RecallStep ==
  ASSUME IInv, Recall
  PROVE  IInv'
<1> USE GraphAssumption DEF IInv, GraphHoldsTogether
<1> DEFINE found == IF cached # None THEN cached ELSE Matching \cap Present
           rows == [n \in found |-> node[n]]
<1>1. PICK o \in RowOutcomes(found) :
        /\ Stored(rows, o, pass)
        /\ IF Done(o) /\ found # {} THEN Flushed(TRUE)
           ELSE cached' = found /\ unflushed' = (unflushed /\ cached # None)
        /\ confirmed' \in IF Done(o) THEN found \cup {None} ELSE {None}
  BY DEF Recall
<1>2. o \in Outcomes(found)
  BY RowOutcomeIsOf
<1>3. found \subseteq Present /\ UNCHANGED <<edges, passes>>
  BY DEF InHandIsPresent, InHand, Recall
<1>4. \A n \in found : /\ rows[n] = node[n] /\ rows[n] \in Row /\ rows[n].charged <= now
                       /\ rows[n].supersededBy = node[n].supersededBy
  <2>1. \A n \in found : node[n] \in Row /\ node[n].charged <= now
    BY <1>3 DEF Present, GraphTypes, Dated
  <2> QED
    BY <2>1
<1>5. Advances(rows, found)
  BY <1>4 DEF Advances
<1>6. cached # None => found = cached
  OBVIOUS
<1>7. cached = None => found = Matching \cap Present
  OBVIOUS
<1> HIDE DEF found, rows
<1>8. /\ node' \in [Nodes -> Row \cup {None}] /\ disk' \in [Nodes -> Row \cup {None}]
      /\ now' \in 0..MaxTime /\ unsaved' \subseteq Nodes /\ faults' \in 0..MaxFaults
      /\ Dated' /\ TableLags' /\ FaultlessIsSaved' /\ EdgesAreBacked'
      /\ \A n \in Nodes : node'[n] # disk'[n] => n \in unsaved'
      /\ Present' = Present
  BY <1>1, <1>2, <1>3, <1>4, <1>5, RewriteKeeps
<1>9. found \subseteq Nodes
  BY <1>3 DEF Present
<1>10. /\ cached' \in (SUBSET Nodes) \cup {None} /\ unflushed' \in BOOLEAN
       /\ cached' # None => cached' \subseteq Present
       /\ cached' # None => cached' = Matching \cap Present \/ unflushed'
  <2>1. CASE Done(o) /\ found # {}
    BY <1>1, <2>1 DEF Flushed
  <2>2. CASE ~(Done(o) /\ found # {})
    <3>1. cached' = found /\ unflushed' = (unflushed /\ cached # None)
      BY <1>1, <2>2
    <3>2. unflushed' \in BOOLEAN
      BY <3>1
    <3>3. found = Matching \cap Present \/ (unflushed /\ cached # None)
      BY <1>6, <1>7 DEF CopiesAgree
    <3> QED
      BY <1>3, <1>9, <3>1, <3>2, <3>3
  <2> QED
    BY <2>1, <2>2
<1>11. pass' = pass
  BY <1>1 DEF Stored
<1>12. confirmed' \in Present \cup {None} /\ confirmed' \in Nodes \cup {None}
  BY <1>1, <1>3, <1>9
<1>13. InHandIsPresent' /\ GraphTypes'
  BY <1>3, <1>8, <1>10, <1>11, <1>12 DEF InHandIsPresent, InHand, GraphTypes
<1> QED
  BY <1>8, <1>10, <1>13 DEF CopiesAgree

\* A method that rewrites the one row n and then ends, for a confirmation or the dream.
LEMMA OneRowStep ==
  ASSUME IInv, NEW n \in Present, NEW row \in Row, row.charged <= now,
         row.supersededBy = node[n].supersededBy,
         NEW o \in Outcomes({n}), NEW p, NEW reached \in BOOLEAN,
         Stored([k \in {n} |-> row], o, p), Flushed(reached),
         UNCHANGED <<edges, passes>>, confirmed' \in {None, confirmed},
         p = None \/ p \in [at : 0..MaxTime, todo : SUBSET Candidates],
         p # None => \A c \in p.todo : InHand(c)
  PROVE  IInv'
<1> USE GraphAssumption DEF IInv, GraphHoldsTogether
<1> DEFINE rows == [k \in {n} |-> row]
<1>1. rows[n] = row /\ {n} \subseteq Present
  OBVIOUS
<1>2. Advances(rows, {n})
  BY <1>1 DEF Advances
<1>3. Stored(rows, o, p) /\ \A k \in {n} : rows[k].supersededBy = node[k].supersededBy
  BY <1>1
<1> HIDE DEF rows
<1>4. /\ node' \in [Nodes -> Row \cup {None}] /\ disk' \in [Nodes -> Row \cup {None}]
      /\ now' \in 0..MaxTime /\ unsaved' \subseteq Nodes /\ faults' \in 0..MaxFaults
      /\ Dated' /\ TableLags' /\ FaultlessIsSaved' /\ EdgesAreBacked'
      /\ \A k \in Nodes : node'[k] # disk'[k] => k \in unsaved'
      /\ Present' = Present
  BY <1>1, <1>2, <1>3, RewriteKeeps
<1>5. /\ cached' \in (SUBSET Nodes) \cup {None} /\ unflushed' \in BOOLEAN
      /\ cached' # None => cached' \subseteq Present'
      /\ cached' # None => cached' = (Matching \cap Present)' \/ unflushed'
  BY <1>4, FlushKeeps
<1>6. pass' = p
  BY DEF Stored
<1>7. InHandIsPresent' /\ GraphTypes'
  BY <1>4, <1>5, <1>6 DEF InHandIsPresent, InHand, GraphTypes
<1> QED
  BY <1>4, <1>5, <1>7 DEF CopiesAgree

LEMMA ConfirmStep ==
  ASSUME IInv, Confirm
  PROVE  IInv'
<1>1. confirmed \in Present
  BY DEF Confirm, IInv, InHandIsPresent, InHand
<1>2. PICK i \in Nearby(confirmed) : \E o \in RowOutcomes({confirmed}) :
        /\ Stored([n \in {confirmed} |-> Reinforced(n, i, now)], o, pass)
        /\ Flushed(Done(o))
  BY DEF Confirm
<1>3. PICK o \in RowOutcomes({confirmed}) :
        /\ Stored([n \in {confirmed} |-> Reinforced(n, i, now)], o, pass)
        /\ Flushed(Done(o))
  BY <1>2
<1>4. o \in Outcomes({confirmed}) /\ Done(o) \in BOOLEAN
  BY RowOutcomeIsOf, OutcomeIsOf DEF Done
<1>5. i \in Levels /\ now \in 0..MaxTime
  BY DEF Nearby, IInv, GraphTypes
<1> DEFINE row == Reinforced(confirmed, i, now)
<1>6. row \in Row /\ row.charged <= now /\ row.supersededBy = node[confirmed].supersededBy
  BY <1>1, <1>5, ChangedRow DEF Reinforced, IInv
<1>7. [n \in {confirmed} |-> Reinforced(n, i, now)] = [n \in {confirmed} |-> row]
  OBVIOUS
<1>8. Stored([n \in {confirmed} |-> row], o, pass)
  BY <1>3, <1>7
<1>9. UNCHANGED <<edges, passes>> /\ confirmed' = None
  BY DEF Confirm
<1>10. /\ pass = None \/ pass \in [at : 0..MaxTime, todo : SUBSET Candidates]
       /\ pass # None => \A c \in pass.todo : InHand(c)
  BY DEF IInv, GraphTypes, InHandIsPresent, InHand
<1> HIDE DEF row
<1> QED
  BY <1>1, <1>3, <1>4, <1>6, <1>8, <1>9, <1>10, OneRowStep

-----------------------------------------------------------------------------
(* The dream. *)

LEMMA LeftIsOfPass ==
  ASSUME IInv, pass # None, NEW c \in pass.todo, NEW rest \in SUBSET Candidates,
         \A d \in rest : InHand(d),
         NEW p, p = Left(After(c) \cup rest)
  PROVE  /\ p = None \/ p \in [at : 0..MaxTime, todo : SUBSET Candidates]
         /\ p # None => \A d \in p.todo : InHand(d)
<1>1. pass \in [at : 0..MaxTime, todo : SUBSET Candidates]
      /\ \A d \in pass.todo : InHand(d)
  BY DEF IInv, GraphTypes, InHandIsPresent, InHand
<1>2. After(c) \subseteq pass.todo
  BY DEF After
<1>3. p = None \/ p = [pass EXCEPT !.todo = After(c) \cup rest]
  BY DEF Left
<1>4. After(c) \cup rest \in SUBSET Candidates
  BY <1>1, <1>2
<1> QED
  BY <1>1, <1>2, <1>3, <1>4

LEMMA CandidateKinds ==
  /\ \A c \in Candidates : /\ c.kind = "recall" => c.id \in Nodes
                           /\ c.kind \in {"pair", "right"} => c.left \in Nodes /\ c.right \in Nodes
                           /\ c.kind = "right" => c.delta \in BOOLEAN
  /\ \A c \in Candidates : c.kind \in {"recall", "pair", "right"}
BY DEF Candidates, Recalls, Pairs, Rights

LEMMA DreamStartStep ==
  ASSUME IInv, DreamStart
  PROVE  IInv'
<1> USE GraphAssumption DEF IInv
<1>1. PICK extremes \in Extremes : \E pairs \in FirstOf(Contradictions, RoomForPairs) :
        LET todo == {[kind |-> "recall", id |-> n] : n \in extremes} \cup pairs
        IN  todo # {} /\ pass' = [at |-> now, todo |-> todo]
  BY DEF DreamStart
<1>2. PICK pairs \in FirstOf(Contradictions, RoomForPairs) :
        pass' = [at |-> now, todo |-> {[kind |-> "recall", id |-> n] : n \in extremes} \cup pairs]
  BY <1>1
<1>3. extremes \subseteq Nodes
  <2>1. PICK tops \in FirstOf(Present, RecallN), bottoms \in FirstOf(Present, RecallN) :
           extremes \in FirstOf(tops \cup bottoms, DreamCap)
    BY DEF Extremes
  <2>2. tops \subseteq Nodes /\ bottoms \subseteq Nodes
    BY DEF FirstOf, Present
  <2> QED
    BY <2>1, <2>2 DEF FirstOf
<1>4. pairs \subseteq Pairs /\ \A c \in pairs : c.left # c.right
  <2>1. Contradictions \subseteq Pairs /\ \A c \in Contradictions : c.left # c.right
    <3>1. ASSUME NEW q \in Alike
          PROVE  [kind |-> "pair", left |-> q[1], right |-> q[2],
                  signal |-> node[q[1]].contradicted \/ node[q[2]].contradicted \/ q \in Close] \in Pairs
      <4>1. q[1] \in Nodes /\ q[2] \in Nodes
        OBVIOUS
      <4>2. (node[q[1]].contradicted \/ node[q[2]].contradicted \/ q \in Close) \in BOOLEAN
        OBVIOUS
      <4> QED
        BY <4>1, <4>2 DEF Pairs
    <3> QED
      BY <3>1 DEF Contradictions
  <2> QED
    BY <2>1 DEF FirstOf
<1>5. \A n \in extremes : [kind |-> "recall", id |-> n] \in Recalls
  BY <1>3 DEF Recalls
<1>6. /\ Recalls \cup Pairs \subseteq Candidates
      /\ \A c \in Recalls : c.kind # "right" /\ c.kind # "pair"
      /\ \A c \in Pairs : c.kind # "right"
  BY DEF Recalls, Pairs, Candidates
<1> DEFINE recalls == {[kind |-> "recall", id |-> n] : n \in extremes}
<1>7. recalls \subseteq Recalls /\ pass' = [at |-> now, todo |-> recalls \cup pairs]
  BY <1>2, <1>5
<1> HIDE DEF recalls
<1>8. /\ pass' \in [at : 0..MaxTime, todo : SUBSET Candidates]
      /\ \A c \in pass'.todo : c.kind # "right" /\ (c.kind = "pair" => c.left # c.right)
  <2>1. \A c \in recalls \cup pairs : c.kind # "right" /\ (c.kind = "pair" => c.left # c.right)
    BY <1>4, <1>6, <1>7
  <2>2. recalls \cup pairs \in SUBSET Candidates /\ now \in 0..MaxTime
    BY <1>4, <1>6, <1>7 DEF GraphTypes
  <2> QED
    BY <1>7, <2>1, <2>2
<1>9. UNCHANGED <<node, disk, now, edges, cached, confirmed, unsaved, unflushed, faults>> /\ passes' \in 0..MaxPasses
  BY DEF DreamStart, GraphTypes
<1>10. Present' = Present
  BY <1>9 DEF Present
<1>11. GraphTypes' /\ InHandIsPresent'
  BY <1>8, <1>9, <1>10 DEF GraphTypes, InHandIsPresent, InHand
<1>12. GraphHoldsTogether'
  BY <1>9, <1>10 DEF GraphHoldsTogether, CopiesAgree, EdgesAreBacked
<1> QED
  BY <1>9, <1>11, <1>12 DEF Dated, TableLags, FaultlessIsSaved

LEMMA ReinforceStep ==
  ASSUME IInv, pass # None, NEW c \in pass.todo, Reinforce(c)
  PROVE  IInv'
<1>1. c.id \in Present /\ UNCHANGED <<edges, confirmed, passes>>
  BY DEF Reinforce
<1> DEFINE n == c.id
<1>2. PICK i \in Nearby(n) : \E o \in RowOutcomes({n}) :
        /\ Stored([k \in {n} |-> Reinforced(k, i, pass.at)], o, Left(After(c)))
        /\ Flushed(Done(o))
  BY DEF Reinforce
<1>3. PICK o \in RowOutcomes({n}) :
        /\ Stored([k \in {n} |-> Reinforced(k, i, pass.at)], o, Left(After(c)))
        /\ Flushed(Done(o))
  BY <1>2
<1>4. o \in Outcomes({n}) /\ Done(o) \in BOOLEAN
  BY RowOutcomeIsOf, OutcomeIsOf DEF Done
<1>5. i \in Levels /\ pass.at \in 0..MaxTime
  BY DEF Nearby, IInv, GraphTypes
<1> DEFINE row == Reinforced(n, i, pass.at)
           p == Left(After(c))
<1>6. row \in Row /\ row.charged <= now /\ row.supersededBy = node[n].supersededBy
  BY <1>1, <1>5, ChangedRow, ZenonT(60) DEF Reinforced, IInv
<1>7. [k \in {n} |-> Reinforced(k, i, pass.at)] = [k \in {n} |-> row]
  OBVIOUS
<1>8. Stored([k \in {n} |-> row], o, p)
  BY <1>3, <1>7
<1>9. /\ p = None \/ p \in [at : 0..MaxTime, todo : SUBSET Candidates]
      /\ p # None => \A d \in p.todo : InHand(d)
  <2>1. p = Left(After(c) \cup {})
    OBVIOUS
  <2> HIDE DEF p
  <2> QED
    BY <2>1, LeftIsOfPass
<1> HIDE DEF row, p
<1> QED
  BY <1>1, <1>3, <1>4, <1>6, <1>8, <1>9, OneRowStep

LEMMA AuditedStep ==
  ASSUME IInv, pass # None, NEW c \in pass.todo, NEW n \in Present, NEW delta \in BOOLEAN,
         NEW rest \in SUBSET Candidates, \A d \in rest : InHand(d),
         Audited(c, n, delta, rest)
  PROVE  IInv'
<1> DEFINE row == [node[n] EXCEPT !.contradicted = @ \/ delta, !.updatedAt = pass.at]
<1>1. PICK o \in Outcomes({n}) :
        /\ Stored([k \in {n} |-> row], o, Left(After(c) \cup (IF Done(o) THEN rest ELSE {})))
        /\ Flushed(Done(o))
  BY DEF Audited
<1>2. UNCHANGED <<edges, confirmed, passes>> /\ Done(o) \in BOOLEAN
  BY OutcomeIsOf DEF Audited, Done
<1>3. row \in Row /\ row.charged <= now /\ row.supersededBy = node[n].supersededBy
  <2>1. n \in Nodes /\ node[n] \in Row /\ node[n].charged <= now /\ pass.at \in 0..MaxTime
    BY DEF Present, IInv, GraphTypes, Dated
  <2>2. PICK b \in BOOLEAN : b = (node[n].contradicted \/ delta)
    OBVIOUS
  <2>3. row = [node[n] EXCEPT !.contradicted = b, !.updatedAt = pass.at]
    BY <2>2, Zenon
  <2>4. \A r \in Row : LET d == [r EXCEPT !.contradicted = b, !.updatedAt = pass.at]
                      IN  d \in Row /\ d.charged = r.charged /\ d.supersededBy = r.supersededBy
    BY <2>1 DEF Row
  <2> HIDE DEF row
  <2> QED
    BY <2>1, <2>3, <2>4
<1> DEFINE p == Left(After(c) \cup (IF Done(o) THEN rest ELSE {}))
<1>4. /\ p = None \/ p \in [at : 0..MaxTime, todo : SUBSET Candidates]
      /\ p # None => \A d \in p.todo : InHand(d)
  <2>1. CASE Done(o)
    <3>1. p = Left(After(c) \cup rest)
      BY <2>1
    <3> HIDE DEF p
    <3> QED
      BY <3>1, LeftIsOfPass
  <2>2. CASE ~Done(o)
    <3>1. p = Left(After(c) \cup {})
      BY <2>2
    <3> HIDE DEF p
    <3> QED
      BY <3>1, LeftIsOfPass
  <2> QED
    BY <2>1, <2>2
<1>5. Stored([k \in {n} |-> row], o, p)
  BY <1>1
<1> HIDE DEF row, p
<1> QED
  BY <1>1, <1>2, <1>3, <1>4, <1>5, OneRowStep

LEMMA AuditStep ==
  ASSUME IInv, pass # None, NEW c \in pass.todo,
         \/ \E weaker \in {"left", "right", "both"}, delta \in BOOLEAN : Audit(c, weaker, delta)
         \/ AuditRight(c)
  PROVE  IInv'
<1>0. c \in Candidates
  BY DEF IInv, GraphTypes
<1>1. ASSUME NEW weaker \in {"left", "right", "both"}, NEW delta \in BOOLEAN, Audit(c, weaker, delta)
      PROVE  IInv'
  <2>1. c.left \in Present /\ c.right \in Present
    BY <1>1 DEF Audit
  <2>2. CASE Audited(c, c.left, delta, {}) \/ Audited(c, c.right, delta, {})
    BY <2>1, <2>2, AuditedStep
  <2>3. CASE Audited(c, c.left, delta,
               {[kind |-> "right", left |-> c.left, right |-> c.right, delta |-> delta]})
    <3> DEFINE r == [kind |-> "right", left |-> c.left, right |-> c.right, delta |-> delta]
    <3>1. {r} \in SUBSET Candidates
      <4>1. c.left \in Nodes /\ c.right \in Nodes
        BY <2>1 DEF Present
      <4> QED
        BY <4>1 DEF Candidates, Rights
    <3>2. \A d \in {r} : InHand(d)
      BY <2>1 DEF InHand
    <3>3. Audited(c, c.left, delta, {r})
      BY <2>3
    <3> HIDE DEF r
    <3> QED
      BY <2>1, <3>1, <3>2, <3>3, AuditedStep
  <2> QED
    BY <1>1, <2>2, <2>3 DEF Audit
<1>2. CASE AuditRight(c)
  <2>1. c.kind = "right" /\ Audited(c, c.right, c.delta, {})
    BY <1>2 DEF AuditRight
  <2>2. c.right \in Present /\ c.delta \in BOOLEAN
    BY <1>0, <2>1, CandidateKinds DEF IInv, InHandIsPresent, InHand
  <2> QED
    BY <2>1, <2>2, AuditedStep
<1> QED
  BY <1>1, <1>2

LEMMA SupersedingRows ==
  ASSUME GraphTypes, Dated, pass # None, NEW w \in Present, NEW l \in Present, w # l
  PROVE  /\ Superseding(w, l)[w] \in Row /\ Superseding(w, l)[l] \in Row
         /\ Superseding(w, l)[w].charged = node[w].charged
         /\ Superseding(w, l)[l].charged = node[l].charged
         /\ Superseding(w, l)[w].updatedAt = pass.at /\ Superseding(w, l)[l].updatedAt = pass.at
         /\ Superseding(w, l)[w].supersededBy = node[w].supersededBy
         /\ Superseding(w, l)[l].supersededBy = w
         /\ Advances(Superseding(w, l), {w, l})
<1> USE GraphAssumption
<1>1. /\ w \in Nodes /\ l \in Nodes /\ node[w] \in Row /\ node[l] \in Row /\ pass.at \in 0..MaxTime
      /\ node[w].charged <= now /\ node[l].charged <= now
  BY DEF Present, GraphTypes, Dated
<1>2. /\ Superseding(w, l)[w] = [node[w] EXCEPT !.updatedAt = pass.at]
      /\ Superseding(w, l)[l] = [node[l] EXCEPT !.supersededBy = w, !.updatedAt = pass.at]
  BY DEF Superseding
<1>3. /\ Superseding(w, l)[w] \in Row /\ Superseding(w, l)[w].charged = node[w].charged
      /\ Superseding(w, l)[w].updatedAt = pass.at
      /\ Superseding(w, l)[w].supersededBy = node[w].supersededBy
  BY <1>1, <1>2 DEF Row
<1>4. /\ Superseding(w, l)[l] \in Row /\ Superseding(w, l)[l].charged = node[l].charged
      /\ Superseding(w, l)[l].updatedAt = pass.at /\ Superseding(w, l)[l].supersededBy = w
  BY <1>1, <1>2 DEF Row
<1>5. w # None
  BY <1>1
<1>6. Advances(Superseding(w, l), {w, l})
  BY <1>1, <1>3, <1>4, <1>5 DEF Advances
<1> QED
  BY <1>3, <1>4, <1>6

LEMMA ReconsolidateStep ==
  ASSUME IInv, pass # None, NEW c \in pass.todo, NEW w \in Nodes, Reconsolidate(c, w), c.left # c.right
  PROVE  IInv'
<1> USE GraphAssumption DEF IInv, GraphHoldsTogether
<1> DEFINE l == IF w = c.left THEN c.right ELSE c.left
           rows == Superseding(w, l)
           ids == {w, l}
           p == Left(After(c))
           link == [edge |-> "supersedes", from |-> w, to |-> l]
<1>1. w \in Present /\ l \in Present /\ w # l /\ UNCHANGED <<confirmed, passes>>
  BY DEF Reconsolidate
<1>2. PICK o \in Outcomes(ids) :
        /\ l \in o.saved \cup o.lost => w \in o.saved
        /\ Stored(rows, o, p) /\ Linked(o, link) /\ Flushed(Done(o))
  BY DEF Reconsolidate
<1>3. /\ rows[w] \in Row /\ rows[l] \in Row
      /\ rows[w].supersededBy = node[w].supersededBy
      /\ rows[l].supersededBy = w
      /\ Advances(rows, ids)
  BY <1>1, SupersedingRows
<1>4. /\ p = None \/ p \in [at : 0..MaxTime, todo : SUBSET Candidates]
      /\ p # None => \A d \in p.todo : InHand(d)
  <2>1. p = Left(After(c) \cup {})
    OBVIOUS
  <2> HIDE DEF p
  <2> QED
    BY <2>1, LeftIsOfPass
<1>5. ids \subseteq Present /\ ids \subseteq Nodes /\ l \in Nodes /\ l \in ids /\ w \in ids
  BY <1>1 DEF Present
<1> HIDE DEF l, rows, ids, p
<1>6. /\ node' \in [Nodes -> Row \cup {None}] /\ disk' \in [Nodes -> Row \cup {None}]
      /\ now' \in 0..MaxTime /\ unsaved' \subseteq Nodes /\ faults' \in 0..MaxFaults
      /\ Dated' /\ TableLags' /\ FaultlessIsSaved'
      /\ \A k \in Nodes : node'[k] # disk'[k] => k \in unsaved'
      /\ Present' = Present \cup o.saved \cup o.lost
      /\ \A k \in Nodes : disk[k] # None =>
            disk'[k] # None /\ (disk[k].supersededBy # None => disk'[k].supersededBy # None)
      /\ faults' = 0 => o.linked /\ faults = 0
  BY <1>2, <1>3, <1>5, WriteKeeps
<1>7. Present' = Present
  BY <1>5, <1>6, OutcomeIsOf
<1>8. o.linked => /\ o.saved = ids /\ disk'[w] = rows[w] /\ disk'[l] = rows[l]
                 /\ \A k \in Nodes \ ids : disk'[k] = disk[k]
  <2>1. SUFFICES ASSUME o.linked
                 PROVE /\ o.saved = ids /\ disk'[w] = rows[w] /\ disk'[l] = rows[l]
                       /\ \A k \in Nodes \ ids : disk'[k] = disk[k]
    OBVIOUS
  <2>2. o.saved = ids /\ o.lost = {}
    BY <2>1, OutcomeIsOf
  <2> QED
    BY <1>2, <1>5, <2>2, StoredRows
<1>9. edges' \subseteq Edges /\ (o.linked => edges' = edges \cup {link}) /\ (~o.linked => edges' = edges)
  BY <1>2, <1>5 DEF Linked, Edges, GraphTypes
<1>10. EdgesAreBacked'
  <2>1. ASSUME NEW e \in edges'
        PROVE  /\ e.edge = "consolidated_into" => disk'[e.to] # None
               /\ e.edge = "supersedes" => disk'[e.from] # None /\ disk'[e.to] # None
                                           /\ disk'[e.to].supersededBy # None
    <3>1. CASE e \in edges
      BY <1>6, <3>1, EdgesStayBacked
    <3>2. CASE e \notin edges
      BY <1>3, <1>8, <1>9, <3>2
    <3> QED
      BY <3>1, <3>2
  <2>2. ASSUME faults' = 0, NEW k \in Nodes, disk'[k] # None, disk'[k].supersededBy # None
        PROVE  [edge |-> "supersedes", from |-> disk'[k].supersededBy, to |-> k] \in edges'
    <3>1. o.linked /\ faults = 0 /\ \A m \in Nodes : node[m] = disk[m]
      BY <1>6, <2>2 DEF FaultlessIsSaved, CopiesAgree
    <3>2. CASE k = l
      BY <1>3, <1>8, <1>9, <3>1, <3>2
    <3>3. CASE k # l
      <4>1. disk[k] # None /\ disk'[k].supersededBy = disk[k].supersededBy
        <5>1. CASE k = w
          BY <1>1, <1>3, <1>8, <3>1, <5>1 DEF Present
        <5>2. CASE k # w
          BY <1>8, <2>2, <3>1, <3>3, <5>2 DEF ids
        <5> QED
          BY <5>1, <5>2
      <4> QED
        BY <1>9, <2>2, <3>1, <4>1 DEF EdgesAreBacked
    <3> QED
      BY <3>2, <3>3
  <2> QED
    BY <2>1, <2>2 DEF EdgesAreBacked
<1>11. /\ cached' \in (SUBSET Nodes) \cup {None} /\ unflushed' \in BOOLEAN
       /\ cached' # None => cached' \subseteq Present'
       /\ cached' # None => cached' = (Matching \cap Present)' \/ unflushed'
  BY <1>2, <1>7, FlushKeeps, OutcomeIsOf DEF Done
<1>12. pass' = p
  BY <1>2 DEF Stored
<1>13. InHandIsPresent' /\ GraphTypes'
  BY <1>1, <1>4, <1>6, <1>7, <1>9, <1>11, <1>12 DEF InHandIsPresent, InHand, GraphTypes
<1> QED
  BY <1>6, <1>10, <1>11, <1>13 DEF CopiesAgree

\* What only forgets: the end of a pass, the clock, a restart.
LEMMA DreamEndsStep ==
  ASSUME IInv, DreamEnds
  PROVE  IInv'
<1> USE DEF IInv
<1>1. pass' = None /\ UNCHANGED <<node, disk, now, edges, cached, confirmed, unsaved, unflushed, faults, passes>>
  BY DEF DreamEnds
<1>2. Present' = Present
  BY <1>1 DEF Present
<1>3. GraphTypes' /\ Dated' /\ TableLags' /\ InHandIsPresent' /\ FaultlessIsSaved'
  BY <1>1, <1>2 DEF GraphTypes, Dated, TableLags, InHandIsPresent, FaultlessIsSaved
<1>4. GraphHoldsTogether'
  BY <1>1, <1>2 DEF GraphHoldsTogether, CopiesAgree, EdgesAreBacked
<1> QED
  BY <1>3, <1>4

LEMMA TickStep ==
  ASSUME IInv, Tick
  PROVE  IInv'
<1> USE GraphAssumption DEF IInv
<1>1. /\ now' = now + 1 /\ now < MaxTime /\ cached' \in {cached, None}
      /\ unflushed' = (unflushed /\ cached' # None)
      /\ UNCHANGED <<node, disk, edges, pass, confirmed, unsaved, faults, passes>>
  BY DEF Tick
<1>2. Present' = Present
  BY <1>1 DEF Present
<1>3. GraphTypes'
  <2>1. unflushed' \in BOOLEAN
    BY <1>1
  <2> QED
    BY <1>1, <2>1 DEF GraphTypes
<1>4. Dated'
  <2>1. \A r \in Row : r.charged \in Int
    BY DEF Row
  <2> QED
    BY <1>1, <2>1 DEF Dated, GraphTypes
<1>5. TableLags' /\ InHandIsPresent' /\ FaultlessIsSaved'
  BY <1>1, <1>2 DEF TableLags, InHandIsPresent, InHand, FaultlessIsSaved
<1>6. CopiesAgree'
  <2>1. CASE cached' = None
    BY <1>1, <2>1 DEF GraphHoldsTogether, CopiesAgree
  <2>2. CASE cached' = cached /\ cached # None
    BY <1>1, <1>2, <2>2 DEF GraphHoldsTogether, CopiesAgree
  <2> QED
    BY <1>1, <2>1, <2>2
<1>7. EdgesAreBacked'
  BY <1>1 DEF GraphHoldsTogether, EdgesAreBacked
<1> QED
  BY <1>3, <1>4, <1>5, <1>6, <1>7 DEF GraphHoldsTogether

LEMMA RestartStep ==
  ASSUME IInv, Restart
  PROVE  IInv'
<1> USE GraphAssumption DEF IInv
<1>1. /\ faults < MaxFaults /\ faults' = faults + 1 /\ node' = disk
      /\ pass' = None /\ cached' = None /\ confirmed' = None /\ unsaved' = {} /\ unflushed' = FALSE
      /\ UNCHANGED <<disk, edges, now, passes>>
  BY DEF Restart
<1>2. GraphTypes'
  <2>1. faults' \in 0..MaxFaults
    BY <1>1 DEF GraphTypes
  <2>2. cached' \in (SUBSET Nodes) \cup {None} /\ confirmed' \in Nodes \cup {None} /\ unsaved' \subseteq Nodes
    BY <1>1
  <2> QED
    BY <1>1, <2>1, <2>2 DEF GraphTypes
<1>3. Dated' /\ TableLags' /\ InHandIsPresent'
  BY <1>1 DEF Dated, TableLags, InHandIsPresent
<1>4. faults' # 0 /\ FaultlessIsSaved'
  BY <1>1 DEF GraphTypes, FaultlessIsSaved
<1>5. GraphHoldsTogether'
  BY <1>1, <1>4 DEF GraphHoldsTogether, CopiesAgree, EdgesAreBacked
<1> QED
  BY <1>2, <1>3, <1>4, <1>5

-----------------------------------------------------------------------------
(* All steps. *)

LEMMA InitHolds == Init => IInv
<1> SUFFICES ASSUME Init PROVE IInv
  OBVIOUS
<1>1. GraphTypes
  <2>1. /\ node \in [Nodes -> Row \cup {None}] /\ disk \in [Nodes -> Row \cup {None}]
        /\ edges \subseteq Edges /\ unsaved \subseteq Nodes
    BY DEF Init
  <2>2. 0 \in 0..MaxTime /\ 0 \in 0..MaxFaults /\ 0 \in 0..MaxPasses
    BY GraphAssumption
  <2> QED
    BY <2>1, <2>2 DEF Init, GraphTypes
<1>2. Dated /\ TableLags /\ InHandIsPresent /\ FaultlessIsSaved
  BY DEF Init, Dated, TableLags, InHandIsPresent, FaultlessIsSaved
<1>3. GraphHoldsTogether
  BY DEF Init, GraphHoldsTogether, CopiesAgree, EdgesAreBacked
<1> QED
  BY <1>1, <1>2, <1>3 DEF IInv

LEMMA StutterKeeps ==
  ASSUME IInv, UNCHANGED <<node, disk, edges, cached, pass, confirmed, now, unsaved, unflushed,
                           faults, passes>>
  PROVE  IInv'
<1> USE DEF IInv
<1>1. Present' = Present
  BY DEF Present
<1>2. GraphTypes' /\ Dated' /\ TableLags' /\ InHandIsPresent' /\ FaultlessIsSaved'
  BY <1>1 DEF GraphTypes, Dated, TableLags, InHandIsPresent, InHand, FaultlessIsSaved
<1>3. GraphHoldsTogether'
  BY <1>1 DEF GraphHoldsTogether, CopiesAgree, EdgesAreBacked
<1> QED
  BY <1>2, <1>3

LEMMA NextKeeps == IInv /\ [Next]_vars => IInv'
<1> SUFFICES ASSUME IInv, [Next]_vars PROVE IInv'
  OBVIOUS
<1>1. ASSUME NEW n \in Nodes, NEW i \in Levels, Promote(n, i) PROVE IInv'
  BY <1>1, PromoteStep
<1>2. CASE Sweep
  BY <1>2, SweepStep
<1>3. CASE Recall
  BY <1>3, RecallStep
<1>4. CASE Confirm
  BY <1>4, ConfirmStep
<1>5. CASE DreamStart
  BY <1>5, DreamStartStep
<1>6. CASE DreamEnds
  BY <1>6, DreamEndsStep
<1>7. ASSUME pass # None, NEW c \in pass.todo, Reinforce(c) PROVE IInv'
  BY <1>7, ReinforceStep
<1>8. ASSUME pass # None, NEW c \in pass.todo,
             \/ \E weaker \in {"left", "right", "both"}, delta \in BOOLEAN : Audit(c, weaker, delta)
             \/ AuditRight(c)
      PROVE  IInv'
  BY <1>8, AuditStep
<1>9. ASSUME pass # None, NEW c \in pass.todo, NEW w \in Nodes, Reconsolidate(c, w) PROVE IInv'
  <2>1. c.left # c.right
    BY <1>9 DEF IInv, InHandIsPresent, InHand, Reconsolidate
  <2> QED
    BY <1>9, <2>1, ReconsolidateStep
<1>10. CASE Tick
  BY <1>10, TickStep
<1>11. CASE Restart
  BY <1>11, RestartStep
<1>12. CASE UNCHANGED <<node, disk, edges, cached, pass, confirmed, now, unsaved, unflushed,
                         faults, passes>>
  BY <1>12, StutterKeeps
<1> QED
  BY <1>1, <1>2, <1>3, <1>4, <1>5, <1>6, <1>7, <1>8, <1>9, <1>10, <1>11, <1>12
     DEF Next, Dream, Track, Stop, vars

THEOREM Invariant == Spec => []IInv
BY InitHolds, NextKeeps, PTL DEF Spec

\* The rows, the edges, the cache and a pass of the dream keep the shape the store gives them.
THEOREM TypeCorrect == Spec => []TypeOK
<1> DEFINE Known == owner \in {"unknown", "tracked", "stopped"}
<1>1. Init => Known
  BY DEF Init
<1>2. Known /\ [Next]_vars => Known'
  BY DEF Next, vars, Promote, Sweep, Recall, Confirm, Dream, DreamStart, DreamEnds, Reinforce, Audit,
         AuditRight, Audited, Reconsolidate, Track, Stop, Tick, Restart
<1>3. IInv /\ Known => TypeOK
  BY DEF IInv, TypeOK
<1> QED
  BY <1>1, <1>2, <1>3, Invariant, PTL DEF Spec

\* Whatever statements threw and wherever the process ended: the Map, the table and the
\* cached recall agree as far as nothing has failed, and an edge finds its rows in the table.
THEOREM HoldsTogether == Spec => []GraphHoldsTogether
<1>1. IInv => GraphHoldsTogether
  BY DEF IInv
<1> QED
  BY <1>1, Invariant, PTL

-----------------------------------------------------------------------------
(* The dates of the rows. *)

\* What may date the row of n behind the sweep that charged it.
BackDated(n) ==
    \/ Overcharged(node[n]) \/ Overcharged(disk[n])
    \/ pass # None /\ node[n] # None /\ pass.at < node[n].charged

NoneDatedBack == \A n \in Nodes : Overcharged(node'[n]) => BackDated(n)

LEMMA RowsDate ==
  ASSUME NEW ids, ids \subseteq Nodes, NEW o \in Outcomes(ids), NEW rows, NEW p,
         Stored(rows, o, p), \A n \in ids : Overcharged(rows[n]) => BackDated(n)
  PROVE  NoneDatedBack
<1>1. /\ \A n \in o.saved \cup o.lost : node'[n] = rows[n] /\ n \in ids
      /\ \A n \in Nodes \ (o.saved \cup o.lost) : node'[n] = node[n]
  BY StoredRows, OutcomeIsOf
<1> SUFFICES ASSUME NEW n \in Nodes, Overcharged(node'[n]) PROVE BackDated(n)
  BY DEF NoneDatedBack
<1>2. CASE n \in o.saved \cup o.lost
  BY <1>1, <1>2
<1>3. CASE n \notin o.saved \cup o.lost
  <2>1. Overcharged(node[n])
    BY <1>1, <1>3
  <2> QED
    BY <2>1 DEF BackDated
<1> QED
  BY <1>2, <1>3

\* A row that a dream dates to the start of its pass.
LEMMA DreamDates ==
  ASSUME pass # None, NEW n \in Nodes, node[n] # None, NEW row,
         row.charged = node[n].charged, row.updatedAt = pass.at
  PROVE  Overcharged(row) => BackDated(n)
BY DEF Overcharged, BackDated

LEMMA StoreDates ==
  ASSUME IInv,
         \/ \E n \in Nodes, i \in Levels : Promote(n, i)
         \/ Sweep
         \/ Recall
         \/ Confirm
  PROVE  NoneDatedBack
<1> USE GraphAssumption DEF IInv
<1>0. now \in 0..MaxTime
  BY DEF GraphTypes
<1>1. ASSUME NEW n \in Nodes, NEW i \in Levels, Promote(n, i) PROVE NoneDatedBack
  <2> DEFINE row == [importance |-> i, updatedAt |-> now, charged |-> now,
                     contradicted |-> FALSE, supersededBy |-> None]
             rows == [k \in {n} |-> row]
  <2>1. PICK o \in Outcomes({n}) : Stored(rows, o, pass)
    BY <1>1 DEF Promote
  <2>2. \A k \in {n} : ~Overcharged(rows[k])
    BY <1>0 DEF Overcharged
  <2> HIDE DEF row, rows
  <2> QED
    BY <2>1, <2>2, RowsDate
<1>2. CASE Sweep
  <2>1. PICK batch \in Oldest : \E o \in RowOutcomes({n \in batch : Decays(n)}) :
           Stored([n \in {n \in batch : Decays(n)} |-> Decayed(n)], o, pass)
    BY <1>2 DEF Sweep
  <2> DEFINE changed == {n \in batch : Decays(n)}
             rows == [n \in changed |-> Decayed(n)]
  <2>2. PICK o \in RowOutcomes(changed) : Stored(rows, o, pass)
    BY <2>1
  <2>3. o \in Outcomes(changed) /\ changed \subseteq Nodes
    BY RowOutcomeIsOf DEF Oldest, Present
  <2>4. \A n \in changed : ~Overcharged(rows[n])
    <3>1. SUFFICES ASSUME NEW n \in changed PROVE ~Overcharged(Decayed(n))
      OBVIOUS
    <3>2. node[n] \in Row
      BY DEF Oldest, Present, GraphTypes
    <3>3. \A r \in Row : \A i : LET d == [r EXCEPT !.importance = i, !.updatedAt = now, !.charged = now]
                               IN  d.updatedAt = now /\ d.charged = now
      BY DEF Row
    <3>4. Decayed(n).updatedAt = now /\ Decayed(n).charged = now
      BY <3>2, <3>3 DEF Decayed
    <3> QED
      BY <1>0, <3>4 DEF Overcharged
  <2> HIDE DEF changed, rows
  <2> QED
    BY <2>2, <2>3, <2>4, RowsDate
<1>3. CASE Recall
  <2> DEFINE found == IF cached # None THEN cached ELSE Matching \cap Present
             rows == [n \in found |-> node[n]]
  <2>1. PICK o \in RowOutcomes(found) : Stored(rows, o, pass)
    BY <1>3 DEF Recall
  <2>2. o \in Outcomes(found) /\ found \subseteq Nodes
    BY RowOutcomeIsOf DEF Present, InHandIsPresent
  <2>3. \A n \in found : Overcharged(rows[n]) => BackDated(n)
    BY DEF BackDated
  <2> HIDE DEF found, rows
  <2> QED
    BY <2>1, <2>2, <2>3, RowsDate
<1>4. CASE Confirm
  <2>1. confirmed # None /\ confirmed \in Present
    BY <1>4 DEF Confirm, InHandIsPresent
  <2>2. PICK i \in Nearby(confirmed) : \E o \in RowOutcomes({confirmed}) :
           Stored([n \in {confirmed} |-> Reinforced(n, i, now)], o, pass)
    BY <1>4 DEF Confirm
  <2> DEFINE rows == [n \in {confirmed} |-> Reinforced(n, i, now)]
  <2>3. PICK o \in RowOutcomes({confirmed}) : Stored(rows, o, pass)
    BY <2>2
  <2>4. o \in Outcomes({confirmed}) /\ {confirmed} \subseteq Nodes
    BY <2>1, RowOutcomeIsOf DEF Present
  <2>5. \A n \in {confirmed} : ~Overcharged(rows[n])
    <3>1. node[confirmed] \in Row /\ node[confirmed].charged <= now
      BY <2>1 DEF Present, GraphTypes, Dated
    <3>2. /\ Reinforced(confirmed, i, now).updatedAt = now
          /\ Reinforced(confirmed, i, now).charged = node[confirmed].charged
      BY <3>1 DEF Reinforced, Row
    <3>3. rows[confirmed] = Reinforced(confirmed, i, now) /\ node[confirmed].charged \in Int
      BY <3>1 DEF Row
    <3> HIDE DEF rows
    <3> QED
      BY <1>0, <3>1, <3>2, <3>3 DEF Overcharged
  <2> HIDE DEF rows
  <2> QED
    BY <2>3, <2>4, <2>5, RowsDate
<1> QED
  BY <1>1, <1>2, <1>3, <1>4

LEMMA AuditedDates ==
  ASSUME IInv, pass # None, NEW c, NEW n \in Present, NEW delta, NEW rest, Audited(c, n, delta, rest)
  PROVE  NoneDatedBack
<1> DEFINE row == [node[n] EXCEPT !.contradicted = @ \/ delta, !.updatedAt = pass.at]
           rows == [k \in {n} |-> row]
<1>1. PICK o \in Outcomes({n}) : Stored(rows, o, Left(After(c) \cup (IF Done(o) THEN rest ELSE {})))
  BY DEF Audited
<1>2. n \in Nodes /\ node[n] \in Row /\ node[n] # None
  BY GraphAssumption DEF Present, IInv, GraphTypes
<1>3. row.charged = node[n].charged /\ row.updatedAt = pass.at
  <2>1. \A r \in Row : \A b : LET d == [r EXCEPT !.contradicted = b, !.updatedAt = pass.at]
                             IN  d.charged = r.charged /\ d.updatedAt = pass.at
    BY DEF Row
  <2>2. PICK b : b = (node[n].contradicted \/ delta)
    OBVIOUS
  <2>3. row = [node[n] EXCEPT !.contradicted = b, !.updatedAt = pass.at]
    BY <2>2, Zenon
  <2> HIDE DEF row
  <2> QED
    BY <1>2, <2>1, <2>3
<1> HIDE DEF row
<1>4. \A k \in {n} : Overcharged(rows[k]) => BackDated(k)
  BY <1>2, <1>3, DreamDates
<1> HIDE DEF rows
<1> QED
  BY <1>1, <1>2, <1>4, RowsDate

LEMMA DreamingDates ==
  ASSUME IInv, pass # None, NEW c \in pass.todo,
         \/ Reinforce(c)
         \/ \E weaker \in {"left", "right", "both"}, delta \in BOOLEAN : Audit(c, weaker, delta)
         \/ AuditRight(c)
         \/ \E winner \in Nodes : Reconsolidate(c, winner)
  PROVE  NoneDatedBack
<1> USE GraphAssumption DEF IInv
<1>0. c \in Candidates /\ InHand(c)
  BY DEF GraphTypes, InHandIsPresent
<1>1. CASE Reinforce(c)
  <2> DEFINE n == c.id
  <2>1. n \in Nodes /\ node[n] \in Row /\ node[n] # None
    BY <1>1 DEF Reinforce, Present, GraphTypes
  <2>2. PICK i \in Nearby(n) : \E o \in RowOutcomes({n}) :
          Stored([k \in {n} |-> Reinforced(k, i, pass.at)], o, Left(After(c)))
    BY <1>1 DEF Reinforce
  <2> DEFINE rows == [k \in {n} |-> Reinforced(k, i, pass.at)]
  <2>3. PICK o \in RowOutcomes({n}) : Stored(rows, o, Left(After(c)))
    BY <2>2
  <2>4. o \in Outcomes({n})
    BY RowOutcomeIsOf
  <2>5. /\ Reinforced(n, i, pass.at).charged = node[n].charged
        /\ Reinforced(n, i, pass.at).updatedAt = pass.at
    BY <2>1 DEF Reinforced, Row
  <2>6. \A k \in {n} : Overcharged(rows[k]) => BackDated(k)
    BY <2>1, <2>5, DreamDates
  <2> HIDE DEF n, rows
  <2> QED
    BY <2>1, <2>3, <2>4, <2>6, RowsDate
<1>2. ASSUME NEW weaker \in {"left", "right", "both"}, NEW delta \in BOOLEAN, Audit(c, weaker, delta)
      PROVE  NoneDatedBack
  <2>1. c.left \in Present /\ c.right \in Present
    BY <1>2 DEF Audit
  <2>2. PICK n \in {c.left, c.right}, rest \in {{}, {[kind |-> "right", left |-> c.left,
                                                      right |-> c.right, delta |-> delta]}} :
           Audited(c, n, delta, rest)
    BY <1>2 DEF Audit
  <2> QED
    BY <2>1, <2>2, AuditedDates
<1>3. CASE AuditRight(c)
  <2>1. Audited(c, c.right, c.delta, {}) /\ c.right \in Present
    BY <1>0, <1>3 DEF AuditRight, InHand
  <2> QED
    BY <2>1, AuditedDates
<1>4. ASSUME NEW w \in Nodes, Reconsolidate(c, w) PROVE NoneDatedBack
  <2> DEFINE l == IF w = c.left THEN c.right ELSE c.left
             rows == Superseding(w, l)
  <2>1. w \in Present /\ l \in Present /\ w # l
    BY <1>0, <1>4 DEF Reconsolidate, InHand
  <2>2. PICK o \in Outcomes({w, l}) : Stored(rows, o, Left(After(c)))
    BY <1>4 DEF Reconsolidate
  <2>3. /\ rows[w].charged = node[w].charged /\ rows[w].updatedAt = pass.at
        /\ rows[l].charged = node[l].charged /\ rows[l].updatedAt = pass.at
    BY <2>1, SupersedingRows
  <2>4. {w, l} \subseteq Nodes /\ node[w] # None /\ node[l] # None
    BY <2>1 DEF Present
  <2> HIDE DEF l, rows
  <2>5. \A k \in {w, l} : Overcharged(rows[k]) => BackDated(k)
    BY <2>3, <2>4, DreamDates
  <2> QED
    BY <2>2, <2>4, <2>5, RowsDate
<1> QED
  BY <1>1, <1>2, <1>3, <1>4

\* Only a pass of the dream that began before a sweep dates a row back behind that sweep
\* (or a restart or a row as it was, of one already dated back); no other writer does.
THEOREM DatesBack == Spec => OnlyADreamDatesBack
<1>1. IInv /\ [Next]_vars => [NoneDatedBack]_vars
  <2> SUFFICES ASSUME IInv, Next PROVE NoneDatedBack
    OBVIOUS
  <2>1. ASSUME UNCHANGED node PROVE NoneDatedBack
    BY <2>1 DEF NoneDatedBack, BackDated
  <2>2. CASE DreamStart \/ DreamEnds \/ Tick \/ Track \/ Stop
    BY <2>1, <2>2 DEF DreamStart, DreamEnds, Tick, Track, Stop
  <2>3. CASE Restart
    BY <2>3 DEF Restart, NoneDatedBack, BackDated
  <2> QED
    BY <2>2, <2>3, StoreDates, DreamingDates DEF Next, Dream
<1>2. [NoneDatedBack]_vars => [\A n \in Nodes : Overcharged(node'[n]) =>
        \/ Overcharged(node[n]) \/ Overcharged(disk[n])
        \/ pass # None /\ node[n] # None /\ pass.at < node[n].charged]_vars
  BY DEF NoneDatedBack, BackDated
<1> QED
  BY <1>1, <1>2, Invariant, PTL DEF Spec, OnlyADreamDatesBack
=============================================================================
