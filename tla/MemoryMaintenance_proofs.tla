------------------------ MODULE MemoryMaintenance_proofs ------------------------
(* Proofs about MemoryMaintenance, for every set of owners and episodes, whatever jobs are *)
(* configured and however many operations fail.  The worker's plan is at every step a       *)
(* suffix of the plan of its decision, which tells what it has done already; every node too *)
(* many of an episode is charged to one fault.                                              *)
EXTENDS MemoryMaintenance, SequenceTheorems, FiniteSetTheorems, TLAPS

Distinct(s) == \A i, k \in 1..Len(s) : i # k => s[i] # s[k]

\* A running job has its flag up, so no tick starts it a second time, and an owner to work
\* on.
JobsRun ==
    \A j \in Jobs : /\ pc[j] # "idle" => j \in busy
                    /\ pc[j] \notin {"idle", "owner"} => targets[j] # <<>>

\* The candidates the consolidation still has before it.
Flight == IF Con \in Jobs THEN Elements(cands[Con]) ELSE {}

\* They are all different, and were due when it listed them: none is fresh again.
CandidatesWereDue ==
    /\ Con \in Jobs => Distinct(cands[Con])
    /\ Con \in Jobs /\ pc[Con] \in {"classify", "act"} => cands[Con] # <<>>
    /\ \A e \in Flight : hot[e] \in {"due", "gone"}

Acting == Con \in Jobs /\ pc[Con] = "act"
Stages == {<<"audit", "drop">>, <<"drop">>, <<"touch", "reinforce">>, <<"reinforce">>,
           <<"episode", "node", "relate", "audit", "drop">>, <<"node", "relate", "audit", "drop">>,
           <<"relate", "audit", "drop">>}
AfterNode == {<<"relate", "audit", "drop">>, <<"audit", "drop">>, <<"drop">>}

\* What is left of the plan tells what it has left behind in the graph and the audit log.
PlanIsUnderWay ==
    Acting =>
        /\ plan.steps \in Stages /\ plan.decision \in Decisions
        /\ plan.decision = "discard" => plan.steps \in {<<"audit", "drop">>, <<"drop">>}
        /\ plan.decision = "reinforce" => plan.steps \in {<<"touch", "reinforce">>, <<"reinforce">>}
        /\ plan.steps = <<"drop">> => plan.decision \in audit[Episode]
        /\ plan.decision = "consolidate" => plan.steps \notin {<<"touch", "reinforce">>, <<"reinforce">>}
        /\ plan.decision = "consolidate" /\ plan.steps \in {<<"audit", "drop">>, <<"drop">>}
            => links[Episode] > 0
        /\ plan.steps = <<"relate", "audit", "drop">> => links[Episode] < nodes[Episode]

\* The node of the promotion under way is there.
Past(e) == Acting /\ Episode = e /\ plan.decision = "consolidate" /\ plan.steps \in AfterNode

\* One node is due to an episode whose promotion is under way or over; each further one was
\* paid for by a fault. While the store cools down the fault that opened its breaker is still
\* to be charged to every candidate in flight.
Allowed(e) == IF Past(e) \/ (hot[e] = "gone" /\ e \notin Flight) THEN 1 ELSE 0
Pending(e) == IF cooling /\ e \in Flight THEN 1 ELSE 0
NodesArePaidFor ==
    /\ faults <= MaxFaults /\ (cooling => faults < MaxFaults)
    /\ \A e \in Episodes : /\ links[e] <= nodes[e]
                           /\ nodes[e] + Pending(e) <= (MaxFaults - faults) + Allowed(e)

\* A turn needed the room of this episode in a full store, and of every one that was due.
Forced(e) ==
    /\ fate'[e] = "evicted" /\ Cardinality(Held(OwnerOf[e])) >= MaxPerOwner
    /\ \A d \in Held(OwnerOf[e]) : hot[d] = "due" => hot'[d] = "gone"

\* Without a fault everything the compression dropped is in the list of its next summary.
DroppedIsListed ==
    /\ Cmp \in Jobs /\ pc[Cmp] # "drop" => deleted = <<>>
    /\ faults = MaxFaults => \A e \in Episodes :
          fate[e] = Cmp /\ Cmp \notin audit[e] => e \in Elements(deleted)

Consolidation == CandidatesWereDue /\ PlanIsUnderWay /\ NodesArePaidFor /\ RemovalIsEvidenced
IInv == TypeOK /\ JobsRun /\ Consolidation /\ DroppedIsListed

-----------------------------------------------------------------------------
(* Sequences. *)

LEMMA TailOfDistinct ==
  ASSUME NEW S, NEW s \in Seq(S), s # <<>>
  PROVE  /\ Head(s) \in S /\ Tail(s) \in Seq(S) /\ Head(s) \in Elements(s)
         /\ Elements(s) = {Head(s)} \cup Elements(Tail(s))
         /\ Distinct(s) => Distinct(Tail(s)) /\ Head(s) \notin Elements(Tail(s))
<1>1. /\ Len(s) \in Nat \ {0} /\ Head(s) = s[1] /\ s[1] \in S /\ Tail(s) \in Seq(S)
      /\ Len(Tail(s)) = Len(s) - 1 /\ \A i \in 1..Len(s) - 1 : Tail(s)[i] = s[i + 1]
  BY HeadTailProperties, EmptySeq, LenProperties, ElementOfSeq
<1>2. Elements(s) = {Head(s)} \cup Elements(Tail(s))
  <2>1. \A i \in 1..Len(s) : i = 1 \/ (i - 1 \in 1..Len(s) - 1 /\ s[i] = Tail(s)[i - 1])
    BY <1>1
  <2>2. \A i \in 1..Len(s) - 1 : i + 1 \in 1..Len(s) /\ Tail(s)[i] = s[i + 1]
    BY <1>1
  <2>3. 1 \in 1..Len(s)
    BY <1>1
  <2>4. \A i \in 1..Len(s) : s[i] \in {Head(s)} \cup Elements(Tail(s))
    BY <1>1, <2>1 DEF Elements
  <2>5. \A i \in 1..Len(s) - 1 : Tail(s)[i] \in Elements(s)
    BY <2>2 DEF Elements
  <2>6. Head(s) \in Elements(s)
    BY <1>1, <2>3 DEF Elements
  <2> QED
    BY <1>1, <2>4, <2>5, <2>6 DEF Elements
<1>3. ASSUME Distinct(s) PROVE Distinct(Tail(s)) /\ Head(s) \notin Elements(Tail(s))
  <2>1. ASSUME NEW i \in 1..Len(Tail(s)) PROVE i + 1 \in 1..Len(s) /\ i + 1 # 1 /\ Tail(s)[i] = s[i + 1]
    BY <1>1
  <2>2. Distinct(Tail(s))
    BY <1>1, <1>3, <2>1 DEF Distinct
  <2>3. 1 \in 1..Len(s)
    BY <1>1
  <2>4. \A i \in 1..Len(Tail(s)) : Tail(s)[i] # s[1]
    BY <1>3, <2>1, <2>3 DEF Distinct
  <2> QED
    BY <1>1, <2>2, <2>4 DEF Elements
<1> QED
  BY <1>1, <1>2, <1>3

LEMMA ElementsOfAppend ==
  ASSUME NEW S, NEW s \in Seq(S), NEW x \in S
  PROVE  Append(s, x) \in Seq(S) /\ Elements(Append(s, x)) = Elements(s) \cup {x}
<1>1. /\ Append(s, x) \in Seq(S) /\ Len(Append(s, x)) = Len(s) + 1 /\ Len(s) \in Nat
      /\ \A i \in 1..Len(s) : Append(s, x)[i] = s[i]
      /\ Append(s, x)[Len(s) + 1] = x
  BY AppendProperties, LenProperties
<1>2. \A i \in 1..Len(s) + 1 : i \in 1..Len(s) \/ i = Len(s) + 1
  BY <1>1
<1>3. 1..Len(s) \subseteq 1..Len(s) + 1 /\ Len(s) + 1 \in 1..Len(s) + 1
  BY <1>1
<1> QED
  BY <1>1, <1>2, <1>3 DEF Elements

\* The plans are what their first step and the rest say.
LEMMA PlansInSteps ==
  /\ Head(<<"drop">>) = "drop" /\ Len(<<"drop">>) = 1
  /\ Head(<<"reinforce">>) = "reinforce" /\ Len(<<"reinforce">>) = 1
  /\ Head(<<"touch", "reinforce">>) = "touch" /\ Len(<<"touch", "reinforce">>) = 2
  /\ Tail(<<"touch", "reinforce">>) = <<"reinforce">>
  /\ Head(<<"audit", "drop">>) = "audit" /\ Len(<<"audit", "drop">>) = 2
  /\ Tail(<<"audit", "drop">>) = <<"drop">>
  /\ Head(<<"relate", "audit", "drop">>) = "relate" /\ Len(<<"relate", "audit", "drop">>) = 3
  /\ Tail(<<"relate", "audit", "drop">>) = <<"audit", "drop">>
  /\ Head(<<"node", "relate", "audit", "drop">>) = "node"
  /\ Len(<<"node", "relate", "audit", "drop">>) = 4
  /\ Tail(<<"node", "relate", "audit", "drop">>) = <<"relate", "audit", "drop">>
  /\ Head(<<"episode", "node", "relate", "audit", "drop">>) = "episode"
  /\ Len(<<"episode", "node", "relate", "audit", "drop">>) = 5
  /\ Tail(<<"episode", "node", "relate", "audit", "drop">>) = <<"node", "relate", "audit", "drop">>
OBVIOUS

\* Different stages are different.
LEMMA StagesDiffer ==
  /\ <<"drop">> \notin {<<"reinforce">>, <<"touch", "reinforce">>, <<"audit", "drop">>, <<"relate", "audit", "drop">>, <<"node", "relate", "audit", "drop">>, <<"episode", "node", "relate", "audit", "drop">>}
  /\ <<"reinforce">> \notin {<<"touch", "reinforce">>, <<"audit", "drop">>, <<"relate", "audit", "drop">>, <<"node", "relate", "audit", "drop">>, <<"episode", "node", "relate", "audit", "drop">>}
  /\ <<"touch", "reinforce">> \notin {<<"audit", "drop">>, <<"relate", "audit", "drop">>, <<"node", "relate", "audit", "drop">>, <<"episode", "node", "relate", "audit", "drop">>}
  /\ <<"audit", "drop">> \notin {<<"relate", "audit", "drop">>, <<"node", "relate", "audit", "drop">>, <<"episode", "node", "relate", "audit", "drop">>}
  /\ <<"relate", "audit", "drop">> \notin {<<"node", "relate", "audit", "drop">>, <<"episode", "node", "relate", "audit", "drop">>}
  /\ <<"node", "relate", "audit", "drop">> # <<"episode", "node", "relate", "audit", "drop">>
BY PlansInSteps

LEMMA LongPlans ==
  ASSUME NEW s \in Seq(Steps), Len(s) > 1
  PROVE  s # <<"drop">> /\ s # <<"reinforce">>
<1>1. Len(s) # 1
  <2>1. \A n \in Nat : n > 1 => n # 1
    OBVIOUS
  <2> QED
    BY <2>1, LenProperties, Zenon
<1>2. \A q \in {<<"drop">>, <<"reinforce">>} : Len(q) = 1
  BY PlansInSteps, Zenon
<1> QED
  BY <1>1, <1>2, Zenon

-----------------------------------------------------------------------------
(* Types. *)

PcPlaces == {"idle", "owner", "read", "classify", "act", "model", "drop"}

LEMMA NextOwnerTypes ==
  ASSUME TypeOK, NEW j \in Jobs, NextOwner(j), targets[j] # <<>>
  PROVE  /\ targets' \in [Jobs -> Seq(Owners)]
         /\ pc' \in [Jobs -> PcPlaces] /\ pc'[j] \in {"owner", "idle"}
         /\ \A k \in Jobs \ {j} : pc'[k] = pc[k]
         /\ busy' \subseteq busy /\ busy \ Raises(j) \subseteq busy'
         /\ pc'[j] = "owner" => busy' = busy
<1>1. Tail(targets[j]) \in Seq(Owners)
  BY TailOfDistinct DEF TypeOK
<1> QED
  BY <1>1 DEF NextOwner, TypeOK, PcPlaces

LEMMA StoreTypes ==
  ASSUME TypeOK, MaintenanceAssumption, NEW op \in {"touch", "reinforce", "drop"}, NEW e \in Episodes,
         NEW by \in Decisions \cup {"none", "expired", "evicted", Cmp}, StoreOk(op, e, by) \/ StoreFails(op, e, by)
  PROVE  /\ hot' \in [Episodes -> {"none", "fresh", "due", "gone"}] /\ cooling' \in BOOLEAN
         /\ fate' \in [Episodes -> Decisions \cup {"none", "expired", "evicted", Cmp}] /\ faults' \in Nat
         /\ \A d \in Episodes \ {e} : hot'[d] = hot[d] /\ fate'[d] = fate[d]
         /\ hot[e] \in {"due", "gone"} =>
               /\ op = "drop" => hot'[e] \in {hot[e], "gone"}
               /\ op = "touch" => hot'[e] = hot[e]
               /\ op = "reinforce" => hot'[e] \in {hot[e], "fresh"} /\ (hot[e] = "gone" => hot'[e] = "gone")
         /\ hot[e] \in {"none", "gone"} => hot'[e] = hot[e]
         /\ op # "drop" => fate' = fate
         /\ op = "drop" => \/ fate' = fate /\ hot' = hot
                           \/ hot'[e] = hot[e] /\ fate'[e] = fate[e] /\ ~InStore(e)
                           \/ InStore(e) /\ hot'[e] = "gone" /\ fate'[e] = by
         /\ faults' <= faults
<1>1. \/ UNCHANGED <<hot, fate>>
      \/ Applied(op, e, by)
  BY DEF StoreOk, StoreFails, store
<1>2. faults \in Nat /\ (faults' = faults \/ (faults > 0 /\ faults' = faults - 1))
  BY DEF StoreOk, StoreFails, Fault, TypeOK
<1>3. cooling' \in BOOLEAN
  BY DEF StoreOk, StoreFails, TypeOK, store
<1>4. faults' \in Nat /\ faults' <= faults
  BY <1>2
<1>5. CASE UNCHANGED <<hot, fate>>
  BY <1>3, <1>4, <1>5 DEF TypeOK
<1>6. CASE Applied(op, e, by)
  <2>1. hot \in [Episodes -> {"none", "fresh", "due", "gone"}]
        /\ fate \in [Episodes -> Decisions \cup {"none", "expired", "evicted", Cmp}]
    BY DEF TypeOK
  <2>3. CASE op = "touch"
    BY <1>3, <1>4, <1>6, <2>1, <2>3 DEF Applied
  <2>4. CASE op = "reinforce"
    BY <1>3, <1>4, <1>6, <2>1, <2>4 DEF Applied, InStore
  <2>5. CASE op = "drop"
    BY <1>3, <1>4, <1>6, <2>1, <2>5 DEF Applied, InStore
  <2> QED
    BY <2>3, <2>4, <2>5
<1> QED
  BY <1>1, <1>5, <1>6

\* What a turn's write does to the other episodes of a store.
LEMMA WriteTypes ==
  ASSUME TypeOK, NEW e \in Episodes, WriteOk(e) \/ TurnFails(e)
  PROVE  /\ hot' \in [Episodes -> {"none", "fresh", "due", "gone"}] /\ cooling' \in BOOLEAN
         /\ fate' \in [Episodes -> Decisions \cup {"none", "expired", "evicted", Cmp}]
         /\ faults' \in Nat /\ faults' <= faults
         /\ cooling' => cooling \/ faults' < faults
         /\ \A d \in Episodes :
               \/ hot'[d] = hot[d] /\ fate'[d] = fate[d]
               \/ hot[d] = "none" /\ hot'[d] = "fresh" /\ fate'[d] = fate[d]
               \/ hot'[d] = "gone" /\ fate'[d] = "evicted"
<1>1. \/ UNCHANGED <<hot, fate>>
      \/ \E n \in {Overflow(OwnerOf[e])} \cup 0..Overflow(OwnerOf[e]) :
            \E V \in Evictions(OwnerOf[e], n), w \in {{}, {e}} : Evict(V, w)
  BY DEF WriteOk, TurnFails, store
<1>2. \/ faults' = faults /\ cooling' = cooling
      \/ cooling' = TRUE /\ faults > 0 /\ faults' = faults - 1
  BY DEF WriteOk, TurnFails, store, Fault
<1>3. /\ faults' \in Nat /\ faults' <= faults /\ cooling' \in BOOLEAN
      /\ cooling' => cooling \/ faults' < faults
  <2>1. faults \in Nat /\ cooling \in BOOLEAN
    BY DEF TypeOK
  <2>2. CASE faults' = faults /\ cooling' = cooling
    BY <2>1, <2>2
  <2>3. CASE cooling' = TRUE /\ faults > 0 /\ faults' = faults - 1
    <3>1. faults' \in Nat /\ faults' <= faults /\ faults' < faults
      BY <2>1, <2>3
    <3>2. cooling' \in BOOLEAN
      BY <2>3
    <3> QED
      BY <3>1, <3>2
  <2> QED
    BY <1>2, <2>2, <2>3
<1>4. CASE UNCHANGED <<hot, fate>>
  BY <1>3, <1>4 DEF TypeOK
<1>5. ASSUME NEW n, NEW V \in Evictions(OwnerOf[e], n), NEW w \in {{}, {e}}, Evict(V, w)
      PROVE  /\ hot' \in [Episodes -> {"none", "fresh", "due", "gone"}]
             /\ fate' \in [Episodes -> Decisions \cup {"none", "expired", "evicted", Cmp}]
             /\ \A d \in Episodes :
                   \/ hot'[d] = hot[d] /\ fate'[d] = fate[d]
                   \/ hot[d] = "none" /\ hot'[d] = "fresh" /\ fate'[d] = fate[d]
                   \/ hot'[d] = "gone" /\ fate'[d] = "evicted"
  <2>1. hot[e] = "none"
    BY DEF WriteOk, TurnFails, MayWrite
  <2>2. hot \in [Episodes -> {"none", "fresh", "due", "gone"}]
        /\ fate \in [Episodes -> Decisions \cup {"none", "expired", "evicted", Cmp}]
    BY DEF TypeOK
  <2>3. hot' = [f \in Episodes |-> IF f \in w THEN "fresh" ELSE IF f \in V THEN "gone" ELSE hot[f]]
        /\ fate' = [f \in Episodes |-> IF f \in V THEN "evicted" ELSE fate[f]]
    BY <1>5 DEF Evict
  <2>4. V \subseteq Held(OwnerOf[e]) /\ e \notin V
    BY <1>5, <2>1 DEF Evictions, Held, InStore
  <2>5. /\ hot' \in [Episodes -> {"none", "fresh", "due", "gone"}]
        /\ fate' \in [Episodes -> Decisions \cup {"none", "expired", "evicted", Cmp}]
    BY <2>2, <2>3
  <2>6. ASSUME NEW d \in Episodes
        PROVE  \/ hot'[d] = hot[d] /\ fate'[d] = fate[d]
               \/ hot[d] = "none" /\ hot'[d] = "fresh" /\ fate'[d] = fate[d]
               \/ hot'[d] = "gone" /\ fate'[d] = "evicted"
    BY <2>1, <2>3, <2>4, <2>6
  <2> QED
    BY <2>5, <2>6
<1> QED
  BY <1>1, <1>3, <1>4, <1>5

LEMMA ListingIsDistinct ==
  ASSUME MaintenanceAssumption, NEW o, NEW q \in Listings(o)
  PROVE  q \in Seq(Episodes) /\ Distinct(q) /\ Elements(q) \subseteq Due(o)
<1> DEFINE n == IF Cardinality(Due(o)) < BatchSize THEN Cardinality(Due(o)) ELSE BatchSize
<1>1. Due(o) \subseteq Episodes
  BY DEF Due
<1>2. Cardinality(Due(o)) \in Nat
  BY <1>1, FS_Subset, FS_CardinalityType DEF MaintenanceAssumption
<1>3. n \in Nat
  BY <1>2 DEF MaintenanceAssumption
<1>4. q \in [1..n -> Due(o)] /\ \A i, k \in 1..n : i # k => q[i] # q[k]
  BY DEF Listings
<1> HIDE DEF n
<1>5. q \in Seq(Due(o)) /\ Len(q) = n
  BY <1>3, <1>4
<1>6. q \in Seq(Episodes)
  BY <1>1, <1>5
<1>7. Elements(q) \subseteq Due(o)
  BY <1>4, <1>5 DEF Elements
<1>8. Distinct(q)
  BY <1>4, <1>5 DEF Distinct
<1> QED
  BY <1>6, <1>7, <1>8

LEMMA NextCandidateTypes ==
  ASSUME TypeOK, Con \in Jobs, cands[Con] # <<>>, NextCandidate
  PROVE  /\ cands' \in [Jobs -> Seq(Episodes)] /\ pc' \in [Jobs -> PcPlaces]
         /\ plan' \in [decision : Decisions \cup {"none"}, steps : Seq(Steps)]
         /\ cands'[Con] = Tail(cands[Con]) /\ pc'[Con] = "read"
         /\ \A k \in Jobs \ {Con} : cands'[k] = cands[k] /\ pc'[k] = pc[k]
<1>1. Tail(cands[Con]) \in Seq(Episodes)
  BY TailOfDistinct DEF TypeOK
<1>2. <<>> \in Seq(Steps)
  BY EmptySeq
<1> QED
  BY <1>1, <1>2 DEF NextCandidate, NoPlan, TypeOK, PcPlaces

LEMMA PlanTypes ==
  /\ \A d \in Decisions : Plan(d) \in Seq(Steps) /\ Plan(d) \in Stages
  /\ Stages \subseteq Seq(Steps)
<1>1. Stages \subseteq Seq(Steps)
  BY DEF Stages, Steps
<1>2. \A d \in Decisions : Plan(d) \in Stages
  BY DEF Plan, Decisions, Stages
<1> QED
  BY <1>1, <1>2

LEMMA ActTypes ==
  ASSUME MaintenanceAssumption, TypeOK, CandidatesWereDue, PlanIsUnderWay, Con \in Jobs, Act \/ ActFails
  PROVE  TypeOK'
<1> USE MaintenanceAssumption
<1>1. /\ pc[Con] = "act" /\ cands[Con] # <<>> /\ plan.steps \in Stages /\ plan.decision \in Decisions
      /\ UNCHANGED <<owners, timers, idle, busy, targets, batch, deleted, aging>>
  BY DEF Act, ActFails, CandidatesWereDue, PlanIsUnderWay, Acting
<1>2. Episode \in Episodes
  BY <1>1, TailOfDistinct DEF Episode, TypeOK
<1>3. Head(plan.steps) \in Steps
  BY <1>1, PlansInSteps DEF Stages, Steps
<1>4. /\ hot' \in [Episodes -> {"none", "fresh", "due", "gone"}] /\ cooling' \in BOOLEAN
      /\ fate' \in [Episodes -> Decisions \cup {"none", "expired", "evicted", Cmp}] /\ faults' \in Nat
  <2>1. CASE Head(plan.steps) \in StoreOps
    BY <1>1, <1>2, <2>1, StoreTypes DEF Act, ActFails, StoreOps
  <2>2. CASE Head(plan.steps) \notin StoreOps
    BY <2>2, SMTT(30) DEF Act, ActFails, Fault, store, TypeOK
  <2> QED
    BY <2>1, <2>2
<1>5. /\ nodes' \in [Episodes -> Nat] /\ links' \in [Episodes -> Nat]
      /\ audit' \in [Episodes -> SUBSET (Decisions \cup {Cmp})]
  <2>1. CASE Act
    <3>1. nodes' \in [Episodes -> Nat]
      BY <1>2, <2>1 DEF Act, TypeOK
    <3>2. links' \in [Episodes -> Nat]
      BY <1>2, <2>1, SMTT(30) DEF Act, TypeOK
    <3>3. audit' \in [Episodes -> SUBSET (Decisions \cup {Cmp})]
      <4>1. audit[Episode] \cup {plan.decision} \in SUBSET (Decisions \cup {Cmp})
        BY <1>1, <1>2 DEF TypeOK
      <4>2. audit' = audit \/ audit' = [audit EXCEPT ![Episode] = audit[Episode] \cup {plan.decision}]
        BY <2>1 DEF Act
      <4> QED
        BY <4>1, <4>2 DEF TypeOK
    <3> QED
      BY <3>1, <3>2, <3>3
  <2>2. CASE ActFails
    BY <2>2 DEF ActFails, TypeOK, graph
  <2> QED
    BY <2>1, <2>2
<1>6. /\ cands' \in [Jobs -> Seq(Episodes)] /\ pc' \in [Jobs -> PcPlaces]
      /\ plan' \in [decision : Decisions \cup {"none"}, steps : Seq(Steps)]
  <2>1. CASE NextCandidate
    BY <1>1, <2>1, NextCandidateTypes
  <2>2. CASE ~NextCandidate
    <3>1. plan' = [plan EXCEPT !.steps = Tail(plan.steps)] /\ UNCHANGED <<pc, cands>> /\ Len(plan.steps) > 1
      BY <2>2 DEF Act, ActFails
    <3>2. Tail(plan.steps) \in Seq(Steps)
      <4>1. plan.steps \in Seq(Steps)
        BY DEF TypeOK
      <4> QED
        BY <3>1, <4>1, EmptySeq, TailOfDistinct
    <3> QED
      BY <3>1, <3>2 DEF TypeOK, PcPlaces
  <2> QED
    BY <2>1, <2>2
<1> QED
  BY <1>1, <1>4, <1>5, <1>6 DEF TypeOK, PcPlaces

LEMMA ConsolidateTypes ==
  ASSUME MaintenanceAssumption, TypeOK, JobsRun, CandidatesWereDue, PlanIsUnderWay,
         Con \in Jobs, Consolidate
  PROVE  TypeOK'
<1> USE MaintenanceAssumption
<1>1. CASE ReadCandidate
  <2>1. UNCHANGED <<owners, timers, idle, batch, deleted, store, graph, audit, aging, faults>>
    BY <1>1 DEF ReadCandidate
  <2>2. CASE cands[Con] = <<>>
    <3>1. NextOwner(Con) /\ UNCHANGED <<cands, plan>>
      BY <1>1, <2>2 DEF ReadCandidate
    <3>2. targets' \in [Jobs -> Seq(Owners)] /\ pc' \in [Jobs -> PcPlaces] /\ busy' \subseteq busy
      BY <1>1, <3>1, NextOwnerTypes DEF ReadCandidate, JobsRun
    <3> QED
      BY <2>1, <3>1, <3>2 DEF TypeOK, store, graph, PcPlaces
  <2>3. CASE cands[Con] # <<>> /\ InStore(Episode)
    BY <1>1, <2>1, <2>3 DEF ReadCandidate, TypeOK, store, graph
  <2>4. CASE cands[Con] # <<>> /\ ~InStore(Episode)
    BY <1>1, <2>1, <2>4, NextCandidateTypes, SMTT(30) DEF ReadCandidate, TypeOK, store, graph, PcPlaces
  <2> QED
    BY <2>2, <2>3, <2>4
<1>2. CASE Classify
  BY <1>2, PlanTypes DEF Classify, TypeOK, store, graph
<1>3. CASE ClassifyFails
  <2>1. cands[Con] # <<>>
    BY <1>3 DEF ClassifyFails, CandidatesWereDue
  <2>2. faults' \in Nat /\ NextCandidate
        /\ UNCHANGED <<owners, timers, idle, busy, targets, batch, deleted, store, graph, audit, aging>>
    BY <1>3 DEF ClassifyFails, Fault, TypeOK
  <2> QED
    BY <2>1, <2>2, NextCandidateTypes DEF TypeOK, store, graph, PcPlaces
<1>4. CASE Act
  BY <1>4, ActTypes DEF PcPlaces
<1>5. CASE ActFails
  BY <1>5, ActTypes DEF PcPlaces
<1> QED
  BY <1>1, <1>2, <1>3, <1>4, <1>5 DEF Consolidate

LEMMA EndDrainTypes ==
  ASSUME TypeOK, Cmp \in Jobs, targets[Cmp] # <<>>, EndDrain
  PROVE  /\ targets' \in [Jobs -> Seq(Owners)] /\ busy' \subseteq busy
         /\ pc' \in [Jobs -> PcPlaces] /\ cands' \in [Jobs -> Seq(Episodes)]
         /\ batch' \in Seq(Episodes) /\ deleted' \in Seq(Episodes)
         /\ deleted' = <<>> /\ pc'[Cmp] \in {"owner", "idle"}
         /\ \A k \in Jobs \ {Cmp} : cands'[k] = cands[k] /\ pc'[k] = pc[k]
<1>1. <<>> \in Seq(Episodes)
  BY EmptySeq
<1>2. /\ targets' \in [Jobs -> Seq(Owners)] /\ busy' \subseteq busy
      /\ pc' \in [Jobs -> PcPlaces] /\ pc'[Cmp] \in {"owner", "idle"}
      /\ \A k \in Jobs \ {Cmp} : pc'[k] = pc[k]
  BY NextOwnerTypes DEF EndDrain
<1> QED
  BY <1>1, <1>2 DEF EndDrain, TypeOK

LEMMA CompressTypes ==
  ASSUME MaintenanceAssumption, TypeOK, JobsRun, Cmp \in Jobs, CompressBatch
  PROVE  TypeOK'
<1> USE MaintenanceAssumption
<1>0. pc[Cmp] \in {"read", "model", "drop"} /\ targets[Cmp] # <<>>
  BY DEF CompressBatch, ReadEpisode, ReadMissing, AllRead, Compress, DropNext, AppendSummary, JobsRun
<1>1. CASE ReadEpisode
  <2>1. Tail(cands[Cmp]) \in Seq(Episodes) /\ Append(batch, Found) \in Seq(Episodes)
    BY <1>1, TailOfDistinct, ElementsOfAppend DEF ReadEpisode, TypeOK, Found
  <2> QED
    BY <1>1, <2>1 DEF ReadEpisode, TypeOK, flow, store, graph
<1>2. CASE ReadMissing
  <2>1. Found \in Episodes /\ Tail(cands[Cmp]) \in Seq(Episodes)
    BY <1>2, TailOfDistinct DEF ReadMissing, TypeOK, Found
  <2>2. /\ hot' \in [Episodes -> {"none", "fresh", "due", "gone"}] /\ cooling' \in BOOLEAN
        /\ fate' \in [Episodes -> Decisions \cup {"none", "expired", "evicted", Cmp}] /\ faults' \in Nat
    BY <1>2, <2>1, StoreTypes DEF ReadMissing
  <2>3. CASE EndDrain
    BY <1>0, <1>2, <2>2, <2>3, EndDrainTypes DEF ReadMissing, TypeOK, graph, PcPlaces
  <2>4. CASE ~EndDrain
    <3>1. /\ cands' = [cands EXCEPT ![Cmp] = Tail(cands[Cmp])] /\ UNCHANGED <<targets, pc, busy, batch, deleted>>
          /\ UNCHANGED <<owners, timers, idle, plan, graph, audit, aging>>
      BY <1>2, <2>4 DEF ReadMissing
    <3>2. cands' \in [Jobs -> Seq(Episodes)]
      BY <2>1, <3>1 DEF TypeOK
    <3> QED
      BY <2>2, <3>1, <3>2 DEF TypeOK, graph
  <2> QED
    BY <2>3, <2>4
<1>3. CASE AllRead
  <2>1. CASE EndDrain
    BY <1>0, <1>3, <2>1, EndDrainTypes DEF AllRead, TypeOK, graph, store, PcPlaces
  <2>2. CASE ~EndDrain
    BY <1>3, <2>2 DEF AllRead, TypeOK, graph, store
  <2> QED
    BY <2>1, <2>2
<1>4. CASE Compress
  <2>1. CASE EndDrain
    <3>1. faults' \in Nat
      BY <1>4 DEF Compress, Fault, TypeOK
    <3> QED
      BY <1>0, <1>4, <2>1, <3>1, EndDrainTypes DEF Compress, TypeOK, graph, store, PcPlaces
  <2>2. CASE ~EndDrain
    <3>1. /\ pc' = [pc EXCEPT ![Cmp] = "drop"] /\ UNCHANGED <<targets, busy, cands, batch, deleted, faults>>
          /\ UNCHANGED <<owners, timers, idle, plan, store, graph, audit, aging>>
      BY <1>4, <2>2 DEF Compress
    <3> QED
      BY <3>1 DEF TypeOK, graph, store
  <2> QED
    BY <2>1, <2>2
<1>5. CASE DropNext
  <2>1. Head(batch) \in Episodes /\ Tail(batch) \in Seq(Episodes)
    BY <1>5, TailOfDistinct DEF DropNext, TypeOK
  <2>2. /\ hot' \in [Episodes -> {"none", "fresh", "due", "gone"}] /\ cooling' \in BOOLEAN
        /\ fate' \in [Episodes -> Decisions \cup {"none", "expired", "evicted", Cmp}] /\ faults' \in Nat
    BY <1>5, <2>1, StoreTypes DEF DropNext
  <2>3. CASE EndDrain
    BY <1>0, <1>5, <2>2, <2>3, EndDrainTypes DEF DropNext, TypeOK, graph, PcPlaces
  <2>4. CASE ~EndDrain
    <3>1. Append(deleted, Head(batch)) \in Seq(Episodes)
      BY <2>1, ElementsOfAppend DEF TypeOK
    <3> QED
      BY <1>5, <2>1, <2>2, <2>4, <3>1 DEF DropNext, TypeOK, graph
  <2> QED
    BY <2>3, <2>4
<1>6. CASE AppendSummary
  <2>1. audit' \in [Episodes -> SUBSET (Decisions \cup {Cmp})] /\ faults' \in Nat
    <3>1. faults' \in Nat
      BY <1>6 DEF AppendSummary, Fault, TypeOK
    <3>2. \A e \in Episodes : /\ audit[e] \in SUBSET (Decisions \cup {Cmp})
                             /\ audit[e] \cup {Cmp} \in SUBSET (Decisions \cup {Cmp})
      BY DEF TypeOK
    <3>3. \/ audit' = audit
          \/ audit' = [e \in Episodes |-> IF e \in Elements(deleted) THEN audit[e] \cup {Cmp} ELSE audit[e]]
      BY <1>6 DEF AppendSummary
    <3>4. audit \in [Episodes -> SUBSET (Decisions \cup {Cmp})]
      BY DEF TypeOK
    <3>5. audit' \in [Episodes -> SUBSET (Decisions \cup {Cmp})]
      BY <3>2, <3>3, <3>4
    <3> QED
      BY <3>1, <3>5
  <2> QED
    BY <1>0, <1>6, <2>1, EndDrainTypes DEF AppendSummary, TypeOK, graph, store, PcPlaces
<1> QED
  BY <1>1, <1>2, <1>3, <1>4, <1>5, <1>6 DEF CompressBatch


LEMMA TypeStep ==
  ASSUME TypeOK, JobsRun, CandidatesWereDue, PlanIsUnderWay, Next
  PROVE  TypeOK'
<1> USE MaintenanceAssumption
<1>0. <<>> \in Seq(Owners) /\ <<>> \in Seq(Episodes) /\ <<>> \in Seq(Steps)
  BY EmptySeq
<1>1. ASSUME NEW j \in Jobs, Tick(j) PROVE TypeOK'
  BY <1>0, <1>1 DEF Tick, Start, Raises, BrainJobs, TypeOK, work, store, graph
<1>2. ASSUME NEW j \in Jobs, Finish(j) PROVE TypeOK'
  BY <1>2 DEF Finish, TypeOK, work, store, graph
<1>3. ASSUME NEW j \in Jobs, Sweep(j) PROVE TypeOK'
  <2>1. /\ targets' \in [Jobs -> Seq(Owners)] /\ pc' \in [Jobs -> PcPlaces] /\ busy' \subseteq busy
    BY <1>3, NextOwnerTypes DEF Sweep
  <2> QED
    BY <1>3, <2>1 DEF Sweep, TypeOK, work, store, graph, PcPlaces
<1>4. ASSUME NEW j \in Jobs, ListCandidates(j) PROVE TypeOK'
  <2>1. targets[j] # <<>> /\ UNCHANGED <<owners, timers, idle, plan, batch, deleted, store, graph, audit, aging>>
    BY <1>4 DEF ListCandidates
  <2>2. CASE NextOwner(j)
    <3>1. /\ targets' \in [Jobs -> Seq(Owners)] /\ pc' \in [Jobs -> PcPlaces] /\ busy' \subseteq busy
      BY <2>1, <2>2, NextOwnerTypes
    <3>2. cands' \in [Jobs -> Seq(Episodes)] /\ faults' \in Nat
      <4>1. CASE UNCHANGED cands
        BY <1>4, <4>1 DEF ListCandidates, Fault, TypeOK
      <4>2. CASE ~UNCHANGED cands
        <5>1. pc' = [pc EXCEPT ![j] = "read"]
          BY <1>4, <4>2 DEF ListCandidates
        <5>2. pc'[j] \in {"owner", "idle"}
          BY <2>1, <2>2, NextOwnerTypes
        <5>3. pc'[j] = "read"
          BY <5>1 DEF TypeOK
        <5> QED
          BY <5>2, <5>3
      <4> QED
        BY <4>1, <4>2
    <3> QED
      BY <2>1, <3>1, <3>2 DEF TypeOK, store, graph, PcPlaces
  <2>3. CASE ~NextOwner(j)
    <3>1. PICK q \in Listings(Head(targets[j])) : cands' = [cands EXCEPT ![j] = q]
      BY <1>4, <2>3 DEF ListCandidates
    <3>2. /\ pc' = [pc EXCEPT ![j] = "read"] /\ UNCHANGED <<targets, busy, faults>>
      BY <1>4, <2>3 DEF ListCandidates
    <3>3. q \in Seq(Episodes)
      BY <3>1, ListingIsDistinct
    <3> QED
      BY <2>1, <3>1, <3>2, <3>3 DEF TypeOK, store, graph
  <2> QED
    BY <2>2, <2>3
<1>5. ASSUME NEW o \in Owners, IdleDream(o) PROVE TypeOK'
  <2>1. <<o>> \in Seq(Owners)
    OBVIOUS
  <2>2. /\ idle' = idle \ {o} /\ "dream" \in Jobs
        /\ UNCHANGED <<owners, timers, work, store, graph, audit, aging, faults>>
    BY <1>5 DEF IdleDream, Start
  <2>3. /\ pc' \in [Jobs -> PcPlaces] /\ targets' \in [Jobs -> Seq(Owners)]
        /\ busy' \subseteq Jobs \cup {"brainMaintenance"}
    <3>1. CASE MayStart("dream")
      <4>1. /\ pc' = [pc EXCEPT !["dream"] = "owner"] /\ targets' = [targets EXCEPT !["dream"] = <<o>>]
            /\ busy' = busy \cup Raises("dream")
        BY <1>5, <3>1 DEF IdleDream, Start
      <4>2. Raises("dream") \subseteq Jobs \cup {"brainMaintenance"}
        BY <2>2 DEF Raises
      <4> QED
        BY <2>1, <2>2, <4>1, <4>2 DEF TypeOK, PcPlaces
    <3>2. CASE ~MayStart("dream")
      BY <1>5, <3>2 DEF IdleDream, TypeOK, PcPlaces
    <3> QED
      BY <3>1, <3>2
  <2> QED
    BY <2>2, <2>3 DEF TypeOK, work, store, graph, PcPlaces
<1>6. ASSUME NEW e \in Episodes, Turn(e) PROVE TypeOK'
  <2>1. /\ hot' \in [Episodes -> {"none", "fresh", "due", "gone"}] /\ cooling' \in BOOLEAN
        /\ fate' \in [Episodes -> Decisions \cup {"none", "expired", "evicted", Cmp}] /\ faults' \in Nat
    BY <1>6, WriteTypes DEF Turn
  <2>2. OwnerOf[e] \in Owners /\ owners' \in Seq(Owners)
    BY <1>6, ElementsOfAppend DEF Turn, TypeOK
  <2>3. idle' \subseteq Owners
    BY <1>6, <2>2 DEF Turn, TypeOK
  <2> QED
    BY <1>6, <2>1, <2>2, <2>3 DEF Turn, TypeOK, work, graph
<1>7. ASSUME NEW e \in Episodes, Record(e) \/ TurnFails(e) PROVE TypeOK'
  <2>1. /\ hot' \in [Episodes -> {"none", "fresh", "due", "gone"}] /\ cooling' \in BOOLEAN
        /\ fate' \in [Episodes -> Decisions \cup {"none", "expired", "evicted", Cmp}] /\ faults' \in Nat
    BY <1>7, WriteTypes DEF Record
  <2> QED
    BY <1>7, <2>1 DEF Record, TurnFails, TypeOK, flow, work, graph
<1>8. ASSUME NEW e \in Episodes, Age(e) PROVE TypeOK'
  <2>1. /\ aging' \in Nat /\ hot' \in [Episodes -> {"none", "fresh", "due", "gone"}]
        /\ fate' \in [Episodes -> Decisions \cup {"none", "expired", "evicted", Cmp}]
    <3>1. aging' \in Nat
      BY <1>8 DEF Age, TypeOK
    <3>2. \/ hot' = [hot EXCEPT ![e] = "due"] /\ fate' = fate
          \/ hot' = [hot EXCEPT ![e] = "gone"] /\ fate' = [fate EXCEPT ![e] = "expired"]
      BY <1>8 DEF Age
    <3> QED
      BY <3>1, <3>2 DEF TypeOK
  <2> QED
    BY <1>8, <2>1 DEF Age, TypeOK, flow, work, graph
<1>9. CASE Stop
  BY <1>9 DEF Stop, TypeOK, work, store, graph
<1>10. CASE CoolingOver
  BY <1>10 DEF CoolingOver, TypeOK, flow, work, graph
<1>11. CASE Crash
  <2>1. /\ faults' \in Nat /\ busy' = {} /\ idle' = {} /\ owners' = <<>> /\ timers' = TRUE /\ cooling' = FALSE
        /\ batch' = <<>> /\ deleted' = <<>> /\ UNCHANGED <<hot, fate, graph, audit, aging>>
    BY <1>11 DEF Crash, Fault, TypeOK
  <2>2. /\ targets' \in [Jobs -> Seq(Owners)] /\ pc' \in [Jobs -> PcPlaces] /\ cands' \in [Jobs -> Seq(Episodes)]
    BY <1>0, <1>11 DEF Crash, PcPlaces
  <2>3. plan' \in [decision : Decisions \cup {"none"}, steps : Seq(Steps)]
    BY <1>0, <1>11 DEF Crash, NoPlan
  <2> QED
    BY <1>0, <2>1, <2>2, <2>3 DEF TypeOK, graph, PcPlaces
<1>12. CASE Con \in Jobs /\ Consolidate
  BY <1>12, ConsolidateTypes
<1>13. CASE Cmp \in Jobs /\ CompressBatch
  BY <1>13, CompressTypes
<1> QED
  BY <1>1, <1>2, <1>3, <1>4, <1>5, <1>6, <1>7, <1>8, <1>9, <1>10, <1>11, <1>12, <1>13 DEF Next, Work

-----------------------------------------------------------------------------
(* The jobs. *)

LEMMA JobsRunStep ==
  ASSUME TypeOK, JobsRun, Next
  PROVE  JobsRun'
<1> USE MaintenanceAssumption
<1>0. \A j, k \in Jobs : j # k => k \notin Raises(j)
  BY DEF Raises, AllJobs
<1>1. ASSUME NEW j \in Jobs, NextOwner(j), pc[j] # "idle", targets[j] # <<>> PROVE JobsRun'
  <2>1. \A k \in Jobs \ {j} : targets'[k] = targets[k]
    BY <1>1 DEF NextOwner, TypeOK
  <2> QED
    BY <1>0, <1>1, <2>1, NextOwnerTypes DEF JobsRun
<1>2. ASSUME NEW j \in Jobs, NEW q, Start(j, q) PROVE JobsRun'
  BY <1>2 DEF Start, JobsRun, TypeOK, Raises
<1>3. ASSUME NEW j \in Jobs, Finish(j) PROVE JobsRun'
  BY <1>0, <1>3 DEF Finish, JobsRun, TypeOK
<1>4. ASSUME NEW j \in Jobs, Sweep(j) PROVE JobsRun'
  BY <1>1, <1>4 DEF Sweep
<1>5. ASSUME NEW j \in Jobs, ListCandidates(j) PROVE JobsRun'
  <2>1. pc[j] = "owner" /\ targets[j] # <<>>
    BY <1>5 DEF ListCandidates
  <2>2. CASE ~NextOwner(j)
    BY <1>5, <2>1, <2>2 DEF ListCandidates, JobsRun, TypeOK
  <2> QED
    BY <1>1, <2>1, <2>2
<1>6. CASE UNCHANGED <<pc, busy, targets>>
  BY <1>6 DEF JobsRun
<1>7. CASE Con \in Jobs /\ Consolidate
  <2>1. pc[Con] \in {"read", "classify", "act"} /\ targets[Con] # <<>>
    BY <1>7 DEF Consolidate, ReadCandidate, Classify, ClassifyFails, Act, ActFails, JobsRun
  <2>2. CASE NextOwner(Con)
    BY <1>1, <1>7, <2>1, <2>2
  <2>3. CASE UNCHANGED <<busy, targets>> /\ (UNCHANGED pc \/ \E l : pc' = [pc EXCEPT ![Con] = l])
    BY <1>7, <2>1, <2>3 DEF JobsRun, TypeOK
  <2> QED
    BY <1>7, <2>2, <2>3 DEF Consolidate, ReadCandidate, Classify, ClassifyFails, Act, ActFails, NextCandidate
<1>8. CASE Cmp \in Jobs /\ CompressBatch
  <2>1. pc[Cmp] \in {"read", "model", "drop"} /\ targets[Cmp] # <<>>
    BY <1>8 DEF CompressBatch, ReadEpisode, ReadMissing, AllRead, Compress, DropNext, AppendSummary, JobsRun
  <2>2. CASE NextOwner(Cmp)
    BY <1>1, <1>8, <2>1, <2>2
  <2>3. CASE UNCHANGED <<busy, targets>> /\ (UNCHANGED pc \/ \E l : pc' = [pc EXCEPT ![Cmp] = l])
    BY <1>8, <2>1, <2>3 DEF JobsRun, TypeOK
  <2> QED
    BY <1>8, <2>2, <2>3 DEF CompressBatch, ReadEpisode, ReadMissing, AllRead, Compress, DropNext, AppendSummary,
       EndDrain, flow
<1>9. CASE Crash
  BY <1>9 DEF Crash, JobsRun
<1>10. ASSUME NEW o \in Owners, IdleDream(o) PROVE JobsRun'
  BY <1>2, <1>6, <1>10 DEF IdleDream
<1> QED
  BY <1>2, <1>3, <1>4, <1>5, <1>6, <1>7, <1>8, <1>9, <1>10
     DEF Next, Tick, Work, Turn, Record, TurnFails, Age, Stop, CoolingOver, flow

-----------------------------------------------------------------------------
(* What happens beside the consolidation. *)

\* Its candidates and its plan stay, and it does not take a step.
ConsolidationRests ==
    /\ Con \in Jobs => /\ cands'[Con] = cands[Con]
                       /\ pc'[Con] = pc[Con] \/ {pc[Con], pc'[Con]} \subseteq {"idle", "owner"}
    /\ UNCHANGED <<plan, nodes, links>>
    /\ \A e \in Episodes : audit[e] \subseteq audit'[e]

\* What becomes of the store: nobody brings an episode back, makes a candidate fresh, or
\* takes an episode out in the name of a decision of the model.
StoreDecays ==
    /\ \A e \in Episodes : /\ hot'[e] = hot[e] \/ hot'[e] = "gone" \/ hot[e] \in {"none", "fresh"}
                           /\ hot[e] = "gone" => hot'[e] = "gone"
                           /\ fate'[e] = fate[e] \/ fate'[e] \notin Decisions

\* A breaker opens only at the price of a fault.
FaultsAreSpent ==
    /\ faults' \in Nat /\ faults' <= faults
    /\ cooling' => cooling \/ faults' < faults

LEMMA FlightIsOfEpisodes ==
  ASSUME TypeOK
  PROVE  Flight \subseteq Episodes
<1>1. Con \in Jobs => cands[Con] \in Seq(Episodes)
  BY DEF TypeOK
<1>2. Con \in Jobs => \A i \in 1..Len(cands[Con]) : cands[Con][i] \in Episodes
  BY <1>1, ElementOfSeq
<1> QED
  BY <1>2 DEF Flight, Elements

LEMMA BesideConsolidation ==
  ASSUME TypeOK, TypeOK', Consolidation, ConsolidationRests, StoreDecays, FaultsAreSpent
  PROVE  Consolidation'
<1> USE MaintenanceAssumption DEF Consolidation
<1>1. Flight' = Flight /\ (Con \in Jobs => cands'[Con] = cands[Con])
  BY DEF ConsolidationRests, Flight
<1>2. (Acting' = Acting /\ Episode' = Episode /\ plan' = plan) \/ Con \notin Jobs
  BY DEF ConsolidationRests, Acting, Episode
<1>3. CandidatesWereDue'
  <2>1. \A e \in Flight : e \in Episodes
    BY FlightIsOfEpisodes
  <2>2. \A e \in Flight' : hot'[e] \in {"due", "gone"}
    BY <1>1, <2>1 DEF CandidatesWereDue, StoreDecays, TypeOK
  <2>3. Con \in Jobs => Distinct(cands'[Con])
    BY <1>1 DEF CandidatesWereDue
  <2>4. Con \in Jobs /\ pc'[Con] \in {"classify", "act"} => cands'[Con] # <<>>
    BY <1>1 DEF CandidatesWereDue, ConsolidationRests
  <2> QED
    BY <2>2, <2>3, <2>4 DEF CandidatesWereDue
<1>4. Acting => Con \in Jobs /\ Episode \in Episodes
  <2>1. Acting => cands[Con] # <<>> /\ Con \in Jobs
    BY DEF Acting, CandidatesWereDue
  <2> QED
    BY <2>1, TailOfDistinct DEF TypeOK, Episode
<1>5. PlanIsUnderWay'
  <2>1. SUFFICES ASSUME Acting' PROVE PlanIsUnderWay'
    BY DEF PlanIsUnderWay
  <2>2. Con \in Jobs /\ Acting
    BY <1>2, <2>1 DEF Acting
  <2>3. Episode' = Episode /\ Episode \in Episodes /\ UNCHANGED <<plan, nodes, links>>
        /\ audit[Episode] \subseteq audit'[Episode]
    BY <1>2, <1>4, <2>2 DEF ConsolidationRests
  <2> QED
    BY <2>2, <2>3 DEF PlanIsUnderWay
<1>6. \A e \in Episodes : Past(e)' = Past(e)
  BY <1>2 DEF Past, ConsolidationRests, Acting
<1>7. NodesArePaidFor'
  <2>1. faults' <= MaxFaults /\ (cooling' => faults' < MaxFaults)
    BY DEF FaultsAreSpent, NodesArePaidFor, TypeOK
  <2>2. ASSUME NEW e \in Episodes
        PROVE  nodes'[e] + Pending(e)' <= (MaxFaults - faults') + Allowed(e)'
    <3>1. nodes[e] + Pending(e) <= (MaxFaults - faults) + Allowed(e) /\ nodes[e] \in Nat
          /\ nodes'[e] = nodes[e] /\ faults \in Nat /\ faults' \in Nat
      BY DEF NodesArePaidFor, ConsolidationRests, TypeOK
    <3>2. Allowed(e)' \in {0, 1} /\ Allowed(e) \in {0, 1} /\ Allowed(e)' >= Allowed(e)
      BY <1>1, <1>6 DEF Allowed, StoreDecays
    <3>3. /\ Pending(e) \in {0, 1} /\ Pending(e)' \in {0, 1} /\ faults' <= faults
          /\ Pending(e)' <= Pending(e) \/ faults' < faults
      BY <1>1 DEF Pending, FaultsAreSpent
    <3> QED
      BY <3>1, <3>2, <3>3
  <2>3. \A e \in Episodes : links'[e] <= nodes'[e]
    BY DEF ConsolidationRests, NodesArePaidFor
  <2> QED
    BY <2>1, <2>2, <2>3 DEF NodesArePaidFor
<1>8. RemovalIsEvidenced'
  BY DEF RemovalIsEvidenced, StoreDecays, ConsolidationRests, Decisions
<1> QED
  BY <1>3, <1>5, <1>7, <1>8

-----------------------------------------------------------------------------
(* The steps of the consolidation. *)

\* It is done with a candidate: the promotion under way has either taken the episode out or
\* is paid for.
LEMMA MovesOn ==
  ASSUME TypeOK, TypeOK', Consolidation, Con \in Jobs, cands[Con] # <<>>, NextCandidate,
         pc[Con] \in {"read", "classify", "act"},
         UNCHANGED <<nodes, links>>, FaultsAreSpent,
         \A e \in Episodes : audit[e] \subseteq audit'[e],
         \A e \in Episodes \ {Episode} : hot'[e] = hot[e] /\ fate'[e] = fate[e],
         hot[Episode] = "gone" => hot'[Episode] = "gone",
         fate'[Episode] \in Decisions => fate'[Episode] \in audit'[Episode],
         fate'[Episode] = "consolidate" => links'[Episode] > 0,
         Past(Episode) => hot'[Episode] = "gone" \/ cooling \/ faults' < faults
  PROVE  Consolidation'
<1> USE MaintenanceAssumption DEF Consolidation
<1>1. /\ cands'[Con] = Tail(cands[Con]) /\ pc'[Con] = "read"
  BY NextCandidateTypes
<1>2. /\ Episode \in Episodes /\ Episode \in Flight /\ Flight = {Episode} \cup Flight'
      /\ Episode \notin Flight' /\ Distinct(cands'[Con])
  BY <1>1, TailOfDistinct, SMTT(30) DEF Episode, Flight, TypeOK, CandidatesWereDue
<1>3. CandidatesWereDue'
  <2>1. \A e \in Flight' : e \in Episodes /\ e # Episode /\ e \in Flight
    <3>1. Flight \subseteq Episodes
      BY FlightIsOfEpisodes
    <3> QED
      BY <1>2, <3>1
  <2> QED
    BY <1>1, <1>2, <2>1 DEF CandidatesWereDue
<1>4. ~Acting'
  BY <1>1 DEF Acting
<1>5. PlanIsUnderWay'
  BY <1>4 DEF PlanIsUnderWay
<1>6. NodesArePaidFor'
  <2>1. faults' <= MaxFaults /\ (cooling' => faults' < MaxFaults)
    <3>1. faults <= MaxFaults /\ (cooling => faults < MaxFaults)
      BY DEF NodesArePaidFor
    <3>2. faults' <= faults /\ (cooling' => cooling \/ faults' < faults) /\ faults \in Nat /\ faults' \in Nat
      BY DEF FaultsAreSpent, TypeOK
    <3> QED
      BY <3>1, <3>2
  <2>2. ASSUME NEW e \in Episodes
        PROVE  nodes'[e] + Pending(e)' <= (MaxFaults - faults') + Allowed(e)'
    <3>1. nodes[e] + Pending(e) <= (MaxFaults - faults) + Allowed(e) /\ nodes[e] \in Nat
          /\ nodes'[e] = nodes[e] /\ faults \in Nat /\ faults' \in Nat /\ faults' <= faults
      BY DEF NodesArePaidFor, TypeOK, FaultsAreSpent
    <3>2. ~Past(e)'
      BY <1>4 DEF Past
    <3>3. Allowed(e) \in {0, 1} /\ Allowed(e)' \in {0, 1} /\ Pending(e) \in {0, 1} /\ Pending(e)' \in {0, 1}
      BY DEF Allowed, Pending
    <3>4. CASE e = Episode
      <4>1. Pending(e)' = 0
        BY <1>2, <3>4 DEF Pending
      <4>2. ~Past(e) => Allowed(e) = 0
        BY <1>2, <3>4 DEF Allowed
      <4>3. hot'[Episode] = "gone" => Allowed(e)' = 1
        BY <1>2, <3>4 DEF Allowed
      <4>4. cooling => Pending(e) = 1
        BY <1>2, <3>4 DEF Pending
      <4> QED
        BY <3>1, <3>3, <3>4, <4>1, <4>2, <4>3, <4>4
    <3>5. CASE e # Episode
      <4>1. ~Past(e) /\ (e \in Flight <=> e \in Flight') /\ hot'[e] = hot[e]
        BY <1>2, <3>5 DEF Past
      <4>2. Allowed(e)' = Allowed(e)
        BY <3>2, <4>1 DEF Allowed
      <4>3. Pending(e)' <= Pending(e) \/ faults' < faults
        BY <4>1 DEF Pending, FaultsAreSpent
      <4> QED
        BY <3>1, <3>3, <4>2, <4>3
    <3> QED
      BY <3>4, <3>5
  <2> QED
    BY <2>1, <2>2 DEF NodesArePaidFor
<1>7. RemovalIsEvidenced'
  BY DEF RemovalIsEvidenced
<1> QED
  BY <1>3, <1>5, <1>6, <1>7

LEMMA ReadCandidateStep ==
  ASSUME TypeOK, TypeOK', JobsRun, Consolidation, Con \in Jobs, ReadCandidate
  PROVE  Consolidation'
<1>0. /\ pc[Con] = "read" /\ targets[Con] # <<>>
      /\ UNCHANGED <<hot, cooling, fate, nodes, links, audit, faults>>
  BY DEF ReadCandidate, JobsRun, store, graph
<1>1. FaultsAreSpent /\ StoreDecays
  BY <1>0 DEF FaultsAreSpent, StoreDecays, TypeOK
<1>2. CASE cands[Con] = <<>>
  <2>1. NextOwner(Con) /\ UNCHANGED <<cands, plan>>
    BY <1>2 DEF ReadCandidate
  <2>2. pc'[Con] \in {"owner", "idle"}
    BY <1>0, <2>1, NextOwnerTypes
  <2>3. Flight' = Flight /\ ~Acting /\ ~Acting' /\ Flight = {}
    BY <1>0, <1>2, <2>1, <2>2 DEF Flight, Acting, Elements
  <2>4. CandidatesWereDue'
    BY <2>1, <2>2, <2>3 DEF Consolidation, CandidatesWereDue
  <2>5. PlanIsUnderWay'
    BY <2>3 DEF PlanIsUnderWay
  <2>6. NodesArePaidFor'
    BY <1>0, <2>3 DEF Consolidation, NodesArePaidFor, Allowed, Pending, Past
  <2>7. RemovalIsEvidenced'
    BY <1>0 DEF Consolidation, RemovalIsEvidenced
  <2> QED
    BY <2>4, <2>5, <2>6, <2>7 DEF Consolidation
<1>3. CASE cands[Con] # <<>> /\ InStore(Episode)
  <2>1. pc' = [pc EXCEPT ![Con] = "classify"] /\ UNCHANGED <<cands, plan>>
    BY <1>3 DEF ReadCandidate
  <2>2. pc'[Con] = "classify" /\ Flight' = Flight /\ ~Acting /\ ~Acting'
    BY <1>0, <2>1 DEF Flight, Acting, TypeOK
  <2>3. CandidatesWereDue'
    BY <1>0, <1>3, <2>1, <2>2 DEF Consolidation, CandidatesWereDue
  <2>4. NodesArePaidFor'
    BY <1>0, <2>2 DEF Consolidation, NodesArePaidFor, Allowed, Pending, Past
  <2> QED
    BY <1>0, <2>2, <2>3, <2>4 DEF Consolidation, PlanIsUnderWay, RemovalIsEvidenced
<1>4. CASE cands[Con] # <<>> /\ ~InStore(Episode)
  <2>1. NextCandidate
    BY <1>4 DEF ReadCandidate
  <2>2. ~Past(Episode)
    BY <1>0 DEF Past, Acting
  <2>3. Episode \in Episodes
    BY <1>4, TailOfDistinct DEF Episode, TypeOK
  <2> QED
    BY <1>0, <1>1, <1>4, <2>1, <2>2, <2>3, MovesOn DEF Consolidation, RemovalIsEvidenced
<1> QED
  BY <1>2, <1>3, <1>4

LEMMA ClassifyStep ==
  ASSUME TypeOK, TypeOK', Consolidation, Con \in Jobs, Classify \/ ClassifyFails
  PROVE  Consolidation'
<1>0. /\ pc[Con] = "classify" /\ cands[Con] # <<>>
      /\ UNCHANGED <<hot, cooling, fate, nodes, links, audit>>
  BY DEF Classify, ClassifyFails, Consolidation, CandidatesWereDue, store, graph
<1>1. CASE Classify
  <2>1. PICK d \in Decisions : plan' = [decision |-> d, steps |-> Plan(d)]
    BY <1>1 DEF Classify
  <2>2. /\ pc'[Con] = "act" /\ UNCHANGED <<cands, faults>> /\ Flight' = Flight /\ ~Acting
    BY <1>0, <1>1 DEF Classify, TypeOK, Flight, Acting
  <2>3. CandidatesWereDue'
    BY <1>0, <2>2 DEF Consolidation, CandidatesWereDue
  <2>4. /\ plan'.decision = d
        /\ d = "discard" => plan'.steps = <<"audit", "drop">>
        /\ d = "reinforce" => plan'.steps = <<"touch", "reinforce">>
        /\ d = "consolidate" => plan'.steps = <<"episode", "node", "relate", "audit", "drop">>
    BY <2>1 DEF Plan, Decisions
  <2>5. PlanIsUnderWay'
    BY <2>1, <2>4, StagesDiffer DEF PlanIsUnderWay, Stages, Decisions
  <2>6. \A e \in Episodes : ~Past(e) /\ ~Past(e)'
    BY <2>2, <2>4, StagesDiffer DEF Past, AfterNode
  <2>7. NodesArePaidFor'
    BY <1>0, <2>2, <2>6 DEF Consolidation, NodesArePaidFor, Allowed, Pending
  <2> QED
    BY <1>0, <2>3, <2>5, <2>7 DEF Consolidation, RemovalIsEvidenced
<1>2. CASE ClassifyFails
  <2>1. NextCandidate /\ FaultsAreSpent
    BY <1>0, <1>2 DEF ClassifyFails, FaultsAreSpent, Fault, TypeOK
  <2>2. ~Past(Episode)
    BY <1>0 DEF Past, Acting
  <2>3. Episode \in Episodes
    BY <1>0, TailOfDistinct DEF Episode, TypeOK
  <2> QED
    BY <1>0, <2>1, <2>2, <2>3, MovesOn DEF Consolidation, RemovalIsEvidenced
<1> QED
  BY <1>1, <1>2

\* One step of the plan that is not its last.
LEMMA PlanStep ==
  ASSUME TypeOK, TypeOK', Consolidation, Con \in Jobs, Act, ~NextCandidate
  PROVE  Consolidation'
<1> USE MaintenanceAssumption DEF Consolidation
<1>0. /\ pc[Con] = "act" /\ Acting /\ Acting' /\ UNCHANGED <<pc, cands>> /\ Episode' = Episode
      /\ cands[Con] # <<>> /\ Flight' = Flight
      /\ plan' = [plan EXCEPT !.steps = Tail(plan.steps)] /\ Len(plan.steps) > 1
  BY DEF Act, Acting, Episode, CandidatesWereDue, Flight
<1>1. PICK E \in Episodes : E = Episode /\ E = Episode' /\ E \in Flight
  BY <1>0, TailOfDistinct DEF Episode, TypeOK, Flight
<1>2. plan'.steps = Tail(plan.steps) /\ plan'.decision = plan.decision
  BY <1>0 DEF TypeOK
<1>3. /\ plan.decision \in Decisions
      /\ \/ plan.decision = "discard" /\ plan.steps = <<"audit", "drop">>
         \/ plan.decision = "reinforce" /\ plan.steps = <<"touch", "reinforce">>
         \/ plan.decision = "consolidate" /\ plan.steps \in Stages \ {<<"touch", "reinforce">>, <<"reinforce">>, <<"drop">>}
  <2>1. plan.steps # <<"drop">> /\ plan.steps # <<"reinforce">>
    BY <1>0, LongPlans DEF TypeOK
  <2>2. PlanIsUnderWay /\ Acting
    BY <1>0
  <2>3. plan.decision \in {"discard", "reinforce", "consolidate"}
    BY <2>2 DEF PlanIsUnderWay, Decisions
  <2> QED
    BY <2>1, <2>2, <2>3 DEF PlanIsUnderWay
<1>4. UNCHANGED <<hot, fate, cooling, faults>>
  <2>1. Head(plan.steps) \in {"audit", "touch", "relate", "node", "episode"}
    BY <1>3, PlansInSteps DEF Stages
  <2> QED
    BY <2>1 DEF Act, StoreOk, Applied, StoreOps, store
<1>5. CandidatesWereDue'
  BY <1>0, <1>4 DEF CandidatesWereDue
<1>6. \A e \in Episodes \ {E} : /\ nodes'[e] = nodes[e] /\ links'[e] = links[e] /\ audit'[e] = audit[e]
                               /\ ~Past(e) /\ ~Past(e)'
  BY <1>0, <1>1 DEF Act, TypeOK, Past
<1>7. RemovalIsEvidenced'
  <2>1. \A e \in Episodes : audit[e] \subseteq audit'[e] /\ links'[e] >= links[e] /\ links[e] \in Nat /\ links'[e] \in Nat
    <3>1. links \in [Episodes -> Nat] /\ links' \in [Episodes -> Nat]
      BY DEF TypeOK
    <3>2. links' = links \/ links' = [links EXCEPT ![E] = links[E] + 1]
      BY <1>1 DEF Act
    <3>3. audit' = audit \/ audit' = [audit EXCEPT ![E] = audit[E] \cup {plan.decision}]
      BY <1>1 DEF Act
    <3>4. \A e \in Episodes : audit[e] \subseteq audit'[e]
      <4>1. CASE audit' = audit
        BY <4>1
      <4>2. CASE audit' = [audit EXCEPT ![E] = audit[E] \cup {plan.decision}]
        <5>1. DOMAIN audit = Episodes
          BY DEF TypeOK
        <5>2. audit'[E] = audit[E] \cup {plan.decision} /\ \A e \in Episodes \ {E} : audit'[e] = audit[e]
          BY <4>2, <5>1
        <5> QED
          BY <5>2
      <4> QED
        BY <3>3, <4>1, <4>2
    <3> QED
      BY <3>1, <3>2, <3>4
  <2> QED
    BY <1>4, <2>1 DEF RemovalIsEvidenced
<1>8. ASSUME PlanIsUnderWay', links'[E] <= nodes'[E],
             nodes'[E] + Pending(E)' <= (MaxFaults - faults') + Allowed(E)'
      PROVE  Consolidation'
  <2>1. \A e \in Episodes \ {E} : Allowed(e)' = Allowed(e) /\ Pending(e)' = Pending(e)
    BY <1>0, <1>4, <1>6 DEF Allowed, Pending
  <2>2. NodesArePaidFor'
    <3>1. ASSUME NEW e \in Episodes
          PROVE  links'[e] <= nodes'[e] /\ nodes'[e] + Pending(e)' <= (MaxFaults - faults') + Allowed(e)'
      <4>1. CASE e = E
        BY <1>8, <4>1
      <4>2. CASE e # E
        BY <1>4, <1>6, <2>1, <4>2 DEF NodesArePaidFor
      <4> QED
        BY <4>1, <4>2
    <3> QED
      BY <1>4, <3>1 DEF NodesArePaidFor
  <2> QED
    BY <1>5, <1>7, <1>8, <2>2
<1>9. Pending(E)' = Pending(E) /\ (Allowed(E)' = 1 <=> Past(E)') /\ (Allowed(E) = 1 <=> Past(E))
      /\ Allowed(E) \in {0, 1} /\ Allowed(E)' \in {0, 1}
  BY <1>0, <1>1, <1>4 DEF Allowed, Pending
<1>10. /\ nodes[E] \in Nat /\ links[E] \in Nat /\ links[E] <= nodes[E] /\ Pending(E) \in {0, 1}
       /\ nodes[E] + Pending(E) <= (MaxFaults - faults) + Allowed(E) /\ faults \in Nat
  BY <1>1 DEF NodesArePaidFor, TypeOK, Pending
<1>11. CASE plan.decision \in {"discard", "reinforce"}
  <2>1. ~Past(E) /\ ~Past(E)'
    BY <1>2, <1>11 DEF Past
  <2>2. UNCHANGED <<nodes, links>>
    BY <1>3, <1>11, PlansInSteps DEF Act
  <2>3. plan.decision = "discard" => "discard" \in audit'[E]
    BY <1>1, <1>3, <1>11, PlansInSteps DEF Act, TypeOK
  <2>4. PlanIsUnderWay'
    BY <1>0, <1>1, <1>2, <1>3, <1>11, <2>2, <2>3, PlansInSteps, StagesDiffer, ZenonT(60) DEF PlanIsUnderWay, Stages, Decisions
  <2> QED
    BY <1>4, <1>8, <1>9, <1>10, <2>1, <2>2, <2>4
<1>12. CASE plan.decision = "consolidate" /\ plan.steps = <<"episode", "node", "relate", "audit", "drop">>
  <2>1. UNCHANGED <<nodes, links>> /\ plan'.steps = <<"node", "relate", "audit", "drop">>
    BY <1>2, <1>12, PlansInSteps DEF Act
  <2>2. ~Past(E) /\ ~Past(E)'
    BY <1>12, <2>1, StagesDiffer DEF Past, AfterNode
  <2>3. PlanIsUnderWay'
    BY <1>0, <1>1, <1>2, <1>3, <1>12, <2>1, StagesDiffer DEF PlanIsUnderWay, Stages
  <2> QED
    BY <1>4, <1>8, <1>9, <1>10, <2>1, <2>2, <2>3
<1>13. CASE plan.decision = "consolidate" /\ plan.steps = <<"node", "relate", "audit", "drop">>
  <2>1. /\ nodes'[E] = nodes[E] + 1 /\ links'[E] = links[E] /\ plan'.steps = <<"relate", "audit", "drop">>
    BY <1>1, <1>2, <1>13, PlansInSteps DEF Act, TypeOK
  <2>2. ~Past(E) /\ Past(E)'
    BY <1>0, <1>1, <1>2, <1>13, <2>1, StagesDiffer DEF Past, AfterNode
  <2>3. PlanIsUnderWay'
    BY <1>0, <1>1, <1>2, <1>3, <1>10, <1>13, <2>1, StagesDiffer DEF PlanIsUnderWay, Stages
  <2> QED
    BY <1>4, <1>8, <1>9, <1>10, <2>1, <2>2, <2>3
<1>14. CASE plan.decision = "consolidate" /\ plan.steps = <<"relate", "audit", "drop">>
  <2>1. /\ nodes'[E] = nodes[E] /\ links'[E] = links[E] + 1 /\ plan'.steps = <<"audit", "drop">>
    BY <1>1, <1>2, <1>14, PlansInSteps DEF Act, TypeOK
  <2>2. links[E] < nodes[E]
    BY <1>0, <1>1, <1>14 DEF PlanIsUnderWay
  <2>3. Past(E) /\ Past(E)'
    BY <1>0, <1>1, <1>2, <1>14, <2>1, StagesDiffer DEF Past, AfterNode
  <2>4. PlanIsUnderWay'
    BY <1>0, <1>1, <1>2, <1>3, <1>10, <1>14, <2>1, StagesDiffer DEF PlanIsUnderWay, Stages
  <2> QED
    BY <1>4, <1>8, <1>9, <1>10, <2>1, <2>2, <2>3, <2>4
<1>15. CASE plan.decision = "consolidate" /\ plan.steps = <<"audit", "drop">>
  <2>1. /\ nodes'[E] = nodes[E] /\ links'[E] = links[E] /\ plan'.steps = <<"drop">>
        /\ "consolidate" \in audit'[E]
    BY <1>1, <1>2, <1>15, PlansInSteps DEF Act, TypeOK
  <2>2. links[E] > 0
    BY <1>0, <1>1, <1>15 DEF PlanIsUnderWay
  <2>3. Past(E) /\ Past(E)'
    BY <1>0, <1>1, <1>2, <1>15, <2>1, StagesDiffer DEF Past, AfterNode
  <2>4. PlanIsUnderWay'
    BY <1>0, <1>1, <1>2, <1>3, <1>10, <1>15, <2>1, <2>2, StagesDiffer DEF PlanIsUnderWay, Stages
  <2> QED
    BY <1>4, <1>8, <1>9, <1>10, <2>1, <2>3, <2>4
<1> QED
  BY <1>3, <1>11, <1>12, <1>13, <1>14, <1>15 DEF Stages

LEMMA LastStep ==
  ASSUME TypeOK, TypeOK', Consolidation, Con \in Jobs, Act \/ ActFails, NextCandidate
  PROVE  Consolidation'
<1> USE MaintenanceAssumption
<1>0. /\ pc[Con] = "act" /\ Acting /\ cands[Con] # <<>> /\ plan.steps \in Stages /\ plan.decision \in Decisions
  BY DEF Act, ActFails, Acting, Consolidation, CandidatesWereDue, PlanIsUnderWay
<1>1. Episode \in Episodes /\ hot[Episode] \in {"due", "gone"}
  <2>1. Episode \in Episodes /\ Episode \in Flight
    BY <1>0, TailOfDistinct DEF Episode, TypeOK, Flight
  <2> QED
    BY <2>1 DEF Consolidation, CandidatesWereDue
<1> DEFINE op == Head(plan.steps)
<1>2. op \in Steps
  BY <1>0, PlansInSteps DEF Stages, Steps
<1>3. CASE Act
  <2>1. plan.steps \in {<<"drop">>, <<"reinforce">>}
    <3>1. ~(Len(plan.steps) > 1)
      <4>1. SUFFICES ASSUME Len(plan.steps) > 1 PROVE FALSE
        OBVIOUS
      <4>2. UNCHANGED pc
        BY <1>3, <4>1 DEF Act
      <4> QED
        BY <1>0, <4>2, NextCandidateTypes
    <3>2. /\ Len(<<"touch", "reinforce">>) > 1 /\ Len(<<"audit", "drop">>) > 1
          /\ Len(<<"relate", "audit", "drop">>) > 1 /\ Len(<<"node", "relate", "audit", "drop">>) > 1
          /\ Len(<<"episode", "node", "relate", "audit", "drop">>) > 1
      BY PlansInSteps
    <3> QED
      BY <1>0, <3>1, <3>2 DEF Stages
  <2>2. StoreOk(op, Episode, plan.decision) /\ UNCHANGED <<nodes, links, audit>>
    BY <1>3, <2>1, PlansInSteps DEF Act, StoreOps
  <2>3. FaultsAreSpent
    BY <2>2 DEF StoreOk, FaultsAreSpent, TypeOK
  <2>4. /\ \A d \in Episodes \ {Episode} : hot'[d] = hot[d] /\ fate'[d] = fate[d]
        /\ hot[Episode] = "gone" => hot'[Episode] = "gone"
    BY <1>0, <1>1, <2>1, <2>2, StoreTypes, PlansInSteps
  <2>5. /\ op = "drop" => hot'[Episode] = "gone" /\ fate'[Episode] \in {fate[Episode], plan.decision}
        /\ op # "drop" => fate' = fate
    BY <1>1, <2>1, <2>2, PlansInSteps, ZenonT(60) DEF StoreOk, Applied, InStore, TypeOK
  <2>6. Past(Episode) => hot'[Episode] = "gone"
    BY <2>1, <2>5, PlansInSteps, StagesDiffer DEF Past, AfterNode
  <2>7. op = "drop" => plan.decision \in audit[Episode] /\ (plan.decision = "consolidate" => links[Episode] > 0)
    BY <1>0, <2>1, PlansInSteps DEF Consolidation, PlanIsUnderWay
  <2>8. /\ fate'[Episode] \in Decisions => fate'[Episode] \in audit'[Episode]
        /\ fate'[Episode] = "consolidate" => links'[Episode] > 0
    BY <1>1, <2>2, <2>5, <2>7 DEF Consolidation, RemovalIsEvidenced, Decisions
  <2> QED
    BY <1>0, <2>2, <2>3, <2>4, <2>6, <2>8, MovesOn
<1>4. CASE ActFails
  <2>1. UNCHANGED <<nodes, links, audit>>
    BY <1>4 DEF ActFails, graph
  <2>2. CASE op \in StoreOps
    <3>1. StoreFails(op, Episode, plan.decision)
      BY <1>4, <2>2 DEF ActFails
    <3>2. op \in {"drop", "touch", "reinforce"}
      BY <2>2 DEF StoreOps
    <3>3. FaultsAreSpent /\ (cooling \/ faults' < faults)
      BY <3>1 DEF StoreFails, FaultsAreSpent, Fault, TypeOK, store
    <3>4. /\ \A d \in Episodes \ {Episode} : hot'[d] = hot[d] /\ fate'[d] = fate[d]
          /\ hot[Episode] = "gone" => hot'[Episode] = "gone"
      BY <1>0, <1>1, <3>1, <3>2, StoreTypes
    <3>5. /\ op # "drop" => fate' = fate
          /\ op = "drop" => fate'[Episode] \in {fate[Episode], plan.decision}
      BY <1>0, <1>1, <3>1, <3>2, StoreTypes
    <3>6. op = "drop" => plan.decision \in audit[Episode] /\ (plan.decision = "consolidate" => links[Episode] > 0)
      BY <1>0, PlansInSteps DEF Consolidation, PlanIsUnderWay, Stages
    <3>7. /\ fate'[Episode] \in Decisions => fate'[Episode] \in audit'[Episode]
          /\ fate'[Episode] = "consolidate" => links'[Episode] > 0
      BY <1>1, <2>1, <3>5, <3>6 DEF Consolidation, RemovalIsEvidenced, Decisions
    <3> QED
      BY <1>0, <2>1, <3>3, <3>4, <3>7, MovesOn
  <2>3. CASE op \notin StoreOps
    <3>1. Fault /\ UNCHANGED store
      BY <1>4, <2>3 DEF ActFails
    <3>2. FaultsAreSpent /\ faults' < faults /\ UNCHANGED <<hot, fate, cooling>>
      BY <3>1 DEF FaultsAreSpent, Fault, TypeOK, store
    <3> QED
      BY <1>0, <1>1, <2>1, <3>2, MovesOn DEF Consolidation, RemovalIsEvidenced
  <2> QED
    BY <2>2, <2>3
<1> QED
  BY <1>3, <1>4

-----------------------------------------------------------------------------
(* The compression. *)

LEMMA BesideCompression ==
  ASSUME TypeOK, TypeOK', NodesArePaidFor, DroppedIsListed, FaultsAreSpent,
         deleted' = deleted, Cmp \in Jobs /\ pc[Cmp] = "drop" => pc'[Cmp] = "drop",
         \A e \in Episodes : audit[e] \subseteq audit'[e] /\ (fate'[e] = Cmp => fate[e] = Cmp)
  PROVE  DroppedIsListed'
<1> USE MaintenanceAssumption
<1>1. faults' = MaxFaults => faults = MaxFaults
  BY DEF FaultsAreSpent, NodesArePaidFor, TypeOK
<1> QED
  BY <1>1 DEF DroppedIsListed

\* The consolidation drops an episode in the name of a decision.
LEMMA ConsolidationKeepsDropped ==
  ASSUME TypeOK, TypeOK', JobsRun, Consolidation, DroppedIsListed, Con \in Jobs, Consolidate
  PROVE  DroppedIsListed'
<1> USE MaintenanceAssumption
<1>1. deleted' = deleted
  BY DEF Consolidate, ReadCandidate, Classify, ClassifyFails, Act, ActFails
<1>2. Con # Cmp /\ (Cmp \in Jobs => pc'[Cmp] = pc[Cmp])
  <2>1. Con # Cmp
    BY DEF Con, Cmp
  <2>2. pc[Con] \in {"read", "classify", "act"} /\ targets[Con] # <<>>
    BY DEF Consolidate, ReadCandidate, Classify, ClassifyFails, Act, ActFails, JobsRun
  <2>3. NextOwner(Con) => \A k \in Jobs \ {Con} : pc'[k] = pc[k]
    BY <2>2, NextOwnerTypes
  <2>4. \/ NextOwner(Con) \/ UNCHANGED pc \/ \E l : pc' = [pc EXCEPT ![Con] = l]
    BY DEF Consolidate, ReadCandidate, Classify, ClassifyFails, Act, ActFails, NextCandidate
  <2> QED
    BY <2>1, <2>3, <2>4 DEF TypeOK
<1>3. \A e \in Episodes : audit[e] \subseteq audit'[e] /\ (fate'[e] = Cmp => fate[e] = Cmp)
  <2>1. CASE ReadCandidate \/ Classify \/ ClassifyFails
    BY <2>1 DEF ReadCandidate, Classify, ClassifyFails, store
  <2>2. CASE Act \/ ActFails
    <3>1. /\ cands[Con] # <<>> /\ plan.steps \in Stages /\ plan.decision \in Decisions
      BY <2>2 DEF Act, ActFails, Acting, Consolidation, CandidatesWereDue, PlanIsUnderWay
    <3>2. Episode \in Episodes
      BY <3>1, TailOfDistinct DEF Episode, TypeOK
    <3>3. \A e \in Episodes : fate'[e] = Cmp => fate[e] = Cmp
      <4>1. CASE Head(plan.steps) \in StoreOps
        <5>1. StoreOk(Head(plan.steps), Episode, plan.decision) \/ StoreFails(Head(plan.steps), Episode, plan.decision)
          BY <2>2, <4>1 DEF Act, ActFails
        <5>2. /\ \A d \in Episodes \ {Episode} : fate'[d] = fate[d]
              /\ fate'[Episode] \in {fate[Episode], plan.decision}
          BY <3>1, <3>2, <4>1, <5>1, StoreTypes DEF StoreOps
        <5> QED
          BY <3>1, <5>2 DEF Decisions, Cmp
      <4>2. CASE Head(plan.steps) \notin StoreOps
        BY <2>2, <4>2 DEF Act, ActFails, store
      <4> QED
        BY <4>1, <4>2
    <3>4. audit' = audit \/ audit' = [audit EXCEPT ![Episode] = @ \cup {plan.decision}]
      BY <2>2 DEF Act, ActFails, graph
    <3>5. \A e \in Episodes : audit[e] \subseteq audit'[e]
      <4>1. DOMAIN audit = Episodes
        BY DEF TypeOK
      <4> QED
        BY <3>2, <3>4, <4>1
    <3> QED
      BY <3>3, <3>5
  <2> QED
    BY <2>1, <2>2 DEF Consolidate
<1>4. FaultsAreSpent
  <2>1. faults' = faults \/ (faults > 0 /\ faults' = faults - 1)
    BY DEF Consolidate, ReadCandidate, Classify, ClassifyFails, Act, ActFails, Fault, StoreOk, StoreFails, store
  <2>2. cooling' => cooling \/ Fault
    BY DEF Consolidate, ReadCandidate, Classify, ClassifyFails, Act, ActFails, StoreOk, StoreFails, store
  <2> QED
    BY <2>1, <2>2 DEF FaultsAreSpent, Fault, TypeOK
<1> QED
  BY <1>1, <1>2, <1>3, <1>4, BesideCompression DEF Consolidation

\* Where a drain ends for another reason than an empty batch, a fault was spent.
LEMMA DrainEnds ==
  ASSUME TypeOK, TypeOK', JobsRun, DroppedIsListed, Cmp \in Jobs, targets[Cmp] # <<>>, EndDrain,
         \/ faults' < MaxFaults
         \/ deleted = <<>> /\ UNCHANGED <<fate, audit, faults>>
  PROVE  DroppedIsListed'
<1> USE MaintenanceAssumption
<1>1. deleted' = <<>>
  BY DEF EndDrain
<1>2. CASE faults' < MaxFaults
  BY <1>1, <1>2 DEF DroppedIsListed, TypeOK
<1>3. CASE deleted = <<>> /\ UNCHANGED <<fate, audit, faults>>
  BY <1>1, <1>3 DEF DroppedIsListed
<1> QED
  BY <1>2, <1>3

LEMMA CompressStep ==
  ASSUME TypeOK, TypeOK', JobsRun, Consolidation, DroppedIsListed, Cmp \in Jobs, CompressBatch
  PROVE  Consolidation' /\ DroppedIsListed'
<1> USE MaintenanceAssumption
<1>0. /\ pc[Cmp] \in {"read", "model", "drop"} /\ targets[Cmp] # <<>>
      /\ faults \in Nat /\ faults <= MaxFaults /\ (cooling => faults < MaxFaults)
  BY DEF CompressBatch, ReadEpisode, ReadMissing, AllRead, Compress, DropNext, AppendSummary, JobsRun,
     Consolidation, NodesArePaidFor, TypeOK
<1>1. Con # Cmp
  BY DEF Con, Cmp
<1>2. \A e \in Episodes : audit[e] \subseteq audit'[e]
  BY DEF CompressBatch, ReadEpisode, ReadMissing, AllRead, Compress, DropNext, AppendSummary
<1>3. UNCHANGED <<plan, nodes, links>>
  BY DEF CompressBatch, ReadEpisode, ReadMissing, AllRead, Compress, DropNext, AppendSummary, graph
<1>4. /\ \A k \in Jobs \ {Cmp} : cands'[k] = cands[k] /\ pc'[k] = pc[k]
      /\ EndDrain \/ pc'[Cmp] \in {"read", "model", "drop"}
  <2>1. CASE EndDrain
    BY <1>0, <2>1, EndDrainTypes
  <2>2. CASE ~EndDrain
    <3>1. UNCHANGED pc \/ \E l \in {"model", "drop"} : pc' = [pc EXCEPT ![Cmp] = l]
      BY <2>2 DEF CompressBatch, ReadEpisode, ReadMissing, AllRead, Compress, DropNext, AppendSummary, flow
    <3>2. UNCHANGED cands \/ cands' = [cands EXCEPT ![Cmp] = Tail(cands[Cmp])]
      BY <2>2 DEF CompressBatch, ReadEpisode, ReadMissing, AllRead, Compress, DropNext, AppendSummary
    <3>3. pc \in [Jobs -> PcPlaces] /\ cands \in [Jobs -> Seq(Episodes)]
      BY DEF TypeOK, PcPlaces
    <3>4. (\A k \in Jobs \ {Cmp} : pc'[k] = pc[k]) /\ pc'[Cmp] \in {"read", "model", "drop"}
      BY <1>0, <3>1, <3>3
    <3>5. \A k \in Jobs \ {Cmp} : cands'[k] = cands[k]
      BY <3>2, <3>3
    <3> QED
      BY <3>4, <3>5
  <2> QED
    BY <2>1, <2>2
<1>5. ConsolidationRests
  BY <1>1, <1>2, <1>3, <1>4 DEF ConsolidationRests
<1>6. CASE ReadEpisode \/ AllRead \/ Compress \/ AppendSummary
  <2>1. UNCHANGED <<hot, fate, cooling>> /\ (faults' = faults \/ (faults > 0 /\ faults' = faults - 1))
    BY <1>6 DEF ReadEpisode, AllRead, Compress, AppendSummary, store, Fault
  <2>2. StoreDecays /\ FaultsAreSpent
    BY <2>1, <1>0 DEF StoreDecays, FaultsAreSpent
  <2>3. ASSUME ReadEpisode PROVE DroppedIsListed'
    BY <1>2, <2>1, <2>2, <2>3, BesideCompression DEF ReadEpisode, flow, Consolidation
  <2>4. ASSUME AllRead PROVE DroppedIsListed'
    <3>1. pc[Cmp] = "read" /\ deleted = <<>> /\ UNCHANGED <<fate, audit, faults>>
      BY <2>4 DEF AllRead, DroppedIsListed, store
    <3>2. CASE EndDrain
      BY <1>0, <3>1, <3>2, DrainEnds
    <3>3. CASE ~EndDrain
      BY <1>2, <2>1, <2>2, <2>4, <3>1, <3>3, BesideCompression DEF AllRead, Consolidation
    <3> QED
      BY <3>2, <3>3
  <2>5. ASSUME Compress PROVE DroppedIsListed'
    <3>1. CASE EndDrain
      <4>1. pc'[Cmp] \in {"owner", "idle"}
        BY <1>0, <3>1, EndDrainTypes
      <4>2. pc' # [pc EXCEPT ![Cmp] = "drop"]
        BY <4>1 DEF TypeOK
      <4>3. faults' < MaxFaults
        BY <1>0, <2>5, <4>2 DEF Compress, Fault
      <4> QED
        BY <1>0, <3>1, <4>3, DrainEnds
    <3>2. CASE ~EndDrain
      <4>1. pc[Cmp] = "model" /\ deleted' = deleted
        BY <2>5, <3>2 DEF Compress
      <4> QED
        BY <1>2, <2>1, <2>2, <4>1, BesideCompression DEF Consolidation
    <3> QED
      BY <3>1, <3>2
  <2>6. ASSUME AppendSummary PROVE DroppedIsListed'
    <3>0. EndDrain
      BY <2>6 DEF AppendSummary
    <3>1. CASE faults' < MaxFaults
      BY <1>0, <3>0, <3>1, DrainEnds
    <3>2. CASE ~(faults' < MaxFaults)
      <4>1. faults' = faults /\ faults = MaxFaults /\ faults' \in Nat /\ faults \in Nat
        BY <1>0, <2>1, <3>2
      <4>2. audit' = [e \in Episodes |-> IF e \in Elements(deleted) THEN audit[e] \cup {Cmp} ELSE audit[e]]
        BY <2>6, <4>1 DEF AppendSummary, Fault
      <4>3. \A e \in Episodes : ~(fate'[e] = Cmp /\ Cmp \notin audit'[e])
        BY <2>1, <4>1, <4>2 DEF DroppedIsListed
      <4>4. deleted' = <<>>
        BY <3>0 DEF EndDrain
      <4> QED
        BY <4>3, <4>4 DEF DroppedIsListed
    <3> QED
      BY <3>1, <3>2
  <2>7. DroppedIsListed'
    BY <1>6, <2>3, <2>4, <2>5, <2>6
  <2> QED
    BY <1>5, <2>2, <2>7, BesideConsolidation
<1>7. CASE ReadMissing \/ DropNext
  <2>1. PICK e \in Episodes :
           /\ StoreOk("drop", e, Cmp) \/ (StoreFails("drop", e, Cmp) /\ EndDrain)
           /\ \/ ReadMissing /\ e = Found
              \/ DropNext /\ e = Head(batch)
    <3>1. ReadMissing => Found \in Episodes
      BY TailOfDistinct DEF ReadMissing, Found, TypeOK
    <3>2. DropNext => Head(batch) \in Episodes
      BY TailOfDistinct DEF DropNext, TypeOK
    <3> QED
      BY <1>7, <3>1, <3>2 DEF ReadMissing, DropNext
  <2>2. /\ \A d \in Episodes \ {e} : hot'[d] = hot[d] /\ fate'[d] = fate[d]
        /\ \/ fate' = fate /\ hot' = hot
           \/ hot'[e] = hot[e] /\ fate'[e] = fate[e] /\ ~InStore(e)
           \/ InStore(e) /\ hot'[e] = "gone" /\ fate'[e] = Cmp
    BY <2>1, StoreTypes
  <2>3. StoreDecays
    BY <2>2 DEF StoreDecays, InStore, Decisions, Cmp
  <2>4. FaultsAreSpent
    BY <2>1, SMTT(30) DEF StoreOk, StoreFails, FaultsAreSpent, Fault, TypeOK, store
  <2>5. CASE StoreFails("drop", e, Cmp) /\ EndDrain
    <3>1. faults' < MaxFaults
      BY <1>0, <2>5 DEF StoreFails, Fault
    <3>2. DroppedIsListed'
      BY <1>0, <2>5, <3>1, DrainEnds
    <3> QED
      BY <1>5, <2>3, <2>4, <3>2, BesideConsolidation
  <2>6. CASE StoreOk("drop", e, Cmp) /\ ~EndDrain
    <3>1. UNCHANGED <<pc, audit, faults>>
      BY <2>6, <1>7 DEF ReadMissing, DropNext, StoreOk
    <3>2. CASE ReadMissing /\ e = Found
      <4>1. deleted' = deleted /\ ~InStore(e)
        BY <2>6, <3>2 DEF ReadMissing
      <4>2. \A d \in Episodes : fate'[d] = Cmp => fate[d] = Cmp
        BY <2>2, <4>1
      <4>3. DroppedIsListed'
        BY <1>2, <2>4, <3>1, <4>1, <4>2, BesideCompression DEF Consolidation
      <4> QED
        BY <1>5, <2>3, <2>4, <4>3, BesideConsolidation
    <3>3. CASE DropNext /\ e = Head(batch)
      <4>1. deleted' = Append(deleted, e) /\ pc[Cmp] = "drop"
        BY <2>6, <3>3 DEF DropNext
      <4>2. Elements(deleted') = Elements(deleted) \cup {e}
        BY <4>1, ElementsOfAppend DEF TypeOK
      <4>3. DroppedIsListed'
        BY <2>2, <3>1, <4>1, <4>2 DEF DroppedIsListed
      <4> QED
        BY <1>5, <2>3, <2>4, <4>3, BesideConsolidation
    <3> QED
      BY <2>1, <3>2, <3>3
  <2>7. StoreOk("drop", e, Cmp) => StoreFails("drop", e, Cmp) \/ ~EndDrain
    <3>1. SUFFICES ASSUME StoreOk("drop", e, Cmp), ~StoreFails("drop", e, Cmp), EndDrain PROVE FALSE
      OBVIOUS
    <3>2. UNCHANGED targets
      BY <1>7, <3>1, <2>1 DEF ReadMissing, DropNext
    <3>3. Tail(targets[Cmp]) = targets[Cmp]
      BY <3>1, <3>2 DEF EndDrain, NextOwner, TypeOK
    <3>4. Len(Tail(targets[Cmp])) = Len(targets[Cmp]) - 1 /\ Len(targets[Cmp]) \in Nat
      BY <1>0, HeadTailProperties, LenProperties DEF TypeOK
    <3>5. Len(Tail(targets[Cmp])) = Len(targets[Cmp])
      BY <3>3, Zenon
    <3> QED
      BY <3>4, <3>5
  <2> QED
    BY <2>1, <2>5, <2>6, <2>7
<1> QED
  BY <1>6, <1>7 DEF CompressBatch

-----------------------------------------------------------------------------
(* The scheduler and the environment. *)

\* A step of neither worker.
LEMMA BesideBoth ==
  ASSUME TypeOK, TypeOK', Consolidation, DroppedIsListed, ConsolidationRests, StoreDecays,
         FaultsAreSpent, deleted' = deleted,
         Cmp \in Jobs /\ pc[Cmp] = "drop" => pc'[Cmp] = "drop",
         \A e \in Episodes : fate'[e] = Cmp => fate[e] = Cmp
  PROVE  Consolidation' /\ DroppedIsListed'
<1>1. Consolidation'
  BY BesideConsolidation
<1>2. \A e \in Episodes : audit[e] \subseteq audit'[e] /\ (fate'[e] = Cmp => fate[e] = Cmp)
  BY DEF ConsolidationRests
<1>3. NodesArePaidFor
  BY DEF Consolidation
<1>4. DroppedIsListed'
  BY <1>2, <1>3, BesideCompression
<1> QED
  BY <1>1, <1>4

\* A job starts or ends.
LEMMA FlowStep ==
  ASSUME TypeOK, TypeOK', Consolidation, DroppedIsListed,
         UNCHANGED <<work, store, graph, audit, faults>>,
         \A j \in Jobs : pc'[j] = pc[j] \/ {pc[j], pc'[j]} \subseteq {"idle", "owner"}
  PROVE  Consolidation' /\ DroppedIsListed'
<1>1. ConsolidationRests
  BY DEF ConsolidationRests, work, graph
<1>2. StoreDecays /\ FaultsAreSpent
  BY DEF StoreDecays, FaultsAreSpent, store, TypeOK
<1>3. deleted' = deleted /\ fate' = fate
  BY DEF work, store
<1>4. Cmp \in Jobs /\ pc[Cmp] = "drop" => pc'[Cmp] = "drop"
  OBVIOUS
<1> QED
  BY <1>1, <1>2, <1>3, <1>4, BesideBoth

LEMMA StartStep ==
  ASSUME TypeOK, TypeOK', JobsRun, Consolidation, DroppedIsListed,
         NEW j \in Jobs, NEW q, MayStart(j), Start(j, q)
  PROVE  Consolidation' /\ DroppedIsListed'
<1>1. j \notin busy
  BY DEF MayStart, Blocks
<1>2. pc[j] = "idle"
  BY <1>1 DEF JobsRun
<1>3. \A k \in Jobs : pc'[k] = pc[k] \/ {pc[k], pc'[k]} \subseteq {"idle", "owner"}
  BY <1>2 DEF Start, TypeOK
<1>4. UNCHANGED <<work, store, graph, audit, faults>>
  BY DEF Start
<1> QED
  BY <1>3, <1>4, FlowStep

LEMMA OwnerStep ==
  ASSUME TypeOK, TypeOK', Consolidation, DroppedIsListed, NEW j \in Jobs,
         Finish(j) \/ Sweep(j)
  PROVE  Consolidation' /\ DroppedIsListed'
<1>1. \A k \in Jobs : pc'[k] = pc[k] \/ {pc[k], pc'[k]} \subseteq {"idle", "owner"}
  <2>1. CASE Finish(j)
    BY <2>1 DEF Finish, TypeOK
  <2>2. CASE Sweep(j)
    BY <2>2, NextOwnerTypes DEF Sweep
  <2> QED
    BY <2>1, <2>2
<1>2. UNCHANGED <<work, store, graph, audit, faults>>
  BY DEF Finish, Sweep
<1> QED
  BY <1>1, <1>2, FlowStep

LEMMA ListStep ==
  ASSUME TypeOK, TypeOK', JobsRun, Consolidation, DroppedIsListed, NEW j \in Jobs,
         ListCandidates(j)
  PROVE  Consolidation' /\ DroppedIsListed'
<1> USE MaintenanceAssumption
<1>0. /\ pc[j] = "owner" /\ targets[j] # <<>> /\ j \in {Con, Cmp} /\ Con # Cmp
      /\ UNCHANGED <<plan, deleted, hot, fate, cooling, nodes, links, audit>>
  BY DEF ListCandidates, UsesWorkingMemory, Con, Cmp, store, graph
<1>1. StoreDecays
  BY <1>0 DEF StoreDecays
<1>2. CASE UNCHANGED cands /\ NextOwner(j)
  <2>1. faults' = faults \/ (faults > 0 /\ faults' = faults - 1)
    <3>1. CASE faults' = faults
      BY <3>1
    <3>2. CASE faults' # faults
      BY <1>2, <3>2 DEF ListCandidates, Fault
    <3> QED
      BY <3>1, <3>2
  <2>2. FaultsAreSpent
    BY <1>0, <2>1 DEF FaultsAreSpent, TypeOK
  <2>3. \A k \in Jobs : pc'[k] = pc[k] \/ {pc[k], pc'[k]} \subseteq {"idle", "owner"}
    BY <1>0, <1>2, NextOwnerTypes
  <2>4. ConsolidationRests
    BY <1>0, <1>2, <2>3 DEF ConsolidationRests
  <2>5. Cmp \in Jobs /\ pc[Cmp] = "drop" => pc'[Cmp] = "drop"
    BY <2>3
  <2> QED
    BY <1>0, <1>1, <2>2, <2>4, <2>5, BesideBoth
<1>3. CASE ~(UNCHANGED cands /\ NextOwner(j))
  <2>1. /\ ~cooling /\ \E s \in Listings(Head(targets[j])) : cands' = [cands EXCEPT ![j] = s]
        /\ pc' = [pc EXCEPT ![j] = "read"] /\ UNCHANGED faults
    BY <1>3 DEF ListCandidates
  <2>2. PICK q \in Listings(Head(targets[j])) : cands' = [cands EXCEPT ![j] = q]
    BY <2>1
  <2>3. q \in Seq(Episodes) /\ Distinct(q) /\ Elements(q) \subseteq Due(Head(targets[j]))
    BY ListingIsDistinct
  <2>4. /\ cands'[j] = q /\ pc'[j] = "read"
        /\ \A k \in Jobs \ {j} : cands'[k] = cands[k] /\ pc'[k] = pc[k]
    BY <2>1, <2>2 DEF TypeOK
  <2>5. FaultsAreSpent
    BY <1>0, <2>1 DEF FaultsAreSpent, TypeOK
  <2>6. DroppedIsListed'
    <3>1. Cmp \in Jobs /\ pc[Cmp] = "drop" => pc'[Cmp] = "drop"
      BY <1>0, <2>4
    <3> QED
      BY <1>0, <2>5, <3>1, BesideCompression DEF Consolidation
  <2>7. CASE j = Cmp
    <3>1. ConsolidationRests
      BY <1>0, <2>4, <2>7 DEF ConsolidationRests
    <3> QED
      BY <1>1, <2>5, <2>6, <3>1, BesideConsolidation
  <2>8. CASE j = Con
    <3>1. /\ Flight' = Elements(q) /\ ~Acting /\ ~Acting'
          /\ \A e \in Flight' : e \in Episodes /\ hot'[e] = "due"
      BY <1>0, <2>3, <2>4, <2>8 DEF Flight, Acting, Due
    <3>2. CandidatesWereDue'
      BY <2>3, <2>4, <2>8, <3>1 DEF CandidatesWereDue
    <3>3. \A e \in Episodes : ~Past(e) /\ ~Past(e)' /\ Pending(e)' = 0
      BY <1>0, <2>1, <3>1 DEF Past, Pending
    <3>4. \A e \in Episodes : Allowed(e) \in {0, 1} /\ Allowed(e)' \in {0, 1} /\ Allowed(e) <= Allowed(e)'
      BY <1>0, <3>1, <3>3 DEF Allowed
    <3>5. NodesArePaidFor'
      <4>1. ASSUME NEW e \in Episodes
            PROVE  nodes'[e] + Pending(e)' <= (MaxFaults - faults') + Allowed(e)'
        <5>1. nodes[e] + Pending(e) <= (MaxFaults - faults) + Allowed(e)
          BY DEF Consolidation, NodesArePaidFor
        <5>2. Pending(e) \in {0, 1} /\ nodes[e] \in Nat /\ faults \in Nat /\ faults' = faults /\ nodes' = nodes
          BY <1>0, <2>1 DEF Pending, TypeOK
        <5> QED
          BY <3>3, <3>4, <5>1, <5>2
      <4>2. faults' <= MaxFaults /\ (cooling' => faults' < MaxFaults)
            /\ \A e \in Episodes : links'[e] <= nodes'[e]
        BY <1>0, <2>1 DEF Consolidation, NodesArePaidFor
      <4> QED
        BY <4>1, <4>2 DEF NodesArePaidFor
    <3>6. PlanIsUnderWay' /\ RemovalIsEvidenced'
      BY <1>0, <3>1 DEF PlanIsUnderWay, Consolidation, RemovalIsEvidenced
    <3> QED
      BY <2>6, <3>2, <3>5, <3>6 DEF Consolidation
  <2> QED
    BY <1>0, <2>7, <2>8
<1> QED
  BY <1>2, <1>3

LEMMA TurnStep ==
  ASSUME TypeOK, TypeOK', Consolidation, DroppedIsListed, NEW e \in Episodes,
         Turn(e) \/ Record(e) \/ TurnFails(e)
  PROVE  Consolidation' /\ DroppedIsListed'
<1>1. UNCHANGED <<pc, work, graph, audit>> /\ (WriteOk(e) \/ TurnFails(e))
  BY DEF Turn, Record, TurnFails, flow
<1>2. /\ faults' \in Nat /\ faults' <= faults /\ (cooling' => cooling \/ faults' < faults)
      /\ \A d \in Episodes :
            \/ hot'[d] = hot[d] /\ fate'[d] = fate[d]
            \/ hot[d] = "none" /\ hot'[d] = "fresh" /\ fate'[d] = fate[d]
            \/ hot'[d] = "gone" /\ fate'[d] = "evicted"
  BY <1>1, WriteTypes
<1>3. StoreDecays
  BY <1>2 DEF StoreDecays, Decisions
<1>4. FaultsAreSpent
  BY <1>2 DEF FaultsAreSpent
<1>5. ConsolidationRests
  BY <1>1 DEF ConsolidationRests, work, graph
<1>6. deleted' = deleted /\ \A d \in Episodes : fate'[d] = Cmp => fate[d] = Cmp
  BY <1>1, <1>2 DEF work, Cmp
<1> QED
  BY <1>1, <1>3, <1>4, <1>5, <1>6, BesideBoth

LEMMA AgeStep ==
  ASSUME TypeOK, TypeOK', Consolidation, DroppedIsListed,
         CoolingOver \/ \E e \in Episodes : Age(e)
  PROVE  Consolidation' /\ DroppedIsListed'
<1>1. UNCHANGED <<pc, work, graph, audit, faults>>
  BY DEF Age, CoolingOver, flow
<1>2. /\ \A e \in Episodes : /\ fate'[e] \in {fate[e], "expired"}
                             /\ hot'[e] = hot[e] \/ hot'[e] = "gone" \/ hot[e] = "fresh"
                             /\ hot[e] = "gone" => hot'[e] = "gone"
      /\ cooling' => cooling
  <2>1. CASE CoolingOver
    BY <2>1 DEF CoolingOver
  <2>2. ASSUME NEW e \in Episodes, Age(e) PROVE <1>2!1 /\ <1>2!2
    BY <2>2, SMTT(30) DEF Age, InStore, TypeOK
  <2> QED
    BY <2>1, <2>2
<1>3. StoreDecays
  BY <1>2 DEF StoreDecays, Decisions
<1>4. FaultsAreSpent
  BY <1>1, <1>2 DEF FaultsAreSpent, TypeOK
<1>5. ConsolidationRests
  BY <1>1 DEF ConsolidationRests, work, graph
<1>6. deleted' = deleted /\ \A e \in Episodes : fate'[e] = Cmp => fate[e] = Cmp
  BY <1>1, <1>2 DEF work, Cmp
<1> QED
  BY <1>1, <1>3, <1>4, <1>5, <1>6, BesideBoth

LEMMA CrashStep ==
  ASSUME TypeOK, TypeOK', Consolidation, DroppedIsListed, Crash
  PROVE  Consolidation' /\ DroppedIsListed'
<1> USE MaintenanceAssumption
<1>1. /\ \A j \in Jobs : pc'[j] = "idle" /\ cands'[j] = <<>>
      /\ deleted' = <<>> /\ cooling' = FALSE /\ UNCHANGED <<hot, fate, nodes, links, audit>>
      /\ faults > 0 /\ faults' = faults - 1 /\ faults \in Nat /\ faults <= MaxFaults
  BY DEF Crash, Fault, graph, Consolidation, NodesArePaidFor, TypeOK
<1>2. Flight' = {} /\ ~Acting' /\ (Con \in Jobs => Distinct(cands'[Con]))
  BY <1>1 DEF Flight, Acting, Elements, Distinct
<1>3. CandidatesWereDue' /\ PlanIsUnderWay'
  BY <1>1, <1>2 DEF CandidatesWereDue, PlanIsUnderWay
<1>4. NodesArePaidFor'
  <2>1. ASSUME NEW e \in Episodes
        PROVE  nodes'[e] + Pending(e)' <= (MaxFaults - faults') + Allowed(e)'
    <3>1. nodes[e] + Pending(e) <= (MaxFaults - faults) + Allowed(e) /\ nodes[e] \in Nat /\ nodes' = nodes
      BY <1>1 DEF Consolidation, NodesArePaidFor, TypeOK
    <3>2. Pending(e) \in {0, 1} /\ Pending(e)' = 0 /\ Allowed(e) \in {0, 1} /\ Allowed(e)' \in {0, 1}
      BY <1>1 DEF Pending, Allowed
    <3> QED
      BY <1>1, <3>1, <3>2
  <2> QED
    BY <1>1, <2>1 DEF Consolidation, NodesArePaidFor
<1>5. RemovalIsEvidenced'
  BY <1>1 DEF Consolidation, RemovalIsEvidenced
<1>6. DroppedIsListed'
  BY <1>1 DEF DroppedIsListed
<1> QED
  BY <1>3, <1>4, <1>5, <1>6 DEF Consolidation

LEMMA StutterStep ==
  ASSUME IInv, UNCHANGED vars
  PROVE  IInv'
<1> USE DEF IInv, Consolidation, vars, flow, work, store, graph
<1>1. TypeOK' /\ JobsRun'
  BY DEF TypeOK, JobsRun
<1>2. Flight' = Flight /\ Acting' = Acting
  BY DEF Flight, Acting
<1>3. CandidatesWereDue'
  BY <1>2 DEF CandidatesWereDue
<1>4. PlanIsUnderWay'
  BY <1>2 DEF PlanIsUnderWay, Episode
<1>5. NodesArePaidFor'
  <2>1. \A e \in Episodes : Past(e)' = Past(e)
    BY <1>2 DEF Past, Episode
  <2>2. \A e \in Episodes : Allowed(e)' = Allowed(e) /\ Pending(e)' = Pending(e)
    BY <1>2, <2>1 DEF Allowed, Pending
  <2> QED
    BY <2>2 DEF NodesArePaidFor
<1>6. RemovalIsEvidenced' /\ DroppedIsListed'
  BY DEF RemovalIsEvidenced, DroppedIsListed
<1> QED
  BY <1>1, <1>3, <1>4, <1>5, <1>6

-----------------------------------------------------------------------------
(* The inductive invariant. *)

LEMMA InitHolds ==
  Init => IInv
<1> SUFFICES ASSUME Init PROVE IInv
  OBVIOUS
<1> USE MaintenanceAssumption DEF Init
<1>1. TypeOK
  <2>1. <<>> \in Seq(Owners) /\ <<>> \in Seq(Episodes) /\ <<>> \in Seq(Steps)
    BY EmptySeq
  <2> QED
    BY <2>1 DEF TypeOK
<1>2. JobsRun
  BY DEF JobsRun
<1>3. Flight = {} /\ ~Acting /\ (Con \in Jobs => Distinct(cands[Con]))
  BY DEF Flight, Acting, Elements, Distinct
<1>4. CandidatesWereDue /\ PlanIsUnderWay
  BY <1>3 DEF CandidatesWereDue, PlanIsUnderWay
<1>5. NodesArePaidFor
  <2>1. \A e \in Episodes : nodes[e] = 0 /\ links[e] = 0 /\ Pending(e) = 0 /\ Allowed(e) \in {0, 1}
    BY DEF Pending, Allowed
  <2> QED
    BY <2>1 DEF NodesArePaidFor
<1>6. RemovalIsEvidenced /\ DroppedIsListed
  BY DEF RemovalIsEvidenced, DroppedIsListed, Decisions, Cmp
<1> QED
  BY <1>1, <1>2, <1>4, <1>5, <1>6 DEF IInv, Consolidation

LEMMA NextKeeps ==
  IInv /\ [Next]_vars => IInv'
<1> SUFFICES ASSUME IInv, [Next]_vars PROVE IInv'
  OBVIOUS
<1>0. TypeOK /\ JobsRun /\ Consolidation /\ DroppedIsListed
  BY DEF IInv
<1>1. CASE UNCHANGED vars
  BY <1>1, StutterStep
<1>2. CASE Next
  <2>1. TypeOK' /\ JobsRun'
    BY <1>0, <1>2, TypeStep, JobsRunStep DEF Consolidation
  <2>2. ASSUME NEW j \in Jobs, Tick(j) \/ Work(j) PROVE Consolidation' /\ DroppedIsListed'
    <3>1. CASE Tick(j)
      BY <1>0, <2>1, <3>1, StartStep DEF Tick
    <3>2. CASE ListCandidates(j)
      BY <1>0, <2>1, <3>2, ListStep
    <3>3. CASE Finish(j) \/ Sweep(j)
      BY <1>0, <2>1, <3>3, OwnerStep
    <3> QED
      BY <2>2, <3>1, <3>2, <3>3 DEF Work
  <2>3. ASSUME NEW o \in Owners, IdleDream(o) PROVE Consolidation' /\ DroppedIsListed'
    <3>1. CASE MayStart("dream")
      BY <1>0, <2>1, <2>3, <3>1, StartStep DEF IdleDream
    <3>2. CASE ~MayStart("dream")
      BY <1>0, <2>1, <2>3, <3>2, FlowStep DEF IdleDream
    <3> QED
      BY <3>1, <3>2
  <2>4. ASSUME NEW e \in Episodes, Turn(e) \/ Record(e) \/ TurnFails(e) \/ Age(e)
        PROVE  Consolidation' /\ DroppedIsListed'
    BY <1>0, <2>1, <2>4, TurnStep, AgeStep
  <2>5. ASSUME Con \in Jobs /\ Consolidate PROVE Consolidation' /\ DroppedIsListed'
    <3>1. Consolidation'
      <4>1. CASE ReadCandidate
        BY <1>0, <2>1, <2>5, <4>1, ReadCandidateStep
      <4>2. CASE Classify \/ ClassifyFails
        BY <1>0, <2>1, <2>5, <4>2, ClassifyStep
      <4>3. CASE (Act \/ ActFails) /\ NextCandidate
        BY <1>0, <2>1, <2>5, <4>3, LastStep
      <4>4. CASE Act /\ ~NextCandidate
        BY <1>0, <2>1, <2>5, <4>4, PlanStep
      <4>5. ActFails => NextCandidate
        BY DEF ActFails
      <4> QED
        BY <2>5, <4>1, <4>2, <4>3, <4>4, <4>5 DEF Consolidate
    <3>2. DroppedIsListed'
      BY <1>0, <2>1, <2>5, ConsolidationKeepsDropped
    <3> QED
      BY <3>1, <3>2
  <2>6. ASSUME Cmp \in Jobs /\ CompressBatch PROVE Consolidation' /\ DroppedIsListed'
    BY <1>0, <2>1, <2>6, CompressStep
  <2>7. ASSUME Stop PROVE Consolidation' /\ DroppedIsListed'
    BY <1>0, <2>1, <2>7, FlowStep DEF Stop
  <2>8. ASSUME CoolingOver PROVE Consolidation' /\ DroppedIsListed'
    BY <1>0, <2>1, <2>8, AgeStep
  <2>9. ASSUME Crash PROVE Consolidation' /\ DroppedIsListed'
    BY <1>0, <2>1, <2>9, CrashStep
  <2>10. Consolidation' /\ DroppedIsListed'
    BY <1>2, <2>2, <2>3, <2>4, <2>5, <2>6, <2>7, <2>8, <2>9 DEF Next
  <2> QED
    BY <2>1, <2>10 DEF IInv
<1> QED
  BY <1>1, <1>2

THEOREM Invariant == Spec => []IInv
BY InitHolds, NextKeeps, PTL DEF Spec

-----------------------------------------------------------------------------
(* What follows from it. *)

\* Every plan is a plan of a decision the worker knows and every candidate an episode, for any
\* owners, episodes, jobs and failures: drain and the scheduler never leave their states.
THEOREM TypeCorrect == Spec => []TypeOK
<1>1. IInv => TypeOK
  BY DEF IInv
<1> QED
  BY <1>1, Invariant, PTL

\* ConsolidationWorker removes no episode it has no evidence of, for any batch and any number of
\* failures.
THEOREM EvidencedRemoval == Spec => []RemovalIsEvidenced
<1>1. IInv => RemovalIsEvidenced
  BY DEF IInv, Consolidation
<1> QED
  BY <1>1, Invariant, PTL

\* ConsolidationWorker makes a second node of an episode only at the price of a failure, for
\* any number of failures.
THEOREM PromotedOnce == Spec => []PromotedOncePerFailure
<1>1. IInv => PromotedOncePerFailure
  <2>1. SUFFICES ASSUME IInv, NEW e \in Episodes
                 PROVE  links[e] <= nodes[e] /\ nodes[e] <= 1 + (MaxFaults - faults)
    BY DEF PromotedOncePerFailure
  <2>2. /\ links[e] <= nodes[e]
        /\ nodes[e] + Pending(e) <= (MaxFaults - faults) + Allowed(e)
    BY <2>1 DEF IInv, Consolidation, NodesArePaidFor
  <2>3. /\ nodes[e] \in Nat /\ faults \in Nat /\ MaxFaults \in Nat
        /\ Pending(e) \in {0, 1} /\ Allowed(e) \in {0, 1}
    BY <2>1, MaintenanceAssumption DEF IInv, TypeOK, Pending, Allowed
  <2> QED
    BY <2>2, <2>3
<1> QED
  BY <1>1, Invariant, PTL

\* HotMemoryCompressionWorker drops an episode without naming it in a summary only where an
\* operation failed or the process died in between.
THEOREM LossOnlyOnFailure == Spec => []CompressionLosesOnlyOnFailure
<1>1. IInv => CompressionLosesOnlyOnFailure
  <2>1. SUFFICES ASSUME IInv PROVE CompressionLosesOnlyOnFailure
    OBVIOUS
  <2>2. faults = MaxFaults \/ faults < MaxFaults
    <3>1. faults \in Nat /\ MaxFaults \in Nat /\ faults <= MaxFaults
      BY <2>1, MaintenanceAssumption DEF IInv, TypeOK, Consolidation, NodesArePaidFor
    <3> QED
      BY <3>1
  <2> QED
    BY <2>1, <2>2 DEF IInv, DroppedIsListed, CompressionLosesOnlyOnFailure
<1> QED
  BY <1>1, Invariant, PTL

\* A write that evicts an episode not due yet finds the store full and leaves none that is due.
LEMMA EvictionIsForced ==
  ASSUME TypeOK, MaintenanceAssumption, NEW e \in Episodes, WriteOk(e) \/ TurnFails(e),
         NEW d \in Episodes, hot[d] = "fresh", hot'[d] = "gone"
  PROVE  Forced(d)
<1>1. PICK n \in {Overflow(OwnerOf[e])} \cup 0..Overflow(OwnerOf[e]) :
         \E V \in Evictions(OwnerOf[e], n), w \in {{}, {e}} : Evict(V, w)
  BY DEF WriteOk, TurnFails, store
<1>2. PICK V \in Evictions(OwnerOf[e], n), w \in {{}, {e}} : Evict(V, w)
  BY <1>1
<1>3. hot[e] = "none"
  BY DEF WriteOk, TurnFails, MayWrite
<1>4. d \in V /\ fate'[d] = "evicted"
  BY <1>2, <1>3 DEF Evict
<1>5. V \subseteq Held(OwnerOf[e]) /\ Cardinality(V) = n /\ OwnerOf[d] = OwnerOf[e]
  BY <1>2, <1>4 DEF Evictions, Held
<1>6. Cardinality(Held(OwnerOf[e])) >= MaxPerOwner
  <2>1. IsFiniteSet(Held(OwnerOf[e])) /\ IsFiniteSet(V)
    BY <1>5, FS_Subset DEF Held, MaintenanceAssumption
  <2>2. n # 0
    BY <1>4, <1>5, <2>1, FS_EmptySet
  <2>3. Overflow(OwnerOf[e]) # 0
    BY <1>1, <2>2
  <2>4. Cardinality(Held(OwnerOf[e])) \in Nat
    BY <2>1, FS_CardinalityType
  <2> QED
    BY <2>3, <2>4 DEF Overflow, MaintenanceAssumption
<1>7. ASSUME NEW f \in Held(OwnerOf[e]), hot[f] = "due" PROVE hot'[f] = "gone"
  <2>1. f \in V
    BY <1>2, <1>4, <1>7 DEF Evictions
  <2> QED
    BY <1>2, <1>3, <1>7, <2>1 DEF Evict, Held
<1> QED
  BY <1>4, <1>5, <1>6, <1>7 DEF Forced

\* No step takes out an episode whose review was postponed, but the compression that had read
\* it before and a write into a full store that leaves no episode of the owner that is due.
THEOREM PostponedKept == Spec => PostponedIsKept
<1> DEFINE Kept == \A e \in Episodes : hot[e] = "fresh" /\ hot'[e] = "gone" =>
        \/ e \in Elements(batch)
        \/ /\ fate'[e] = "evicted" /\ Cardinality(Held(OwnerOf[e])) >= MaxPerOwner
           /\ \A d \in Held(OwnerOf[e]) : hot[d] = "due" => hot'[d] = "gone"
<1>1. ASSUME IInv, [Next]_vars PROVE [Kept]_vars
  <2> USE MaintenanceAssumption
  <2>0. TypeOK /\ JobsRun /\ Consolidation
    BY <1>1 DEF IInv
  <2>1. CASE UNCHANGED hot
    BY <2>1
  <2>2. ASSUME NEW e \in Episodes, Turn(e) \/ Record(e) \/ TurnFails(e) \/ Age(e) PROVE Kept
    <3>1. CASE WriteOk(e) \/ TurnFails(e)
      BY <2>0, <3>1, EvictionIsForced DEF Forced
    <3>2. CASE Age(e)
      BY <2>0, <3>2 DEF Age, TypeOK
    <3> QED
      BY <2>2, <3>1, <3>2 DEF Turn, Record
  <2>3. ASSUME Con \in Jobs, Act \/ ActFails PROVE Kept
    <3>1. pc[Con] = "act" /\ cands[Con] # <<>> /\ plan.steps \in Stages /\ plan.decision \in Decisions
      BY <2>0, <2>3 DEF Act, ActFails, Acting, Consolidation, CandidatesWereDue, PlanIsUnderWay
    <3>2. Episode \in Episodes /\ hot[Episode] # "fresh"
      BY <2>0, <2>3, <3>1, TailOfDistinct DEF Episode, TypeOK, Flight, Consolidation, CandidatesWereDue
    <3>3. CASE Head(plan.steps) \in StoreOps
      <4>1. \/ StoreOk(Head(plan.steps), Episode, plan.decision)
            \/ StoreFails(Head(plan.steps), Episode, plan.decision)
        BY <2>3, <3>3 DEF Act, ActFails
      <4>2. \A d \in Episodes \ {Episode} : hot'[d] = hot[d]
        BY <2>0, <3>1, <3>2, <3>3, <4>1, StoreTypes DEF StoreOps
      <4> QED
        BY <3>2, <4>2
    <3>4. CASE Head(plan.steps) \notin StoreOps
      BY <2>3, <3>4 DEF Act, ActFails, store
    <3> QED
      BY <3>3, <3>4
  <2>4. ASSUME Cmp \in Jobs, ReadMissing PROVE Kept
    <3>1. Found \in Episodes /\ hot[Found] \in {"none", "gone"}
      BY <2>0, <2>4, TailOfDistinct DEF ReadMissing, Found, InStore, TypeOK
    <3>2. StoreOk("drop", Found, Cmp) \/ StoreFails("drop", Found, Cmp)
      BY <2>4 DEF ReadMissing
    <3>3. \A d \in Episodes \ {Found} : hot'[d] = hot[d]
      BY <2>0, <3>1, <3>2, StoreTypes
    <3> QED
      BY <3>1, <3>3
  <2>5. ASSUME Cmp \in Jobs, DropNext PROVE Kept
    <3>1. Head(batch) \in Episodes /\ Head(batch) \in Elements(batch)
      BY <2>0, <2>5, TailOfDistinct DEF DropNext, TypeOK
    <3>2. StoreOk("drop", Head(batch), Cmp) \/ StoreFails("drop", Head(batch), Cmp)
      BY <2>5 DEF DropNext
    <3>3. \A d \in Episodes \ {Head(batch)} : hot'[d] = hot[d]
      BY <2>0, <3>1, <3>2, StoreTypes
    <3> QED
      BY <3>1, <3>3
  <2>6. ASSUME NEW j \in Jobs, Tick(j) \/ Work(j) PROVE UNCHANGED hot
    BY <2>6 DEF Tick, Start, Work, ListCandidates, Sweep, Finish, store
  <2>7. ASSUME NEW o \in Owners, IdleDream(o) PROVE UNCHANGED hot
    BY <2>7 DEF IdleDream, Start, store
  <2>8. CASE UNCHANGED vars
    BY <2>8
  <2>9. CASE Next
    <3>1. ASSUME Con \in Jobs, Consolidate PROVE Kept
      <4>1. CASE ReadCandidate \/ Classify \/ ClassifyFails
        BY <4>1 DEF ReadCandidate, Classify, ClassifyFails, store
      <4> QED
        BY <2>3, <3>1, <4>1 DEF Consolidate
    <3>2. ASSUME Cmp \in Jobs, CompressBatch PROVE Kept
      <4>1. CASE ReadEpisode \/ AllRead \/ Compress \/ AppendSummary
        BY <4>1 DEF ReadEpisode, AllRead, Compress, AppendSummary, store
      <4> QED
        BY <2>4, <2>5, <3>2, <4>1 DEF CompressBatch
    <3>3. CASE Stop \/ CoolingOver \/ Crash
      BY <3>3 DEF Stop, CoolingOver, Crash, store
    <3> QED
      BY <2>2, <2>6, <2>7, <2>9, <3>1, <3>2, <3>3 DEF Next
  <2> QED
    BY <1>1, <2>8, <2>9
<1> QED
  BY <1>1, Invariant, PTL DEF Spec, PostponedIsKept

-----------------------------------------------------------------------------
(* The busy flags: an invariant of its own. *)

LEMMA FlagsOfOne ==
  /\ \A j \in Jobs : j \in Raises(j) /\ Raises(j) \subseteq Blocks(j)
  /\ \A i, j \in Jobs : (i # j /\ (i \in Jobs \cap BrainJobs => j \notin BrainJobs))
        => Raises(i) \cap Raises(j) = {}
BY MaintenanceAssumption DEF Raises, Blocks, BrainJobs, AllJobs

LEMMA FlagsAreUp ==
  ASSUME TypeOK, FlagsMatchJobs, NEW j \in Jobs, NEW q, MayStart(j), Start(j, q)
  PROVE  FlagsMatchJobs'
<1>1. pc' = [pc EXCEPT ![j] = "owner"] /\ busy' = busy \cup Raises(j)
  BY DEF Start
<1>2. Running(j)' /\ \A k \in Jobs \ {j} : Running(k)' <=> Running(k)
  BY <1>1 DEF Running, TypeOK
<1>3. ~Running(j)
  BY FlagsOfOne DEF MayStart, FlagsMatchJobs
<1>4. {k \in Jobs : Running(k)}' = {k \in Jobs : Running(k)} \cup {j}
  BY <1>2
<1>5. busy' = UNION {Raises(k) : k \in {k \in Jobs : Running(k)}'}
  BY <1>1, <1>4 DEF FlagsMatchJobs
<1>6. ASSUME j \in BrainJobs PROVE \A k \in Jobs \cap BrainJobs : ~Running(k)
  BY <1>6 DEF MayStart, Blocks, FlagsMatchJobs, Raises
<1> QED
  BY <1>2, <1>5, <1>6 DEF FlagsMatchJobs

LEMMA FlagsAreDown ==
  ASSUME TypeOK, FlagsMatchJobs, NEW j \in Jobs, Running(j),
         ~Running(j)', \A k \in Jobs \ {j} : Running(k)' <=> Running(k), busy' = busy \ Raises(j)
  PROVE  FlagsMatchJobs'
<1>1. {k \in Jobs : Running(k)}' = {k \in Jobs : Running(k)} \ {j}
  OBVIOUS
<1>2. \A k \in Jobs \ {j} : Running(k) => Raises(k) \cap Raises(j) = {}
  BY FlagsOfOne DEF FlagsMatchJobs
<1>3. busy' = UNION {Raises(k) : k \in {k \in Jobs : Running(k)} \ {j}}
  BY <1>2 DEF FlagsMatchJobs
<1> QED
  BY <1>1, <1>3 DEF FlagsMatchJobs

LEMMA FlagsStay ==
  ASSUME FlagsMatchJobs, \A k \in Jobs : Running(k)' <=> Running(k), busy' = busy
  PROVE  FlagsMatchJobs'
<1>1. {k \in Jobs : Running(k)}' = {k \in Jobs : Running(k)}
  OBVIOUS
<1> QED
  BY <1>1 DEF FlagsMatchJobs

\* However a job ends, by success, by an error that is swallowed or by the death of the process,
\* BackgroundScheduler takes down exactly the flags it raised for it, and the jobs that write the
\* event ledger never overlap.
THEOREM FlagsMatch == Spec => []FlagsMatchJobs
<1> USE MaintenanceAssumption
<1>1. Init => FlagsMatchJobs
  BY DEF Init, FlagsMatchJobs, Running
<1>2. ASSUME IInv, FlagsMatchJobs, [Next]_vars PROVE FlagsMatchJobs'
  <2>0. TypeOK /\ JobsRun
    BY <1>2 DEF IInv
  <2>1. ASSUME NEW j \in Jobs, Running(j), targets[j] # <<>>, NextOwner(j) PROVE FlagsMatchJobs'
    <3>1. /\ pc'[j] \in {"owner", "idle"} /\ \A k \in Jobs \ {j} : pc'[k] = pc[k]
      BY <2>0, <2>1, NextOwnerTypes
    <3>2. CASE Len(targets[j]) > 1
      <4>1. busy' = busy /\ pc' = [pc EXCEPT ![j] = "owner"]
        BY <2>1, <3>2 DEF NextOwner
      <4>2. pc'[j] = "owner"
        BY <2>0, <4>1 DEF TypeOK
      <4> QED
        BY <1>2, <2>1, <3>1, <4>1, <4>2, FlagsStay DEF Running
    <3>3. CASE ~(Len(targets[j]) > 1)
      <4>1. busy' = busy \ Raises(j) /\ pc' = [pc EXCEPT ![j] = "idle"]
        BY <2>1, <3>3 DEF NextOwner
      <4>2. pc'[j] = "idle"
        BY <2>0, <4>1 DEF TypeOK
      <4> QED
        BY <1>2, <2>0, <2>1, <3>1, <4>1, <4>2, FlagsAreDown DEF Running
    <3> QED
      BY <3>2, <3>3
  <2>2. ASSUME NEW j \in Jobs, NEW l, pc[j] # "idle", l # "idle", pc' = [pc EXCEPT ![j] = l], busy' = busy
        PROVE  FlagsMatchJobs'
    BY <1>2, <2>0, <2>2, FlagsStay DEF Running, TypeOK
  <2>3. CASE pc' = pc /\ busy' = busy
    BY <1>2, <2>3, FlagsStay DEF Running
  <2>4. ASSUME NEW j \in Jobs, Tick(j) PROVE FlagsMatchJobs'
    BY <1>2, <2>0, <2>4, FlagsAreUp DEF Tick
  <2>5. ASSUME NEW j \in Jobs, Work(j) PROVE FlagsMatchJobs'
    <3>1. CASE Finish(j)
      <4>1. /\ pc[j] = "owner" /\ pc'[j] = "idle" /\ busy' = busy \ Raises(j)
            /\ \A k \in Jobs \ {j} : pc'[k] = pc[k]
        BY <2>0, <3>1 DEF Finish, TypeOK
      <4> QED
        BY <1>2, <2>0, <4>1, FlagsAreDown DEF Running
    <3>2. CASE Sweep(j)
      BY <2>1, <3>2 DEF Sweep, Running
    <3>3. CASE ListCandidates(j)
      <4>1. pc[j] = "owner" /\ targets[j] # <<>>
        BY <3>3 DEF ListCandidates
      <4>2. NextOwner(j) \/ (pc' = [pc EXCEPT ![j] = "read"] /\ busy' = busy)
        BY <3>3 DEF ListCandidates
      <4> QED
        BY <2>1, <2>2, <4>1, <4>2 DEF Running
    <3> QED
      BY <2>5, <3>1, <3>2, <3>3 DEF Work
  <2>6. ASSUME NEW o \in Owners, IdleDream(o) PROVE FlagsMatchJobs'
    <3>1. CASE MayStart("dream")
      BY <1>2, <2>0, <2>6, <3>1, FlagsAreUp DEF IdleDream
    <3>2. CASE ~MayStart("dream")
      BY <2>3, <2>6, <3>2 DEF IdleDream
    <3> QED
      BY <3>1, <3>2
  <2>7. ASSUME Con \in Jobs, Consolidate PROVE FlagsMatchJobs'
    <3>1. pc[Con] \in {"read", "classify", "act"} /\ targets[Con] # <<>>
      BY <2>0, <2>7 DEF Consolidate, ReadCandidate, Classify, ClassifyFails, Act, ActFails, JobsRun
    <3>2. \/ NextOwner(Con) \/ UNCHANGED <<pc, busy>>
          \/ busy' = busy /\ \E l \in PcPlaces \ {"idle"} : pc' = [pc EXCEPT ![Con] = l]
      BY <2>7 DEF Consolidate, ReadCandidate, Classify, ClassifyFails, Act, ActFails, NextCandidate, PcPlaces
    <3> QED
      BY <2>1, <2>2, <2>3, <2>7, <3>1, <3>2 DEF Running
  <2>8. ASSUME Cmp \in Jobs, CompressBatch PROVE FlagsMatchJobs'
    <3>1. pc[Cmp] \in {"read", "model", "drop"} /\ targets[Cmp] # <<>>
      BY <2>0, <2>8 DEF CompressBatch, ReadEpisode, ReadMissing, AllRead, Compress, DropNext, AppendSummary, JobsRun
    <3>2. \/ NextOwner(Cmp) \/ UNCHANGED <<pc, busy>>
          \/ busy' = busy /\ \E l \in PcPlaces \ {"idle"} : pc' = [pc EXCEPT ![Cmp] = l]
      BY <2>8 DEF CompressBatch, ReadEpisode, ReadMissing, AllRead, Compress, DropNext, AppendSummary, EndDrain,
                  flow, PcPlaces
    <3> QED
      BY <2>1, <2>2, <2>3, <2>8, <3>1, <3>2 DEF Running
  <2>9. CASE Crash
    BY <2>9 DEF Crash, FlagsMatchJobs, Running
  <2>10. ASSUME NEW e \in Episodes, Turn(e) \/ Record(e) \/ TurnFails(e) \/ Age(e) PROVE FlagsMatchJobs'
    BY <2>3, <2>10 DEF Turn, Record, TurnFails, Age, flow
  <2>11. CASE Stop \/ CoolingOver \/ UNCHANGED vars
    BY <2>3, <2>11 DEF Stop, CoolingOver, vars, flow
  <2> QED
    BY <1>2, <2>4, <2>5, <2>6, <2>7, <2>8, <2>9, <2>10, <2>11 DEF Next
<1> QED
  BY <1>1, <1>2, Invariant, PTL DEF Spec
=============================================================================
