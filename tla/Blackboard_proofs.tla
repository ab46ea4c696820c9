--------------------------- MODULE Blackboard_proofs ---------------------------
(* Proofs about Blackboard, for every number of turns, scopes and workers.  A lease that  *)
(* is not its turn's any more has run out, so two deliberations over one scope need a      *)
(* lease that has; where the driver of a turn stands says what the tables hold for it.     *)
EXTENDS Blackboard, SequenceTheorems, TLAPS

Places == {"new", "start", "left"} \cup Driven

Mine(t) == lease[scope[t]] # None /\ lease[scope[t]].turn = t
RunOut(t) == now[t] + LeaseTtl <= clock

\* A lease belongs to a turn that has started, over that turn's scope, from its time on.
Dated(s) ==
    lease[s] # None =>
        LET t == lease[s].turn IN
        scope[t] = s /\ lease[s].expiry = now[t] + LeaseTtl /\ pc[t] \notin {"new", "start"}

\* Nobody is stamped with a time to come, and a turn in progress has the lease or has lost
\* it to the clock.
Held(t) == now[t] <= clock /\ (pc[t] \in Driven => Mine(t) \/ RunOut(t))

\* The steps of a round are not complete while one of its workers is still to speak.
RoundIsOpen(t) ==
    pc[t] \in {"new", "start", "create", "undo", "dispatch", "await"}
        => Len(said[t]) < Workers

\* What the tables hold for a turn, by the place of its driver.
Recorded(t) ==
    /\ pc[t] = "finish" => decided[t] \/ Converges(t)
    /\ pc[t] = "release" => IF decided[t] THEN status[t] = "needs-user"
                            ELSE status[t] = "converged" /\ Converges(t)
    /\ pc[t] = "failRelease" => status[t] = "failed"
    /\ back[t] # "none" => pc[t] = "left"
    /\ back[t] = "ask" => status[t] = "needs-user" /\ decided[t]
    /\ back[t] = "answer" => status[t] = "converged" /\ ~decided[t] /\ Converges(t)

\* Without a refused write or a crash a turn is running only, and has its lease only, as
\* long as its driver is on the way to the end of both.
Clean(t) ==
    faults = 0 =>
        /\ status[t] = "running"
            => pc[t] \in {"dispatch", "await", "judge", "decide", "finish", "fail"}
        /\ pc[t] = "left" => \A s \in Scopes : lease[s] = None \/ lease[s].turn # t
        /\ pc[t] # "undo"

IInv == /\ TypeOK
        /\ \A s \in Scopes : Dated(s)
        /\ \A t \in Turns : Held(t) /\ RoundIsOpen(t) /\ Recorded(t) /\ Clean(t)

-----------------------------------------------------------------------------
(* What a step does to the turn it is of, and to the others. *)

\* Nothing of turn u changes.
Rests(u) ==
    /\ pc'[u] = pc[u] /\ scope'[u] = scope[u] /\ now'[u] = now[u] /\ capped'[u] = capped[u]
    /\ said'[u] = said[u] /\ status'[u] = status[u]
    /\ decided'[u] = decided[u] /\ back'[u] = back[u]

\* The lease of u is left alone, or has run out.
KeepsLease(u) ==
    /\ Mine(u) => Mine(u)' \/ RunOut(u)
    /\ \A s \in Scopes : lease'[s] # None /\ lease'[s].turn = u
                         => lease[s] # None /\ lease[s].turn = u

LEMMA OthersKeep ==
  ASSUME IInv, NEW u \in Turns, Rests(u), KeepsLease(u), clock' >= clock, clock' \in Int,
         faults' >= faults, faults' \in Nat
  PROVE  Held(u)' /\ RoundIsOpen(u)' /\ Recorded(u)' /\ Clean(u)'
<1> USE BlackboardAssumption DEF Rests
<1>0. now[u] \in Int /\ clock \in Int /\ faults \in Nat
  BY DEF IInv, TypeOK
<1>1. Held(u)'
  BY <1>0 DEF IInv, Held, KeepsLease, Mine, RunOut
<1>2. RoundIsOpen(u)'
  BY DEF IInv, RoundIsOpen
<1>3. Recorded(u)'
  BY DEF IInv, Recorded, Converges, All
<1>4. Clean(u)'
  BY <1>0 DEF IInv, Clean, KeepsLease
<1> QED
  BY <1>1, <1>2, <1>3, <1>4

\* A step of turn t keeps the invariant if it does for t, and leaves the others alone.
LEMMA StepKeeps ==
  ASSUME IInv, NEW t \in Turns, TypeOK', clock' >= clock, faults' >= faults,
         \A u \in Turns \ {t} : Rests(u) /\ KeepsLease(u),
         \A s \in Scopes : Dated(s)',
         Held(t)', RoundIsOpen(t)', Recorded(t)', Clean(t)'
  PROVE  IInv'
<1>0. clock' \in Int /\ faults' \in Nat
  BY BlackboardAssumption DEF TypeOK
<1>1. ASSUME NEW u \in Turns
      PROVE  Held(u)' /\ RoundIsOpen(u)' /\ Recorded(u)' /\ Clean(u)'
  BY <1>0, OthersKeep, u = t \/ u \in Turns \ {t}
<1>2. Turns' = Turns /\ Scopes' = Scopes
  BY DEF Turns, Scopes
<1> QED
  BY <1>1, <1>2 DEF IInv

\* A driver that goes on.
LEMMA Goes ==
  ASSUME TypeOK, NEW t \in Turns, NEW l \in Places, Goto(t, l)
  PROVE  /\ pc' \in [Turns -> Places] /\ pc'[t] = l
         /\ \A u \in Turns \ {t} : pc'[u] = pc[u]
BY DEF TypeOK, Goto, Places

\* A refused write: the driver is somewhere else, and there is a fault.
LEMMA RefusedStep ==
  ASSUME IInv, NEW t \in Turns, NEW l \in Places, Refused(t, l),
         call' \in [Turns -> {"none", "queued", "running", "completed", "failed"}],
         queue' \in Seq(Turns),
         pc[t] \in Driven \cup {"start"}, pc[t] = "start" => l = "left",
         l \in {"undo", "fail", "left"}, l = "undo" => pc[t] = "create"
  PROVE  IInv'
<1> USE BlackboardAssumption
<1>1. /\ pc' \in [Turns -> Places] /\ pc'[t] = l
      /\ \A u \in Turns \ {t} : pc'[u] = pc[u]
  BY Goes DEF Refused, IInv
<1>2. TypeOK'
  BY <1>1 DEF Refused, IInv, TypeOK, Places
<1>3. /\ clock' >= clock /\ faults' >= faults /\ faults' # 0
  BY DEF Refused, IInv, TypeOK
<1>4. \A u \in Turns \ {t} : Rests(u) /\ KeepsLease(u)
  BY <1>1 DEF Refused, Rests, KeepsLease, Mine
<1>5. ASSUME NEW s \in Scopes PROVE Dated(s)'
  <2>1. lease[s] # None => lease[s].turn \in Turns
    BY DEF IInv, TypeOK, Leases
  <2> QED
    BY <1>1, <2>1 DEF IInv, Dated, Refused
<1>6. Held(t)'
  BY <1>1 DEF IInv, Held, Mine, RunOut, Refused, Driven
<1>7. RoundIsOpen(t)'
  BY <1>1 DEF IInv, RoundIsOpen, Refused
<1>8. Recorded(t)'
  BY <1>1 DEF IInv, Recorded, Refused, Converges, All, Driven
<1>9. Clean(t)'
  BY <1>3 DEF Clean
<1> QED
  BY <1>2, <1>3, <1>4, <1>5, <1>6, <1>7, <1>8, <1>9, StepKeeps

\* Giving a lease back takes it from nobody else.
LEMMA ReleasedLeases ==
  ASSUME IInv, NEW t \in Turns, lease' = Released(t), scope' = scope, now' = now, pc' = [pc EXCEPT ![t] = "left"]
  PROVE  /\ lease' \in [Scopes -> Leases \cup {None}]
         /\ \A u \in Turns \ {t} : KeepsLease(u)
         /\ \A s \in Scopes : Dated(s)'
         /\ \A s \in Scopes : lease'[s] = None \/ lease'[s].turn # t
<1> USE DEF IInv, TypeOK
<1>1. /\ lease' \in [Scopes -> Leases \cup {None}]
      /\ \A s \in Scopes : \/ lease'[s] = lease[s]
                           \/ /\ lease'[s] = None /\ s = scope[t]
                              /\ lease[s] # None /\ lease[s].turn = t
  BY DEF Released
<1>2. \A s \in Scopes : lease[s] # None => lease[s].turn \in Turns
  BY DEF Leases
<1>3. \A u \in Turns \ {t} : KeepsLease(u)
  BY <1>1, <1>2 DEF KeepsLease, Mine
<1>4. \A s \in Scopes : Dated(s)'
  BY <1>1, <1>2 DEF Dated
<1>5. ASSUME NEW s \in Scopes, lease'[s] # None, lease'[s].turn = t PROVE FALSE
  <2>1. lease[s] # None /\ lease[s].turn = t
    BY <1>1, <1>5
  <2>2. scope[t] = s
    BY <2>1 DEF Dated
  <2> QED
    BY <1>5, <2>1, <2>2 DEF Released
<1> QED
  BY <1>1, <1>3, <1>4, <1>5

\* A step that leaves leases, clock and faults alone: what remains is the turn itself.
LEMMA PlainStep ==
  ASSUME IInv, NEW t \in Turns, NEW l \in Places, Goto(t, l), TypeOK',
         pc[t] \in Driven, l \in Driven,
         UNCHANGED <<scope, now, capped, lease, clock, faults>>,
         \A u \in Turns \ {t} : /\ said'[u] = said[u] /\ status'[u] = status[u]
                                /\ decided'[u] = decided[u] /\ back'[u] = back[u],
         RoundIsOpen(t)', Recorded(t)', Clean(t)'
  PROVE  IInv'
<1> USE BlackboardAssumption
<1>1. /\ pc' \in [Turns -> Places] /\ pc'[t] = l
      /\ \A u \in Turns \ {t} : pc'[u] = pc[u]
  BY Goes DEF IInv
<1>2. clock' >= clock /\ faults' >= faults
  BY DEF IInv, TypeOK
<1>3. \A u \in Turns \ {t} : Rests(u) /\ KeepsLease(u)
  BY <1>1 DEF Rests, KeepsLease, Mine
<1>4. ASSUME NEW s \in Scopes PROVE Dated(s)'
  <2>1. lease[s] # None => lease[s].turn \in Turns
    BY DEF IInv, TypeOK, Leases
  <2> QED
    BY <1>1, <2>1 DEF IInv, Dated, Driven
<1>5. Held(t)'
  BY <1>1 DEF IInv, Held, Mine, RunOut
<1> QED
  BY <1>2, <1>3, <1>4, <1>5, StepKeeps

-----------------------------------------------------------------------------
(* The actions. *)

LEMMA CreateStep ==
  ASSUME IInv, NEW t \in Turns, Create(t)
  PROVE  IInv'
<1>1. CASE Refused(t, "undo")
  BY <1>1, RefusedStep DEF Create, pool, IInv, TypeOK, Driven, Places
<1>2. CASE ~Refused(t, "undo")
  <2>1. /\ pc[t] = "create" /\ Goto(t, "dispatch") /\ status' = [status EXCEPT ![t] = "running"]
        /\ UNCHANGED <<scope, now, capped, round, said, decided, back, lease, clock, faults, call, queue>>
    BY <1>2 DEF Create, pool
  <2>2. "dispatch" \in Places /\ "dispatch" \in Driven /\ "create" \in Driven
    BY DEF Places, Driven
  <2>3. pc' \in [Turns -> Places] /\ pc'[t] = "dispatch"
    BY <2>1, <2>2, Goes DEF IInv
  <2>4. status' \in [Turns -> {"none", "running", "converged", "needs-user", "failed"}]
        /\ \A u \in Turns \ {t} : status'[u] = status[u]
    BY <2>1 DEF IInv, TypeOK
  <2>5. TypeOK'
    BY <2>1, <2>3, <2>4 DEF IInv, TypeOK, Places
  <2>6. RoundIsOpen(t)' /\ Recorded(t)' /\ Clean(t)'
    BY <2>1, <2>3 DEF IInv, RoundIsOpen, Recorded, Clean, Converges, All
  <2> QED
    BY <2>1, <2>2, <2>4, <2>5, <2>6, PlainStep
<1> QED
  BY <1>1, <1>2

\* The end of a driver that gives its lease back.
LEMMA LeavesWithRelease ==
  ASSUME IInv, NEW t \in Turns, Goto(t, "left"), lease' = Released(t),
         pc[t] \in {"undo", "release", "failRelease"},
         UNCHANGED <<scope, now, capped, round, said, status, decided, clock, faults, call, queue>>,
         \/ back' = back
         \/ pc[t] # "undo" /\ back' = [back EXCEPT ![t] = Hand(t)],
         faults = 0 => pc[t] # "undo"
  PROVE  IInv'
<1> USE BlackboardAssumption
<1>0. "left" \in Places
  BY DEF Places
<1>1. /\ pc' \in [Turns -> Places] /\ pc'[t] = "left"
      /\ \A u \in Turns \ {t} : pc'[u] = pc[u]
  BY <1>0, Goes DEF IInv
<1>2. /\ lease' \in [Scopes -> Leases \cup {None}]
      /\ \A u \in Turns \ {t} : KeepsLease(u)
      /\ \A s \in Scopes : Dated(s)'
      /\ \A s \in Scopes : lease'[s] = None \/ lease'[s].turn # t
  BY ReleasedLeases DEF Goto
<1>3. /\ back' \in [Turns -> {"none", "answer", "ask", "failed", "busy"}]
      /\ \A u \in Turns \ {t} : back'[u] = back[u]
      /\ back'[t] = back[t] \/ (pc[t] # "undo" /\ back'[t] = Hand(t))
  BY DEF IInv, TypeOK, Hand
<1>4. TypeOK'
  BY <1>1, <1>2, <1>3 DEF IInv, TypeOK, Places
<1>5. \A u \in Turns \ {t} : Rests(u)
  BY <1>1, <1>3 DEF Rests
<1>6. Held(t)' /\ RoundIsOpen(t)'
  BY <1>1 DEF IInv, Held, RoundIsOpen, Driven
<1>7. Recorded(t)'
  <2>1. back[t] = "none"
    BY DEF IInv, Recorded
  <2>2. Converges(t)' <=> Converges(t)
    BY DEF Converges, All
  <2> QED
    BY <1>1, <1>3, <2>1, <2>2 DEF IInv, Recorded, Hand
<1>8. Clean(t)'
  <2>1. faults = 0 => status[t] # "running"
    BY DEF IInv, Clean
  <2> QED
    BY <1>1, <1>2, <2>1 DEF Clean, Scopes
<1>9. clock' >= clock /\ faults' >= faults
  BY DEF IInv, TypeOK
<1> QED
  BY <1>2, <1>4, <1>5, <1>6, <1>7, <1>8, <1>9, StepKeeps

LEMMA UndoStep ==
  ASSUME IInv, NEW t \in Turns, Undo(t)
  PROVE  IInv'
<1>1. CASE Refused(t, "left")
  BY <1>1, RefusedStep DEF Undo, pool, IInv, TypeOK, Driven, Places
<1>2. CASE ~Refused(t, "left")
  <2>1. faults = 0 => pc[t] # "undo"
    BY DEF IInv, Clean
  <2> QED
    BY <1>2, <2>1, LeavesWithRelease DEF Undo, pool
<1> QED
  BY <1>1, <1>2

LEMMA ReleaseStep ==
  ASSUME IInv, NEW t \in Turns, Release(t)
  PROVE  IInv'
<1> DEFINE l == IF pc[t] = "failRelease" THEN "left" ELSE "fail"
<1>1. CASE Refused(t, l)
  BY <1>1, RefusedStep DEF Release, pool, IInv, TypeOK, Driven, Places
<1>2. CASE ~Refused(t, l)
  BY <1>2, LeavesWithRelease DEF Release, pool
<1> QED
  BY <1>1, <1>2

LEMMA DispatchStep ==
  ASSUME IInv, NEW t \in Turns, Dispatch(t)
  PROVE  IInv'
<1>1. CASE Refused(t, "fail") /\ UNCHANGED pool
  BY <1>1, RefusedStep DEF Dispatch, pool, IInv, TypeOK, Driven, Places
<1>2. CASE ~(Refused(t, "fail") /\ UNCHANGED pool)
  <2>1. PICK l \in {"fail", "await"} :
           /\ Goto(t, l)
           /\ \/ UNCHANGED pool
              \/ call' = [call EXCEPT ![t] = "running"] /\ UNCHANGED queue
              \/ call' = [call EXCEPT ![t] = "queued"] /\ queue' = Append(queue, t)
    BY <1>2 DEF Dispatch
  <2>2. /\ pc[t] = "dispatch"
        /\ UNCHANGED <<scope, now, capped, round, said, status, decided, back, lease, clock, faults>>
    BY <1>2 DEF Dispatch
  <2>3. l \in Places /\ l \in Driven /\ "dispatch" \in Driven
    BY DEF Places, Driven
  <2>4. pc' \in [Turns -> Places] /\ pc'[t] = l
    BY <2>1, <2>3, Goes DEF IInv
  <2>5. /\ call' \in [Turns -> {"none", "queued", "running", "completed", "failed"}]
        /\ queue' \in Seq(Turns)
    <3>1. call \in [Turns -> {"none", "queued", "running", "completed", "failed"}]
          /\ queue \in Seq(Turns) /\ Append(queue, t) \in Seq(Turns)
      BY AppendProperties DEF IInv, TypeOK
    <3> QED
      BY <2>1, <3>1 DEF pool
  <2>6. TypeOK'
    BY <2>2, <2>4, <2>5 DEF IInv, TypeOK, Places
  <2>7. RoundIsOpen(t)' /\ Recorded(t)' /\ Clean(t)'
    BY <2>2, <2>4 DEF IInv, RoundIsOpen, Recorded, Clean, Converges, All
  <2> QED
    BY <2>1, <2>2, <2>3, <2>6, <2>7, PlainStep
<1> QED
  BY <1>1, <1>2

LEMMA HearStep ==
  ASSUME IInv, NEW t \in Turns, Hear(t)
  PROVE  IInv'
<1> USE BlackboardAssumption
<1>0. /\ pc[t] = "await" /\ UNCHANGED queue
      /\ call' \in [Turns -> {"none", "queued", "running", "completed", "failed"}]
  BY DEF Hear, IInv, TypeOK
<1>1. CASE Refused(t, "fail")
  BY <1>0, <1>1, RefusedStep DEF IInv, TypeOK, Driven, Places
<1>2. CASE ~Refused(t, "fail")
  <2>1. UNCHANGED <<scope, now, capped, round, status, decided, back, lease, clock, faults>>
    BY <1>2 DEF Hear
  <2>2. PICK l \in {"dispatch", "judge", "fail"} :
           /\ Goto(t, l)
           /\ \/ said' = said /\ l = "fail"
              \/ /\ \E o \in Outcomes : said' = [said EXCEPT ![t] = Append(@, o)]
                 /\ l = "dispatch" => Len(said[t]) + 1 < Workers
    BY <1>2 DEF Hear
  <2>3. l \in Places /\ l \in Driven /\ "await" \in Driven
    BY DEF Places, Driven
  <2>4. pc' \in [Turns -> Places] /\ pc'[t] = l
    BY <2>2, <2>3, Goes DEF IInv
  <2>5. Len(said[t]) < Workers
    BY <1>0 DEF IInv, RoundIsOpen
  <2>6. /\ said' \in [Turns -> Seq(Outcomes)] /\ \A u \in Turns : Len(said'[u]) <= Workers
        /\ \A u \in Turns \ {t} : said'[u] = said[u]
        /\ l = "dispatch" => Len(said'[t]) < Workers
    <3>1. said \in [Turns -> Seq(Outcomes)] /\ \A u \in Turns : Len(said[u]) <= Workers
      BY DEF IInv, TypeOK
    <3>2. CASE said' = said /\ l = "fail"
      BY <3>1, <3>2
    <3>3. CASE ~(said' = said /\ l = "fail")
      <4>1. PICK o \in Outcomes : said' = [said EXCEPT ![t] = Append(said[t], o)]
        BY <2>2, <3>3
      <4>2. /\ Append(said[t], o) \in Seq(Outcomes)
            /\ Len(Append(said[t], o)) = Len(said[t]) + 1 /\ Len(said[t]) \in Nat
        BY <3>1, AppendProperties, LenProperties
      <4>3. Len(said[t]) + 1 <= Workers
        BY <2>5, <4>2
      <4>4. said'[t] = Append(said[t], o) /\ \A u \in Turns \ {t} : said'[u] = said[u]
        BY <3>1, <4>1
      <4>5. said' \in [Turns -> Seq(Outcomes)]
        BY <3>1, <4>1, <4>2
      <4> QED
        BY <2>2, <3>1, <3>3, <4>2, <4>3, <4>4, <4>5
    <3> QED
      BY <3>2, <3>3
  <2>7. TypeOK'
    BY <1>0, <2>1, <2>4, <2>6 DEF IInv, TypeOK, Places
  <2>8. RoundIsOpen(t)' /\ Clean(t)'
    BY <1>0, <2>1, <2>4, <2>6 DEF IInv, RoundIsOpen, Clean
  <2>9. Recorded(t)'
    BY <1>0, <2>1, <2>4 DEF IInv, Recorded
  <2> QED
    BY <1>0, <2>1, <2>2, <2>3, <2>6, <2>7, <2>8, <2>9, PlainStep
<1> QED
  BY <1>1, <1>2

LEMMA JudgeStep ==
  ASSUME IInv, NEW t \in Turns, Judge(t)
  PROVE  IInv'
<1> USE BlackboardAssumption
<1>0. /\ pc[t] = "judge"
      /\ UNCHANGED <<scope, now, capped, status, decided, back, lease, clock, faults, call, queue>>
  BY DEF Judge, pool
<1>1. PICK l \in {"finish", "decide", "dispatch"} :
         /\ Goto(t, l)
         /\ l = "finish" => Converges(t) /\ UNCHANGED <<round, said>>
         /\ l = "decide" => UNCHANGED <<round, said>>
         /\ l = "dispatch" => /\ round[t] < HardMaxRounds /\ round' = [round EXCEPT ![t] = @ + 1]
                              /\ said' = [said EXCEPT ![t] = <<>>]
  <2>1. CASE Converges(t)
    BY <2>1 DEF Judge
  <2>2. CASE ~Converges(t) /\ (IsStuck(t) \/ round[t] >= HardMaxRounds)
    BY <2>2 DEF Judge
  <2>3. CASE ~Converges(t) /\ ~(IsStuck(t) \/ round[t] >= HardMaxRounds)
    BY <2>3 DEF Judge, IInv, TypeOK
  <2> QED
    BY <2>1, <2>2, <2>3
<1>2. l \in Places /\ l \in Driven /\ "judge" \in Driven
  BY DEF Places, Driven
<1>3. pc' \in [Turns -> Places] /\ pc'[t] = l
  BY <1>1, <1>2, Goes DEF IInv
<1>4. /\ round' \in [Turns -> 1..HardMaxRounds] /\ said' \in [Turns -> Seq(Outcomes)]
      /\ \A u \in Turns : Len(said'[u]) <= Workers
      /\ \A u \in Turns \ {t} : said'[u] = said[u]
      /\ l = "dispatch" => Len(said'[t]) < Workers
  <2>1. /\ said \in [Turns -> Seq(Outcomes)] /\ round \in [Turns -> 1..HardMaxRounds]
        /\ \A u \in Turns : Len(said[u]) <= Workers
    BY DEF IInv, TypeOK
  <2>2. <<>> \in Seq(Outcomes) /\ Len(<<>>) = 0 /\ Len(<<>>) < Workers
    BY EmptySeq
  <2>3. CASE l = "dispatch"
    <3>1. /\ said'[t] = <<>> /\ \A u \in Turns \ {t} : said'[u] = said[u]
          /\ said' \in [Turns -> Seq(Outcomes)]
      BY <1>1, <2>1, <2>2, <2>3
    <3>2. round[t] + 1 \in 1..HardMaxRounds
      BY <1>1, <2>1, <2>3
    <3>3. round' \in [Turns -> 1..HardMaxRounds]
      BY <1>1, <2>1, <2>3, <3>2
    <3>4. Len(said'[t]) < Workers /\ Len(said'[t]) <= Workers
      BY <2>2, <3>1
    <3>5. \A u \in Turns : Len(said'[u]) <= Workers
      BY <2>1, <3>1, <3>4
    <3> QED
      BY <3>1, <3>3, <3>4, <3>5
  <2>4. CASE l # "dispatch"
    BY <1>1, <2>1, <2>4
  <2> QED
    BY <2>3, <2>4
<1>5. TypeOK'
  BY <1>0, <1>3, <1>4 DEF IInv, TypeOK, Places
<1>6. RoundIsOpen(t)' /\ Clean(t)'
  BY <1>0, <1>3, <1>4 DEF IInv, RoundIsOpen, Clean
<1>7. Recorded(t)'
  BY <1>0, <1>1, <1>3 DEF IInv, Recorded, Converges, All
<1> QED
  BY <1>0, <1>1, <1>2, <1>4, <1>5, <1>6, <1>7, PlainStep

LEMMA DecideStep ==
  ASSUME IInv, NEW t \in Turns, Decide(t)
  PROVE  IInv'
<1>1. CASE Refused(t, "fail")
  BY <1>1, RefusedStep DEF Decide, pool, IInv, TypeOK, Driven, Places
<1>2. CASE ~Refused(t, "fail")
  <2>1. PICK l \in {"finish", "fail"} :
           /\ Goto(t, l)
           /\ l = "finish" => faults' = faults
           /\ l = "fail" => faults < MaxFaults /\ faults' = faults + 1
    BY <1>2 DEF Decide
  <2>2. /\ pc[t] = "decide" /\ decided' = [decided EXCEPT ![t] = TRUE]
        /\ UNCHANGED <<scope, now, capped, round, said, status, back, lease, clock, call, queue>>
    BY <1>2 DEF Decide, pool
  <2>3. l \in Places /\ l \in Driven /\ "decide" \in Driven
    BY DEF Places, Driven
  <2>4. pc' \in [Turns -> Places] /\ pc'[t] = l /\ \A u \in Turns \ {t} : pc'[u] = pc[u]
    BY <2>1, <2>3, Goes DEF IInv
  <2>5. /\ decided' \in [Turns -> BOOLEAN] /\ decided'[t]
        /\ \A u \in Turns \ {t} : decided'[u] = decided[u]
    BY <2>2 DEF IInv, TypeOK
  <2>6. faults' \in 0..MaxFaults /\ faults' >= faults /\ (l = "fail" => faults' # 0)
    BY <2>1, BlackboardAssumption DEF IInv, TypeOK
  <2>7. TypeOK'
    BY <2>2, <2>4, <2>5, <2>6 DEF IInv, TypeOK, Places
  <2>8. RoundIsOpen(t)' /\ Recorded(t)'
    BY <2>2, <2>4, <2>5 DEF IInv, RoundIsOpen, Recorded
  <2>9. Clean(t)'
    BY <2>1, <2>2, <2>4, <2>6 DEF IInv, Clean
  <2>10. \A u \in Turns \ {t} : Rests(u) /\ KeepsLease(u)
    BY <2>2, <2>4, <2>5 DEF Rests, KeepsLease, Mine
  <2>11. ASSUME NEW s \in Scopes PROVE Dated(s)'
    <3>1. lease[s] # None => lease[s].turn \in Turns
      BY DEF IInv, TypeOK, Leases
    <3> QED
      BY <2>2, <2>3, <2>4, <3>1 DEF IInv, Dated, Driven
  <2>12. Held(t)'
    BY <2>2, <2>3, <2>4 DEF IInv, Held, Mine, RunOut, Driven
  <2>13. clock' >= clock
    BY <2>2 DEF IInv, TypeOK
  <2> QED
    BY <2>6, <2>7, <2>8, <2>9, <2>10, <2>11, <2>12, <2>13, StepKeeps
<1> QED
  BY <1>1, <1>2

LEMMA FinishStep ==
  ASSUME IInv, NEW t \in Turns, Finish(t)
  PROVE  IInv'
<1> DEFINE l == IF pc[t] = "fail" THEN "left" ELSE "fail"
           n == IF pc[t] = "fail" THEN "failRelease" ELSE "release"
           st == IF pc[t] = "fail" THEN "failed"
                 ELSE IF decided[t] THEN "needs-user" ELSE "converged"
<1>1. CASE Refused(t, l)
  BY <1>1, RefusedStep DEF Finish, pool, IInv, TypeOK, Driven, Places
<1>2. CASE ~Refused(t, l)
  <2>1. /\ pc[t] \in {"finish", "fail"} /\ Goto(t, n) /\ status' = [status EXCEPT ![t] = st]
        /\ UNCHANGED <<scope, now, capped, round, said, decided, back, lease, clock, faults, call, queue>>
    BY <1>2 DEF Finish, pool
  <2>2. n \in Places /\ n \in Driven /\ pc[t] \in Driven
    BY <2>1 DEF Places, Driven
  <2>3. pc' \in [Turns -> Places] /\ pc'[t] = n
    BY <2>1, <2>2, Goes DEF IInv
  <2>4. /\ status' \in [Turns -> {"none", "running", "converged", "needs-user", "failed"}]
        /\ status'[t] = st /\ \A u \in Turns \ {t} : status'[u] = status[u]
    BY <2>1 DEF IInv, TypeOK
  <2>5. TypeOK'
    BY <2>1, <2>3, <2>4 DEF IInv, TypeOK, Places
  <2>6. RoundIsOpen(t)' /\ Clean(t)'
    BY <2>1, <2>3, <2>4 DEF IInv, RoundIsOpen, Clean
  <2>7. Recorded(t)'
    BY <2>1, <2>3, <2>4 DEF IInv, Recorded, Converges, All
  <2> QED
    BY <2>1, <2>2, <2>4, <2>5, <2>6, <2>7, PlainStep
<1> QED
  BY <1>1, <1>2

LEMMA ArriveStep ==
  ASSUME IInv, NEW t \in Turns, Arrive(t)
  PROVE  IInv'
<1> USE BlackboardAssumption
<1>0. /\ pc[t] = "new" /\ Goto(t, "start") /\ now' = [now EXCEPT ![t] = clock]
      /\ UNCHANGED <<scope, capped, round, said, status, decided, back, lease, clock, faults, call, queue>>
  BY DEF Arrive, pool
<1>1. "start" \in Places
  BY DEF Places
<1>2. /\ pc' \in [Turns -> Places] /\ pc'[t] = "start"
      /\ \A u \in Turns \ {t} : pc'[u] = pc[u]
  BY <1>0, <1>1, Goes DEF IInv
<1>3. /\ now' \in [Turns -> 0..MaxClock] /\ now'[t] = clock
      /\ \A u \in Turns \ {t} : now'[u] = now[u]
  BY <1>0 DEF IInv, TypeOK
<1>4. TypeOK'
  BY <1>0, <1>2, <1>3 DEF IInv, TypeOK, Places
<1>5. \A u \in Turns \ {t} : Rests(u) /\ KeepsLease(u)
  BY <1>0, <1>2, <1>3 DEF Rests, KeepsLease, Mine
<1>6. ASSUME NEW s \in Scopes PROVE Dated(s)'
  <2>1. lease[s] # None => lease[s].turn \in Turns \ {t}
    BY <1>0 DEF IInv, TypeOK, Leases, Dated
  <2> QED
    BY <1>0, <1>2, <1>3, <2>1 DEF IInv, Dated
<1>7. Held(t)'
  BY <1>0, <1>2, <1>3 DEF Held, Driven, IInv, TypeOK
<1>8. RoundIsOpen(t)' /\ Recorded(t)' /\ Clean(t)'
  BY <1>0, <1>2 DEF IInv, RoundIsOpen, Recorded, Clean, Converges, All
<1>9. clock' >= clock /\ faults' >= faults
  BY <1>0 DEF IInv, TypeOK
<1> QED
  BY <1>4, <1>5, <1>6, <1>7, <1>8, <1>9, StepKeeps

LEMMA StartStep ==
  ASSUME IInv, NEW t \in Turns, Start(t)
  PROVE  IInv'
<1> USE BlackboardAssumption
<1>0. pc[t] = "start"
  BY DEF Start
<1>1. CASE Refused(t, "left")
  BY <1>0, <1>1, RefusedStep DEF Start, pool, IInv, TypeOK, Driven, Places
<1>2. CASE ~Refused(t, "left")
  <2> DEFINE left == Unexpired(now[t])
             mine == [turn |-> t, expiry |-> now[t] + LeaseTtl]
  <2>1. /\ UNCHANGED <<scope, now, capped, round, said, status, decided, clock, faults, call, queue>>
        /\ \/ /\ lease' = left /\ Goto(t, "left") /\ back' = [back EXCEPT ![t] = "busy"]
           \/ /\ left[scope[t]] = None /\ lease' = [left EXCEPT ![scope[t]] = mine]
              /\ Goto(t, "create") /\ back' = back
    BY <1>2 DEF Start, pool
  <2>2. /\ scope[t] \in Scopes /\ now[t] \in Int /\ clock \in Int /\ now[t] <= clock
        /\ lease \in [Scopes -> Leases \cup {None}]
    BY DEF IInv, TypeOK, Held
  <2>3. mine \in Leases /\ mine # None /\ mine.turn = t /\ mine.expiry = now[t] + LeaseTtl
    BY <2>2 DEF Leases, Turns
  <2>4. /\ left \in [Scopes -> Leases \cup {None}]
        /\ \A s \in Scopes : \/ left[s] = lease[s]
                             \/ lease[s] # None /\ lease[s].expiry <= clock /\ left[s] = None
    <3>1. \A s \in Scopes : lease[s] # None => lease[s].expiry \in Int
      BY <2>2 DEF Leases
    <3> QED
      BY <2>2, <3>1 DEF Unexpired
  <2>5. \A s \in Scopes : lease[s] # None => lease[s].turn \in Turns \ {t}
    BY <1>0, <2>2 DEF IInv, Leases, Dated
  <2>6. PICK l \in {"left", "create"} :
           /\ Goto(t, l)
           /\ l = "left" => lease' = left /\ back' = [back EXCEPT ![t] = "busy"]
           /\ l = "create" => /\ left[scope[t]] = None /\ lease' = [left EXCEPT ![scope[t]] = mine]
                              /\ back' = back
    BY <2>1
  <2>7. l \in Places
    BY DEF Places, Driven
  <2>8. /\ pc' \in [Turns -> Places] /\ pc'[t] = l
        /\ \A u \in Turns \ {t} : pc'[u] = pc[u]
    BY <2>6, <2>7, Goes DEF IInv
  <2>9. /\ lease' \in [Scopes -> Leases \cup {None}]
        /\ \A s \in Scopes : \/ lease'[s] = left[s]
                             \/ l = "create" /\ s = scope[t] /\ lease'[s] = mine /\ left[s] = None
        /\ l = "create" => lease'[scope[t]] = mine
    BY <2>2, <2>3, <2>4, <2>6
  <2>10. /\ back' \in [Turns -> {"none", "answer", "ask", "failed", "busy"}]
         /\ \A u \in Turns \ {t} : back'[u] = back[u]
         /\ back'[t] = IF l = "left" THEN "busy" ELSE back[t]
    BY <2>6, ZenonT(60) DEF IInv, TypeOK
  <2>11. TypeOK'
    BY <2>1, <2>8, <2>9, <2>10 DEF IInv, TypeOK, Places
  <2>12. \A s \in Scopes : Dated(s)'
    <3>1. SUFFICES ASSUME NEW s \in Scopes, lease'[s] # None PROVE Dated(s)'
      BY DEF Dated
    <3>2. CASE lease'[s] = mine
      BY <2>1, <2>2, <2>3, <2>5, <2>8, <2>9, <2>4, <3>1, <3>2 DEF Dated, IInv
    <3>3. CASE lease'[s] = lease[s]
      BY <2>1, <2>5, <2>8, <3>1, <3>3 DEF Dated, IInv
    <3> QED
      BY <2>4, <2>9, <3>1, <3>2, <3>3
  <2>13. ASSUME NEW u \in Turns \ {t} PROVE Rests(u) /\ KeepsLease(u)
    <3>1. Rests(u)
      BY <2>1, <2>8, <2>10 DEF Rests
    <3>2. Mine(u) => Mine(u)' \/ RunOut(u)
      <4>1. SUFFICES ASSUME Mine(u) PROVE Mine(u)' \/ RunOut(u)
        OBVIOUS
      <4>2. scope[u] \in Scopes /\ lease[scope[u]].expiry = now[u] + LeaseTtl
        BY <4>1 DEF Mine, IInv, TypeOK, Dated
      <4>3. CASE left[scope[u]] = lease[scope[u]]
        <5>1. lease'[scope[u]] = lease[scope[u]]
          BY <2>9, <4>1, <4>2, <4>3 DEF Mine
        <5> QED
          BY <2>1, <4>1, <5>1 DEF Mine
      <4>4. CASE left[scope[u]] # lease[scope[u]]
        BY <2>4, <4>2, <4>4 DEF RunOut
      <4> QED
        BY <4>3, <4>4
    <3>3. ASSUME NEW s \in Scopes, lease'[s] # None, lease'[s].turn = u
          PROVE  lease[s] # None /\ lease[s].turn = u
      BY <2>3, <2>4, <2>9, <3>3
    <3> QED
      BY <3>1, <3>2, <3>3 DEF KeepsLease
  <2>14. Held(t)'
    BY <2>1, <2>2, <2>3, <2>8, <2>9 DEF Held, Mine, Driven
  <2>15. RoundIsOpen(t)' /\ Recorded(t)'
    BY <1>0, <2>1, <2>8, <2>10 DEF IInv, RoundIsOpen, Recorded, Converges, All
  <2>16. Clean(t)'
    <3>1. l = "left" => \A s \in Scopes : lease'[s] = None \/ lease'[s].turn # t
      BY <2>4, <2>5, <2>6
    <3> QED
      BY <1>0, <2>1, <2>8, <3>1 DEF IInv, Clean, Scopes
  <2>17. clock' >= clock /\ faults' >= faults
    BY <2>1 DEF IInv, TypeOK
  <2> QED
    BY <2>11, <2>12, <2>13, <2>14, <2>15, <2>16, <2>17, StepKeeps
<1> QED
  BY <1>1, <1>2

\* What the pool does by itself no driver notices before its next step.
LEMMA SettleStep ==
  ASSUME IInv, NEW t \in Turns, NEW how \in {"completed", "failed"}, Settle(t, how)
  PROVE  IInv'
<1>1. UNCHANGED <<pc, scope, now, capped, round, said, status, decided, back, lease, clock, faults>>
  BY DEF Settle, turnVars
<1>2. call' \in [Turns -> {"none", "queued", "running", "completed", "failed"}]
  BY DEF Settle, IInv, TypeOK
<1>3. queue' \in Seq(Turns)
  BY HeadTailProperties DEF Settle, IInv, TypeOK
<1>4. TypeOK'
  BY <1>1, <1>2, <1>3 DEF IInv, TypeOK
<1> QED
  BY <1>1, <1>4 DEF IInv, Dated, Held, Mine, RunOut, RoundIsOpen, Recorded, Clean, Converges, All,
     Turns, Scopes

LEMMA TickStep ==
  ASSUME IInv, Tick
  PROVE  IInv'
<1> USE BlackboardAssumption
<1>1. /\ UNCHANGED <<pc, scope, now, capped, round, said, status, decided, back, lease, faults, call, queue>>
      /\ clock' = clock + 1 /\ clock < MaxClock
  BY DEF Tick, turnVars, pool
<1>2. clock \in Int /\ faults \in Nat /\ clock' >= clock /\ clock' \in 0..MaxClock
  BY <1>1 DEF IInv, TypeOK
<1>3. TypeOK'
  BY <1>1, <1>2 DEF IInv, TypeOK
<1>4. ASSUME NEW u \in Turns
      PROVE  Held(u)' /\ RoundIsOpen(u)' /\ Recorded(u)' /\ Clean(u)'
  <2>1. Rests(u) /\ KeepsLease(u)
    BY <1>1 DEF Rests, KeepsLease, Mine
  <2> QED
    BY <1>1, <1>2, <2>1, OthersKeep
<1>5. ASSUME NEW s \in Scopes PROVE Dated(s)'
  BY <1>1 DEF IInv, Dated
<1> QED
  BY <1>3, <1>4, <1>5 DEF IInv, Turns, Scopes

LEMMA CrashStep ==
  ASSUME IInv, Crash
  PROVE  IInv'
<1> USE BlackboardAssumption
<1>1. /\ UNCHANGED <<scope, now, capped, round, said, status, decided, back, lease, clock>>
      /\ faults < MaxFaults /\ faults' = faults + 1
      /\ pc' = [t \in Turns |-> IF pc[t] = "new" THEN "new" ELSE "left"]
      /\ call' = [t \in Turns |-> "none"] /\ queue' = <<>>
  BY DEF Crash
<1>2. faults' \in 0..MaxFaults /\ faults' # 0
  BY <1>1 DEF IInv, TypeOK
<1>3. queue' \in Seq(Turns)
  BY <1>1, EmptySeq
<1>4. TypeOK'
  BY <1>1, <1>2, <1>3 DEF IInv, TypeOK
<1>5. \A u \in Turns : pc'[u] \in {"new", "left"} /\ (pc'[u] = "new" <=> pc[u] = "new")
  BY <1>1
<1>6. ASSUME NEW u \in Turns
      PROVE  Held(u)' /\ RoundIsOpen(u)' /\ Recorded(u)' /\ Clean(u)'
  BY <1>1, <1>2, <1>5 DEF IInv, Held, RoundIsOpen, Recorded, Clean, Converges, All, Driven
<1>7. ASSUME NEW s \in Scopes PROVE Dated(s)'
  <2>1. lease[s] # None => lease[s].turn \in Turns
    BY DEF IInv, TypeOK, Leases
  <2> QED
    BY <1>1, <1>5, <2>1 DEF IInv, Dated
<1> QED
  BY <1>4, <1>6, <1>7 DEF IInv, Turns, Scopes

-----------------------------------------------------------------------------
(* The theorems. *)

LEMMA InitHolds == Init => IInv
<1> SUFFICES ASSUME Init PROVE IInv
  OBVIOUS
<1> USE BlackboardAssumption
<1>1. <<>> \in Seq(Outcomes) /\ <<>> \in Seq(Turns) /\ Len(<<>>) = 0
  BY EmptySeq
<1>2. TypeOK
  BY <1>1 DEF Init, TypeOK
<1>3. \A s \in Scopes : Dated(s)
  BY DEF Init, Dated
<1>4. \A t \in Turns : Held(t) /\ RoundIsOpen(t) /\ Recorded(t) /\ Clean(t)
  BY <1>1 DEF Init, Held, RoundIsOpen, Recorded, Clean, Driven
<1> QED
  BY <1>2, <1>3, <1>4 DEF IInv

LEMMA NextKeeps == IInv /\ [Next]_vars => IInv'
<1> SUFFICES ASSUME IInv, [Next]_vars PROVE IInv'
  OBVIOUS
<1>1. CASE UNCHANGED vars
  BY <1>1 DEF vars, turnVars, pool, IInv, TypeOK, Dated, Held, Mine, RunOut, RoundIsOpen, Recorded,
     Clean, Converges, All, Turns, Scopes
<1>2. ASSUME NEW t \in Turns, Arrive(t) \/ Drive(t) \/ Settle(t, "completed") \/ Settle(t, "failed")
      PROVE  IInv'
  BY <1>2, ArriveStep, StartStep, CreateStep, UndoStep, DispatchStep, HearStep, JudgeStep, DecideStep,
     FinishStep, ReleaseStep, SettleStep DEF Drive
<1> QED
  BY <1>1, <1>2, TickStep, CrashStep DEF Next

LEMMA Invariant == Spec => []IInv
BY InitHolds, NextKeeps, PTL DEF Spec

\* Every variable keeps its type, for every number of turns, scopes, workers and rounds.
THEOREM TypeCorrect == Spec => []TypeOK
<1>1. IInv => TypeOK
  BY DEF IInv
<1> QED
  BY <1>1, Invariant, PTL

\* Two turns deliberate over one scope only if the lease of one has run out (acquireLease,
\* releaseLease), whatever fails in between.
THEOREM LeasesExclude == Spec => []ExclusiveWhileLeased
<1>1. IInv => ExclusiveWhileLeased
  <2> SUFFICES ASSUME IInv, NEW t \in Turns, NEW u \in Turns, t # u,
                      pc[t] \in Driven, pc[u] \in Driven, scope[t] = scope[u]
               PROVE  RunOut(t) \/ RunOut(u)
    BY DEF ExclusiveWhileLeased, RunOut
  <2>1. (Mine(t) \/ RunOut(t)) /\ (Mine(u) \/ RunOut(u))
    BY DEF IInv, Held
  <2> QED
    BY <2>1 DEF Mine
<1> QED
  BY <1>1, Invariant, PTL

\* A turn that is over, with no write refused and no crash, is not left running and locks
\* no scope (finishTurn, releaseLease, the catch clause of the deliberation).
THEOREM LeavesNothingBehind == Spec => []NothingIsLeftBehind
<1>1. IInv => NothingIsLeftBehind
  BY DEF IInv, Clean, NothingIsLeftBehind
<1> QED
  BY <1>1, Invariant, PTL

\* The runtime is handed what the tables say: a question only with its decision's row, an
\* answer only after a round in which all workers agreed (finishTurn, requestDecision).
THEOREM HandsBackWhatIsRecorded == Spec => []HandedBackAsRecorded
<1>1. IInv => HandedBackAsRecorded
  BY DEF IInv, Recorded, HandedBackAsRecorded
<1> QED
  BY <1>1, Invariant, PTL
=============================================================================
