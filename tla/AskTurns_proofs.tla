---------------------------- MODULE AskTurns_proofs ----------------------------
(* What turns that run side by side leave behind for the next ones, for any number of
   turns, crashes, failures and undos, any cap and any kinds of scope.

   The inductive invariant has a part for each store. Phases says what a turn that has come
   so far has done to the ledger; Sentinels follows the sentinel file of every turn from
   markStart over a crash to its report; Depths carries the result of the cap's check to the
   record of the question; Ghosts says that what a turn removes is not the ghost of a
   pending question. *)
EXTENDS AskTurns, FiniteSetTheorems, WellFoundedInduction, TLAPS

Recorded == {"ghost", "writing ghost", "ending", "done", "lost"}

Phases ==
    /\ up # "ready" => \A t \in Turns : pc[t] \in {"new", "done", "lost"}
    /\ up = "ready" => recovered = {}
    /\ \A t \in Turns : pc[t] # "new" => turn[t].request \in Turns
    /\ \A t \in Turns : asks[t] > 0 => pc[t] \in Recorded /\ turn[t].asks # "no"
    /\ \A t \in Turns : answers[t] # {} => asks[t] > 0

Sentinels ==
    /\ recovered \cup reported \subseteq interrupted \cup kept
    /\ \A t \in interrupted : pc[t] = "lost"
    /\ \A t \in kept : pc[t] = "done"
    /\ \A r \in Turns : sentinel[r] \in Turns =>
          /\ turn[sentinel[r]].request = r
          /\ pc[sentinel[r]] \in Running \/ sentinel[r] \in interrupted \cup kept
    /\ \A t \in Turns : pc[t] \in Running /\ Alone(t) => sentinel[turn[t].request] = t
    /\ \A t \in interrupted : Alone(t) =>
          \/ t \in recovered \cup reported \cup orphaned
          \/ up # "ready" /\ sentinel[turn[t].request] = t

Depths ==
    \A t \in Turns : turn[t].asks = "model" =>
        /\ turn[t].checked = None \/ asks[turn[t].checked] > 0
        /\ DepthAfter(turn[t].checked) <= MaxChainDepth

Ghosts ==
    \A t \in Turns :
        /\ turn[t].answered # None => answers[turn[t].answered] # {}
        /\ turn[t].resumes # None =>
              /\ pc[turn[t].resumes] \in {"done", "lost"}
              /\ turn[t].scope = "explicit" \/ turn[turn[t].resumes].scope = "own"
              /\ pc[t] \in {"recording", "ghost"} /\ turn[t].answered = None =>
                    turn[t].resumes \notin Pending

OneAnswer == \A a \in Turns : answers[a] = {} \/ \E t \in Turns : answers[a] = {t}

IInv == /\ TypeOK /\ Phases /\ Sentinels /\ Depths /\ Ghosts
        /\ OneAnswer /\ CapIsEnforced /\ PendingHasItsGhost
-----------------------------------------------------------------------------
\* Neither an empty field nor an empty file names a turn.
LEMMA NoTurn == None \notin Turns /\ Absent \notin Turns /\ Torn \notin Turns
BY DEF None, Absent, Torn, Turns

\* Latest is the latest pending question, if there is one.
LEMMA LatestIsPending ==
    /\ Latest = None \/ Latest \in Pending
    /\ Latest = None => Pending = {}
<1>0. None \notin Pending
  BY NoTurn DEF Pending
<1> SUFFICES ASSUME Pending # {} PROVE Latest \in Pending
  BY <1>0 DEF Latest
<1>1. NumTurns \in Nat /\ \A a \in Pending : a \in Nat /\ a <= NumTurns
  BY TurnsAssumption DEF Pending, Turns
<1> DEFINE distances == {NumTurns - a : a \in Pending}
<1>2. distances \subseteq Nat
  <2> SUFFICES ASSUME NEW a \in Pending PROVE NumTurns - a \in Nat
    OBVIOUS
  <2> QED
    BY <1>1
<1>3. distances # {}
  OBVIOUS
<1>4. PICK d \in distances : \A e \in distances : ~(<<e, d>> \in OpToRel(<, Nat))
  <2> HIDE DEF distances
  <2> QED
    BY <1>2, <1>3, NatLessThanWellFounded, WFMin
<1>5. \A e \in distances : ~(e < d)
  <2> SUFFICES ASSUME NEW e \in distances, e < d PROVE FALSE
    OBVIOUS
  <2>1. e \in Nat /\ d \in Nat
    BY <1>2
  <2>2. <<e, d>> \in OpToRel(<, Nat)
    BY <2>1 DEF OpToRel
  <2> QED
    BY <1>4, <2>2
<1>6. PICK a \in Pending : d = NumTurns - a
  OBVIOUS
<1>7. \A b \in Pending : a >= b
  <2> SUFFICES ASSUME NEW b \in Pending PROVE a >= b
    OBVIOUS
  <2>1. ~(NumTurns - b < NumTurns - a)
    BY <1>5, <1>6
  <2> QED
    BY <1>1, <2>1
<1> QED
  BY <1>6, <1>7 DEF Latest, Max

\* A turn that goes on without a word to the ledger takes no ghost from a pending question.
LEMMA GhostsStay ==
    ASSUME IInv, NEW t \in Turns, NEW place, place \notin {"recording", "ghost"},
           pc[t] \notin {"done", "lost"}, Goes(t, place),
           UNCHANGED <<turn, asks, answers, abandoned>>
    PROVE  Ghosts'
<1>1. pc'[t] = place /\ \A u \in Turns : u # t => pc'[u] = pc[u]
  BY DEF Goes, IInv, TypeOK
<1>2. Pending' = Pending
  BY DEF Pending
<1>3. ASSUME NEW u \in Turns, turn[u].resumes # None
      PROVE  /\ pc'[turn[u].resumes] \in {"done", "lost"}
             /\ turn[u].scope = "explicit" \/ turn[turn[u].resumes].scope = "own"
             /\ pc'[u] \in {"recording", "ghost"} /\ turn[u].answered = None =>
                   turn[u].resumes \notin Pending
  <2>1. /\ turn[u].resumes \in Turns /\ pc[turn[u].resumes] \in {"done", "lost"}
        /\ turn[u].scope = "explicit" \/ turn[turn[u].resumes].scope = "own"
        /\ pc[u] \in {"recording", "ghost"} /\ turn[u].answered = None =>
              turn[u].resumes \notin Pending
    BY <1>3 DEF IInv, Ghosts, TypeOK, Knowledge
  <2> QED
    BY <1>1, <2>1
<1>4. \A u \in Turns : turn[u].answered # None => answers[turn[u].answered] # {}
  BY DEF IInv, Ghosts
<1> QED
  BY <1>2, <1>3, <1>4 DEF Ghosts

\* A message that arrives: its turn has no record anywhere, and no request but its own may be
\* affected.
LEMMA ReceiveStep ==
    ASSUME IInv, NEW t \in Turns, Receive(t)
    PROVE  IInv'
<1>1. PICK scope \in Scopes,
           r \in {t} \cup {turn[u].request : u \in {v \in 1..(t - 1) : Reuse}},
           a \in {None} \cup {u \in 1..(t - 1) : turn[u].asks # "no" /\ pc[u] \in {"done", "lost"}} :
         /\ a # None /\ scope # "explicit" => turn[a].scope = "own"
         /\ turn' = [turn EXCEPT ![t].scope = scope, ![t].request = r, ![t].resumes = a]
  BY DEF Receive
<1>2. /\ pc[t] = "new" /\ \A u \in 1..(t - 1) : pc[u] # "new"
      /\ up = "ready" /\ pc' = [pc EXCEPT ![t] = "looking up"]
      /\ UNCHANGED <<up, recovered, reported, sentinel, ghost, asks, answers, abandoned,
                     interrupted, orphaned, kept,
                     crashes, faults, undos>>
  BY DEF Receive, Goes, process, ledger, history, counters
<1>3. 1..(t - 1) \subseteq Turns /\ t \notin 1..(t - 1)
  BY TurnsAssumption DEF Turns
<1>4. r \in Turns /\ a \in Turns \cup {None}
      /\ (a # None => a \in Turns /\ a # t /\ pc[a] \in {"done", "lost"})
  BY <1>2, <1>3 DEF IInv, Phases, None
<1>5. turn' \in [Turns -> Knowledge]
  <2> DEFINE k == [turn[t] EXCEPT !.scope = scope, !.request = r, !.resumes = a]
  <2>1. turn \in [Turns -> Knowledge] /\ turn[t] \in Knowledge
    BY DEF IInv, TypeOK
  <2>2. k \in Knowledge
    BY <1>4, <2>1 DEF Knowledge, Kinds
  <2>3. turn' = [turn EXCEPT ![t] = k]
    BY <1>1
  <2> HIDE DEF k
  <2> QED
    BY <2>1, <2>2, <2>3
<1>6. \A u \in Turns :
         /\ u # t => turn'[u] = turn[u]
         /\ turn'[u].checked = turn[u].checked /\ turn'[u].asks = turn[u].asks
         /\ turn'[u].answered = turn[u].answered
  BY <1>1 DEF IInv, TypeOK, Knowledge
<1>7. turn'[t].scope = scope /\ turn'[t].request = r /\ turn'[t].resumes = a
  BY <1>1 DEF IInv, TypeOK, Knowledge
<1>8. pc'[t] = "looking up" /\ \A u \in Turns : u # t => pc'[u] = pc[u]
  BY <1>2 DEF IInv, TypeOK
<1>9. a # None /\ scope # "explicit" => turn[a].scope = "own"
  BY <1>1
<1>10. asks[t] = 0 /\ ~(asks[t] > 0) /\ ~(asks[t] > MaxChainDepth)
  <2>1. asks[t] \in Nat
    BY DEF IInv, TypeOK
  <2>2. ~(asks[t] > 0)
    BY <1>2 DEF IInv, Phases, Recorded
  <2> QED
    BY <2>1, <2>2, TurnsAssumption
<1>11. \A u \in Turns : (turn[u].unsaved => turn'[u].unsaved)
  BY <1>1 DEF IInv, TypeOK, Knowledge
<1>12. \A u \in Turns :
         turn[u].resumes \in Turns \cup {None} /\ turn[u].answered \in Turns \cup {None}
  BY DEF IInv, TypeOK, Knowledge
<1>13. /\ Pending' \subseteq Pending
      /\ \A u \in Turns : u # t /\ Alone(u)' => Alone(u)
  <2>1. ASSUME NEW q \in Pending' PROVE q \in Pending
    <3>1. q \in Turns /\ asks[q] > 0
      BY <1>2, <2>1 DEF Pending
    <3>2. q # t
      BY <1>10, <3>1
    <3> QED
      BY <1>2, <1>6, <2>1, <3>1, <3>2 DEF Pending
  <2>2. ASSUME NEW u \in Turns, u # t, Alone(u)' PROVE Alone(u)
    <3> SUFFICES ASSUME NEW w \in Turns \ {u}, pc[w] # "new"
                 PROVE  turn[w].request # turn[u].request
      BY DEF Alone
    <3>1. w # t /\ pc'[w] # "new"
      BY <1>2, <1>8
    <3> QED
      BY <1>6, <2>2, <3>1 DEF Alone
  <2> QED
    BY <2>1, <2>2, TurnsAssumption
<1>14. TypeOK'
  BY <1>2, <1>5 DEF IInv, TypeOK, Places
<1>15. Phases'
  <2>1. \A u \in Turns : pc'[u] # "new" => turn'[u].request \in Turns
    BY <1>2, <1>4, <1>6, <1>7, <1>8 DEF IInv, Phases
  <2>2. ASSUME NEW u \in Turns, asks'[u] > 0 PROVE pc'[u] \in Recorded /\ turn'[u].asks # "no"
    <3>1. asks[u] > 0 /\ u # t
      BY <1>2, <1>10, <2>2
    <3> QED
      BY <1>6, <1>8, <3>1 DEF IInv, Phases
  <2> QED
    BY <1>2, <2>1, <2>2 DEF IInv, Phases
<1>16. Sentinels'
  <2>1. /\ t \notin interrupted \cup kept /\ up = "ready"
        /\ \A n \in Turns : sentinel[n] # t
        /\ recovered' \cup reported' \subseteq interrupted' \cup kept'
    <3>1. t \notin interrupted \cup kept
      BY <1>2 DEF IInv, Sentinels
    <3>2. \A n \in Turns : sentinel[n] # t
      BY <1>2, <3>1 DEF IInv, Sentinels, Running
    <3>3. recovered' \cup reported' \subseteq interrupted' \cup kept'
      BY <1>2 DEF IInv, Sentinels
    <3> QED
      BY <1>2, <3>1, <3>2, <3>3
  <2>2. (\A u \in interrupted' : pc'[u] = "lost") /\ \A u \in kept' : pc'[u] = "done"
    <3>1. /\ interrupted' = interrupted /\ kept' = kept
          /\ interrupted \subseteq Turns /\ kept \subseteq Turns
      BY <1>2 DEF IInv, TypeOK
    <3>2. /\ \A u \in interrupted : pc[u] = "lost"
          /\ \A u \in kept : pc[u] = "done"
      BY DEF IInv, Sentinels
    <3> QED
      BY <1>8, <2>1, <3>1, <3>2
  <2>3. ASSUME NEW n \in Turns, sentinel'[n] \in Turns
        PROVE  /\ turn'[sentinel'[n]].request = n
               /\ pc'[sentinel'[n]] \in Running \/ sentinel'[n] \in interrupted' \cup kept'
    <3>1. /\ sentinel'[n] = sentinel[n] /\ sentinel[n] # t /\ sentinel[n] \in Turns
      BY <1>2, <2>1, <2>3
    <3>2. turn'[sentinel[n]] = turn[sentinel[n]] /\ pc'[sentinel[n]] = pc[sentinel[n]]
      BY <1>6, <1>8, <3>1
    <3> QED
      BY <1>2, <2>3, <3>1, <3>2 DEF IInv, Sentinels
  <2>4. ASSUME NEW u \in Turns, pc'[u] \in Running, Alone(u)'
        PROVE  sentinel'[turn'[u].request] = u
    <3>1. u # t
      BY <1>8, <2>4 DEF Running
    <3>2. pc[u] = pc'[u] /\ turn'[u] = turn[u] /\ Alone(u)
      BY <1>6, <1>8, <1>13, <2>4, <3>1
    <3>3. sentinel[turn[u].request] = u
      BY <2>4, <3>2 DEF IInv, Sentinels
    <3> QED
      BY <1>2, <3>2, <3>3
  <2>5. ASSUME NEW u \in interrupted', Alone(u)'
        PROVE  u \in recovered' \cup reported' \cup orphaned'
    <3>1. u \in interrupted /\ u \in Turns /\ u # t
      BY <1>2, <2>1, <2>5 DEF IInv, TypeOK
    <3> QED
      BY <1>2, <1>13, <2>1, <2>5, <3>1 DEF IInv, Sentinels
  <2> QED
    BY <2>1, <2>2, <2>3, <2>4, <2>5 DEF Sentinels
<1>17. Depths'
  BY <1>2, <1>6 DEF IInv, Depths, DepthAfter
<1>18. Ghosts'
  <2>1. ASSUME NEW u \in Turns, turn'[u].answered # None
        PROVE  answers'[turn'[u].answered] # {}
    BY <1>2, <1>6, <2>1 DEF IInv, Ghosts
  <2>2. ASSUME NEW u \in Turns, u # t, turn'[u].resumes # None
        PROVE  /\ pc'[turn'[u].resumes] \in {"done", "lost"}
               /\ turn'[u].scope = "explicit" \/ turn'[turn'[u].resumes].scope = "own"
               /\ pc'[u] \in {"recording", "ghost"} /\ turn'[u].answered = None =>
                     turn'[u].resumes \notin Pending'
    <3> DEFINE v == turn[u].resumes
    <3>1. /\ v \in Turns /\ pc[v] \in {"done", "lost"} /\ turn'[u] = turn[u] /\ pc'[u] = pc[u]
          /\ turn[u].scope = "explicit" \/ turn[v].scope = "own"
          /\ pc[u] \in {"recording", "ghost"} /\ turn[u].answered = None => v \notin Pending
      BY <1>6, <1>8, <1>12, <2>2 DEF IInv, Ghosts
    <3>2. v # t
      BY <1>2, <3>1
    <3> QED
      BY <1>6, <1>8, <1>13, <3>1, <3>2
  <2>3. turn'[t].resumes # None =>
           /\ pc'[turn'[t].resumes] \in {"done", "lost"}
           /\ turn'[t].scope = "explicit" \/ turn'[turn'[t].resumes].scope = "own"
           /\ pc'[t] \notin {"recording", "ghost"}
    BY <1>4, <1>6, <1>7, <1>8, <1>9
  <2> QED
    BY <2>1, <2>2, <2>3 DEF Ghosts
<1>19. OneAnswer'
  BY <1>1, <1>2, <1>4, <1>6, <1>7, <1>8, <1>10 DEF IInv, OneAnswer
<1>20. CapIsEnforced'
  <2> SUFFICES ASSUME NEW q \in Turns, asks'[q] > MaxChainDepth
               PROVE  \/ turn'[q].asks = "runtime" \/ turn'[q].scope = "recalled"
                      \/ turn'[q].checked # turn'[q].answered
    BY DEF CapIsEnforced
  <2>1. q # t
    BY <1>2, <1>10
  <2> QED
    BY <1>2, <1>6, <1>7, <2>1 DEF IInv, CapIsEnforced
<1>21. PendingHasItsGhost'
  <2>1. ASSUME NEW q \in Pending', pc'[q] \in {"ending", "done"}, ~turn'[q].unsaved, Alone(q)'
        PROVE  ghost'[turn'[q].request] = q
    <3>1. q \in Turns /\ q \in Pending
      BY <1>13, <2>1 DEF Pending
    <3>2. q # t
      BY <1>8, <2>1
    <3> QED
      BY <1>2, <1>6, <1>8, <1>13, <2>1, <3>1, <3>2 DEF IInv, PendingHasItsGhost
  <2> QED
    BY <2>1 DEF PendingHasItsGhost
<1> QED
  BY <1>14, <1>15, <1>16, <1>17, <1>18, <1>19, <1>20, <1>21 DEF IInv

\* A turn that moves on between two awaits of one kind, or gives up before it starts, leaves
\* the sentinels what they are.
LEMMA SentinelsRest ==
    ASSUME IInv, NEW t \in Turns,
           UNCHANGED <<up, recovered, reported, interrupted, orphaned, kept, sentinel>>,
           \A u \in Turns : turn'[u].request = turn[u].request,
           \A u \in Turns \ {t} : pc'[u] = pc[u],
           pc[t] \notin {"lost", "done"}, pc'[t] \notin {"new", "lost"},
           pc[t] \in Running <=> pc'[t] \in Running
    PROVE  Sentinels'
<1> USE DEF IInv, Sentinels
<1>1. interrupted \subseteq Turns /\ kept \subseteq Turns /\ t \notin interrupted \cup kept
  BY DEF TypeOK
<1>2. \A u \in Turns : pc'[u] \in Running <=> pc[u] \in Running
  OBVIOUS
<1>3. ASSUME NEW u \in Turns, Alone(u)' PROVE Alone(u)
  BY <1>3 DEF Alone
<1>4. (\A u \in interrupted : pc'[u] = "lost") /\ \A u \in kept : pc'[u] = "done"
  BY <1>1
<1>5. ASSUME NEW r \in Turns, sentinel[r] \in Turns
      PROVE  /\ turn'[sentinel[r]].request = r
             /\ pc'[sentinel[r]] \in Running \/ sentinel[r] \in interrupted \cup kept
  BY <1>2, <1>5
<1>6. ASSUME NEW u \in Turns, pc'[u] \in Running, Alone(u)'
      PROVE  sentinel[turn'[u].request] = u
  BY <1>2, <1>3, <1>6
<1>7. ASSUME NEW u \in interrupted, Alone(u)'
      PROVE  \/ u \in recovered \cup reported \cup orphaned
             \/ up # "ready" /\ sentinel[turn'[u].request] = u
  BY <1>1, <1>3, <1>7
<1> QED
  BY <1>4, <1>5, <1>6, <1>7

\* A turn that ends before it starts leaves no trace.
LEMMA RefuseStep ==
    ASSUME IInv, NEW t \in Turns, Refuse(t)
    PROVE  IInv'
<1>1. TypeOK'
  BY DEF IInv, TypeOK, Refuse, process, ledger, history, counters, Goes, Places
<1>2. Phases'
  BY DEF IInv, Phases, Refuse, process, ledger, history, counters, Goes, TypeOK, Recorded
<1>3. Sentinels'
  <2>1. /\ UNCHANGED <<up, recovered, reported, interrupted, orphaned, kept, sentinel, turn>>
        /\ pc' = [pc EXCEPT ![t] = pc'[t]] /\ pc[t] \notin {"lost", "done"} /\ pc'[t] \notin {"new", "lost"}
        /\ pc[t] \in Running <=> pc'[t] \in Running
    BY DEF Refuse, process, ledger, history, Goes, Running, IInv, TypeOK
  <2>2. \A u \in Turns \ {t} : pc'[u] = pc[u]
    BY <2>1 DEF IInv, TypeOK
  <2> QED
    BY <2>1, <2>2, SentinelsRest
<1>4. Depths'
  BY DEF IInv, Depths, Refuse, process, ledger, history, counters, Goes, DepthAfter, TypeOK,
     Phases
<1>5. Ghosts'
  BY GhostsStay DEF Refuse, ledger
<1>6. OneAnswer'
  BY DEF IInv, OneAnswer, Refuse, process, ledger, history, counters, Goes, TypeOK
<1>7. CapIsEnforced'
  BY DEF IInv, CapIsEnforced, Refuse, process, ledger, history, counters, Goes, TypeOK, Phases,
     Depths, DepthAfter
<1>8. PendingHasItsGhost'
  BY DEF IInv, PendingHasItsGhost, Refuse, process, ledger, history, counters, Goes, Pending,
     Alone, TypeOK, Phases, Ghosts, Recorded
<1> QED
  BY <1>1, <1>2, <1>3, <1>4, <1>5, <1>6, <1>7, <1>8 DEF IInv

\* markStart: the file of the request is created, empty.
LEMMA MarkStartStep ==
    ASSUME IInv, NEW t \in Turns, MarkStart(t)
    PROVE  IInv'
<1>1. TypeOK'
  BY DEF IInv, TypeOK, MarkStart, process, ledger, history, counters, Goes, Places
<1>2. Phases'
  BY DEF IInv, Phases, MarkStart, process, ledger, history, counters, Goes, TypeOK, Recorded
<1>3. Sentinels'
  <2> DEFINE request == turn[t].request
  <2>1. /\ pc[t] = "looking up" /\ pc' = [pc EXCEPT ![t] = "marking"]
        /\ sentinel' = [sentinel EXCEPT ![request] = Torn]
        /\ UNCHANGED <<up, recovered, reported, turn, interrupted, orphaned, kept>>
    BY DEF MarkStart, Goes, process, history
  <2>2. /\ request \in Turns /\ up = "ready" /\ t \notin interrupted \cup kept
        /\ pc'[t] = "marking" /\ \A u \in Turns : u # t => pc'[u] = pc[u]
        /\ sentinel'[request] = Torn /\ \A r \in Turns \ {request} : sentinel'[r] = sentinel[r]
        /\ interrupted \subseteq Turns /\ kept \subseteq Turns
    BY <2>1 DEF IInv, TypeOK, Phases, Sentinels
  <2>3. ASSUME NEW u \in Turns, Alone(u)'
        PROVE  Alone(u) /\ (u # t => turn[u].request # request)
    BY <2>1, <2>2, <2>3 DEF Alone
  <2>4. ASSUME NEW r \in Turns, sentinel'[r] \in Turns
        PROVE  /\ turn'[sentinel'[r]].request = r
               /\ pc'[sentinel'[r]] \in Running \/ sentinel'[r] \in interrupted' \cup kept'
    <3>1. r # request /\ sentinel'[r] = sentinel[r] /\ sentinel[r] \in Turns
      BY <2>2, <2>4, NoTurn
    <3>2. /\ turn[sentinel[r]].request = r
          /\ pc[sentinel[r]] \in Running \/ sentinel[r] \in interrupted \cup kept
      BY <3>1 DEF IInv, Sentinels
    <3>3. sentinel[r] # t
      BY <3>1, <3>2
    <3>4. /\ pc'[sentinel[r]] = pc[sentinel[r]] /\ turn' = turn
          /\ interrupted' = interrupted /\ kept' = kept
      BY <2>1, <2>2, <3>1, <3>3
    <3> QED
      BY <3>1, <3>2, <3>4
  <2>5. ASSUME NEW u \in Turns, pc'[u] \in Running, Alone(u)'
        PROVE  sentinel'[turn'[u].request] = u
    <3>1. u # t
      BY <2>2, <2>5 DEF Running
    <3>2. CASE u # t
      <4>1. pc[u] \in Running /\ Alone(u) /\ turn[u].request \in Turns \ {request}
        BY <2>2, <2>3, <2>5, <3>2 DEF IInv, Phases, Running
      <4>2. sentinel[turn[u].request] = u
        BY <4>1 DEF IInv, Sentinels
      <4> QED
        BY <2>1, <2>2, <4>1, <4>2
    <3> QED
      BY <3>1, <3>2
  <2>6. ASSUME NEW u \in interrupted', Alone(u)'
        PROVE  u \in recovered' \cup reported' \cup orphaned'
    BY <2>1, <2>2, <2>3, <2>6 DEF IInv, Sentinels
  <2>7. /\ recovered' \cup reported' \subseteq interrupted' \cup kept'
        /\ (\A u \in interrupted' : pc'[u] = "lost") /\ \A u \in kept' : pc'[u] = "done"
    <3>1. /\ \A u \in interrupted : pc[u] = "lost"
          /\ \A u \in kept : pc[u] = "done"
          /\ recovered \cup reported \subseteq interrupted \cup kept
      BY DEF IInv, Sentinels
    <3>2. /\ interrupted' = interrupted /\ kept' = kept
          /\ recovered' = recovered /\ reported' = reported
      BY <2>1
    <3> QED
      BY <2>2, <3>1, <3>2
  <2> HIDE DEF request
  <2> QED
    BY <2>4, <2>5, <2>6, <2>7 DEF Sentinels
<1>4. Depths'
  BY DEF IInv, Depths, MarkStart, process, ledger, history, counters, Goes, DepthAfter, TypeOK,
     Phases
<1>5. Ghosts'
  BY GhostsStay DEF MarkStart, ledger
<1>6. OneAnswer'
  BY DEF IInv, OneAnswer, MarkStart, process, ledger, history, counters, Goes, TypeOK
<1>7. CapIsEnforced'
  BY DEF IInv, CapIsEnforced, MarkStart, process, ledger, history, counters, Goes, TypeOK,
     Phases, Depths, DepthAfter
<1>8. PendingHasItsGhost'
  BY DEF IInv, PendingHasItsGhost, MarkStart, process, ledger, history, counters, Goes, Pending,
     Alone, TypeOK, Phases, Ghosts, Recorded
<1> QED
  BY <1>1, <1>2, <1>3, <1>4, <1>5, <1>6, <1>7, <1>8 DEF IInv

\* markStart: the file names its turn, whose work begins.
LEMMA MarkedStep ==
    ASSUME IInv, NEW t \in Turns, Marked(t)
    PROVE  IInv'
<1>1. TypeOK'
  BY DEF IInv, TypeOK, Marked, process, ledger, history, counters, Goes, Places
<1>2. Phases'
  BY DEF IInv, Phases, Marked, process, ledger, history, counters, Goes, TypeOK, Recorded
<1>3. Sentinels'
  <2> DEFINE request == turn[t].request
  <2>1. /\ pc[t] = "marking" /\ pc' = [pc EXCEPT ![t] = "thinking"]
        /\ sentinel' = [sentinel EXCEPT ![request] = t]
        /\ UNCHANGED <<up, recovered, reported, turn, interrupted, orphaned, kept>>
    BY DEF Marked, Goes, process, history
  <2>2. /\ request \in Turns /\ up = "ready" /\ t \notin interrupted \cup kept
        /\ pc'[t] = "thinking" /\ \A u \in Turns : u # t => pc'[u] = pc[u]
        /\ sentinel'[request] = t /\ \A r \in Turns \ {request} : sentinel'[r] = sentinel[r]
        /\ interrupted \subseteq Turns /\ kept \subseteq Turns
    BY <2>1 DEF IInv, TypeOK, Phases, Sentinels
  <2>3. ASSUME NEW u \in Turns, Alone(u)'
        PROVE  Alone(u) /\ (u # t => turn[u].request # request)
    BY <2>1, <2>2, <2>3 DEF Alone
  <2>4. ASSUME NEW r \in Turns, sentinel'[r] \in Turns
        PROVE  /\ turn'[sentinel'[r]].request = r
               /\ pc'[sentinel'[r]] \in Running \/ sentinel'[r] \in interrupted' \cup kept'
    <3>1. CASE r = request
      BY <2>1, <2>2, <3>1 DEF Running
    <3>2. CASE r # request
      <4>1. sentinel'[r] = sentinel[r] /\ sentinel[r] \in Turns
        BY <2>2, <2>4, <3>2
      <4>2. /\ turn[sentinel[r]].request = r
            /\ pc[sentinel[r]] \in Running \/ sentinel[r] \in interrupted \cup kept
        BY <4>1 DEF IInv, Sentinels
      <4>3. sentinel[r] # t
        BY <3>2, <4>2
      <4> QED
        BY <2>1, <2>2, <4>1, <4>2, <4>3
    <3> QED
      BY <3>1, <3>2
  <2>5. ASSUME NEW u \in Turns, pc'[u] \in Running, Alone(u)'
        PROVE  sentinel'[turn'[u].request] = u
    <3>1. CASE u = t
      BY <2>1, <2>2, <3>1
    <3>2. CASE u # t
      <4>1. pc[u] \in Running /\ Alone(u) /\ turn[u].request \in Turns \ {request}
        BY <2>2, <2>3, <2>5, <3>2 DEF IInv, Phases, Running
      <4>2. sentinel[turn[u].request] = u
        BY <4>1 DEF IInv, Sentinels
      <4> QED
        BY <2>1, <2>2, <4>1, <4>2
    <3> QED
      BY <3>1, <3>2
  <2>6. ASSUME NEW u \in interrupted', Alone(u)'
        PROVE  u \in recovered' \cup reported' \cup orphaned'
    BY <2>1, <2>2, <2>3, <2>6 DEF IInv, Sentinels
  <2>7. /\ recovered' \cup reported' \subseteq interrupted' \cup kept'
        /\ (\A u \in interrupted' : pc'[u] = "lost") /\ \A u \in kept' : pc'[u] = "done"
    BY <2>1, <2>2 DEF IInv, Sentinels
  <2> HIDE DEF request
  <2> QED
    BY <2>4, <2>5, <2>6, <2>7 DEF Sentinels
<1>4. Depths'
  BY DEF IInv, Depths, Marked, process, ledger, history, counters, Goes, DepthAfter, TypeOK,
     Phases
<1>5. Ghosts'
  BY GhostsStay DEF Marked, ledger
<1>6. OneAnswer'
  BY DEF IInv, OneAnswer, Marked, process, ledger, history, counters, Goes, TypeOK
<1>7. CapIsEnforced'
  BY DEF IInv, CapIsEnforced, Marked, process, ledger, history, counters, Goes, TypeOK, Phases,
     Depths, DepthAfter
<1>8. PendingHasItsGhost'
  BY DEF IInv, PendingHasItsGhost, Marked, process, ledger, history, counters, Goes, Pending,
     Alone, TypeOK, Phases, Ghosts, Recorded
<1> QED
  BY <1>1, <1>2, <1>3, <1>4, <1>5, <1>6, <1>7, <1>8 DEF IInv

\* A sentinel that cannot be written ends a turn that is not running yet.
LEMMA MarkFailsStep ==
    ASSUME IInv, NEW t \in Turns, MarkFails(t)
    PROVE  IInv'
<1>1. TypeOK'
  <2>1. faults' \in Nat
    <3>1. faults' = faults + 1
      BY DEF MarkFails
    <3>2. faults \in Nat
      BY DEF IInv, TypeOK
    <3> QED
      BY <3>1, <3>2
  <2> QED
    BY <2>1 DEF IInv, TypeOK, MarkFails, process, ledger, history, counters, Goes, Places
<1>2. Phases'
  BY DEF IInv, Phases, MarkFails, process, ledger, history, counters, Goes, TypeOK, Recorded
<1>3. Sentinels'
  <2> DEFINE request == turn[t].request
  <2>1. /\ pc[t] = "marking" /\ pc' = [pc EXCEPT ![t] = "done"]
        /\ sentinel' \in {sentinel, [sentinel EXCEPT ![request] = t]}
        /\ kept' = kept \cup {t}
        /\ UNCHANGED <<up, recovered, reported, turn, interrupted, orphaned>>
    BY DEF MarkFails, Goes, process
  <2>2. /\ request \in Turns /\ up = "ready" /\ t \notin interrupted \cup kept
        /\ pc'[t] = "done" /\ \A u \in Turns : u # t => pc'[u] = pc[u]
        /\ sentinel'[request] \in {t, sentinel[request]} /\ \A r \in Turns \ {request} : sentinel'[r] = sentinel[r]
        /\ interrupted \subseteq Turns /\ kept \subseteq Turns
    BY <2>1 DEF IInv, TypeOK, Phases, Sentinels
  <2>3. ASSUME NEW u \in Turns, Alone(u)'
        PROVE  Alone(u) /\ (u # t => turn[u].request # request)
    BY <2>1, <2>2, <2>3 DEF Alone
  <2>4. ASSUME NEW r \in Turns, sentinel'[r] \in Turns
        PROVE  /\ turn'[sentinel'[r]].request = r
               /\ pc'[sentinel'[r]] \in Running \/ sentinel'[r] \in interrupted' \cup kept'
    <3>1. CASE sentinel'[r] = t /\ r = request
      BY <2>1, <2>2, <3>1
    <3>2. CASE sentinel'[r] # t \/ r # request
      <4>1. sentinel'[r] = sentinel[r] /\ sentinel[r] \in Turns
        BY <2>2, <2>4, <3>2
      <4>2. /\ turn[sentinel[r]].request = r
            /\ pc[sentinel[r]] \in Running \/ sentinel[r] \in interrupted \cup kept
        BY <4>1 DEF IInv, Sentinels
      <4>3. sentinel[r] # t
        BY <3>2, <4>1, <4>2
      <4> QED
        BY <2>1, <2>2, <4>1, <4>2, <4>3
    <3> QED
      BY <3>1, <3>2
  <2>5. ASSUME NEW u \in Turns, pc'[u] \in Running, Alone(u)'
        PROVE  sentinel'[turn'[u].request] = u
    <3>1. u # t
      BY <2>2, <2>5 DEF Running
    <3>2. pc[u] \in Running /\ Alone(u) /\ turn[u].request \in Turns \ {request}
      BY <2>2, <2>3, <2>5, <3>1 DEF IInv, Phases, Running
    <3>3. sentinel[turn[u].request] = u
      BY <3>2 DEF IInv, Sentinels
    <3> QED
      BY <2>1, <2>2, <3>2, <3>3
  <2>6. ASSUME NEW u \in interrupted', Alone(u)'
        PROVE  u \in recovered' \cup reported' \cup orphaned'
    BY <2>1, <2>2, <2>3, <2>6 DEF IInv, Sentinels
  <2>7. /\ recovered' \cup reported' \subseteq interrupted' \cup kept'
        /\ (\A u \in interrupted' : pc'[u] = "lost") /\ \A u \in kept' : pc'[u] = "done"
    BY <2>1, <2>2 DEF IInv, Sentinels
  <2> HIDE DEF request
  <2> QED
    BY <2>4, <2>5, <2>6, <2>7 DEF Sentinels
<1>4. Depths'
  BY DEF IInv, Depths, MarkFails, process, ledger, history, counters, Goes, DepthAfter, TypeOK,
     Phases
<1>5. Ghosts'
  BY GhostsStay DEF MarkFails, ledger
<1>6. OneAnswer'
  BY DEF IInv, OneAnswer, MarkFails, process, ledger, history, counters, Goes, TypeOK
<1>7. CapIsEnforced'
  BY DEF IInv, CapIsEnforced, MarkFails, process, ledger, history, counters, Goes, TypeOK,
     Phases, Depths, DepthAfter
<1>8. PendingHasItsGhost'
  BY DEF IInv, PendingHasItsGhost, MarkFails, process, ledger, history, counters, Goes, Pending,
     Alone, TypeOK, Phases, Ghosts, Recorded
<1> QED
  BY <1>1, <1>2, <1>3, <1>4, <1>5, <1>6, <1>7, <1>8 DEF IInv

\* A turn that ends without a reply.
LEMMA StoppedStep ==
    ASSUME IInv, NEW t \in Turns, Stopped(t)
    PROVE  IInv'
<1>1. TypeOK'
  BY DEF IInv, TypeOK, Stopped, process, ledger, history, counters, Goes, Places
<1>2. Phases'
  BY DEF IInv, Phases, Stopped, process, ledger, history, counters, Goes, TypeOK, Recorded
<1>3. Sentinels'
  <2>1. /\ UNCHANGED <<up, recovered, reported, interrupted, orphaned, kept, sentinel, turn>>
        /\ pc' = [pc EXCEPT ![t] = pc'[t]] /\ pc[t] \notin {"lost", "done"} /\ pc'[t] \notin {"new", "lost"}
        /\ pc[t] \in Running <=> pc'[t] \in Running
    BY DEF Stopped, process, ledger, history, Goes, Running, IInv, TypeOK
  <2>2. \A u \in Turns \ {t} : pc'[u] = pc[u]
    BY <2>1 DEF IInv, TypeOK
  <2> QED
    BY <2>1, <2>2, SentinelsRest
<1>4. Depths'
  BY DEF IInv, Depths, Stopped, process, ledger, history, counters, Goes, DepthAfter, TypeOK,
     Phases
<1>5. Ghosts'
  BY GhostsStay DEF Stopped, ledger
<1>6. OneAnswer'
  BY DEF IInv, OneAnswer, Stopped, process, ledger, history, counters, Goes, TypeOK
<1>7. CapIsEnforced'
  BY DEF IInv, CapIsEnforced, Stopped, process, ledger, history, counters, Goes, TypeOK, Phases,
     Depths, DepthAfter
<1>8. PendingHasItsGhost'
  BY DEF IInv, PendingHasItsGhost, Stopped, process, ledger, history, counters, Goes, Pending,
     Alone, TypeOK, Phases, Ghosts, Recorded
<1> QED
  BY <1>1, <1>2, <1>3, <1>4, <1>5, <1>6, <1>7, <1>8 DEF IInv

\* The model's answer: what the cap's check has found out is in the turn.
LEMMA GenerateStep ==
    ASSUME IInv, NEW t \in Turns, Generate(t)
    PROVE  IInv'
<1> DEFINE pending == PendingByContext(t)
<1>1. PICK kind \in Kinds :
         turn' = [turn EXCEPT ![t].checked = pending, ![t].asks =
                    IF kind = "model" /\ DepthAfter(pending) > MaxChainDepth
                    THEN "no" ELSE kind]
  BY DEF Generate
<1>2. /\ pc[t] = "thinking" /\ pc' = [pc EXCEPT ![t] = "remembering"]
      /\ UNCHANGED <<up, recovered, reported, sentinel, ghost, asks, answers, abandoned,
                     interrupted, orphaned, kept,
                     crashes, faults, undos>>
  BY DEF Generate, Goes, process, ledger, history, counters
<1>3. pending \in Turns \cup {None} /\ (pending = None \/ asks[pending] > 0)
  BY LatestIsPending DEF PendingByContext, Pending
<1>4. DepthAfter(pending) \in Nat /\ MaxChainDepth \in Nat
  BY <1>3, TurnsAssumption DEF DepthAfter, IInv, TypeOK
<1> HIDE DEF pending
<1>5. turn' \in [Turns -> Knowledge]
  <2> DEFINE k == [turn[t] EXCEPT !.checked = pending, !.asks =
                    IF kind = "model" /\ DepthAfter(pending) > MaxChainDepth
                    THEN "no" ELSE kind]
  <2>1. turn \in [Turns -> Knowledge] /\ turn[t] \in Knowledge
    BY DEF IInv, TypeOK
  <2>2. k \in Knowledge
    BY <1>3, <2>1 DEF Knowledge, Kinds
  <2>3. turn' = [turn EXCEPT ![t] = k]
    BY <1>1
  <2> HIDE DEF k
  <2> QED
    BY <2>1, <2>2, <2>3
<1>6. \A u \in Turns :
         /\ turn'[u].scope = turn[u].scope /\ turn'[u].request = turn[u].request
         /\ turn'[u].resumes = turn[u].resumes /\ turn'[u].answered = turn[u].answered
         /\ u # t => turn'[u].asks = turn[u].asks /\ turn'[u].checked = turn[u].checked
  BY <1>1 DEF IInv, TypeOK, Knowledge
<1>7. /\ turn'[t].checked = pending
      /\ turn'[t].asks = "model" => DepthAfter(pending) <= MaxChainDepth
  BY <1>1, <1>4 DEF IInv, TypeOK, Knowledge
<1>8. pc'[t] = "remembering" /\ \A u \in Turns : u # t => pc'[u] = pc[u]
  BY <1>2 DEF IInv, TypeOK
<1>9. asks[t] = 0 /\ ~(asks[t] > 0) /\ ~(asks[t] > MaxChainDepth)
  <2>1. asks[t] \in Nat
    BY DEF IInv, TypeOK
  <2>2. ~(asks[t] > 0)
    BY <1>2 DEF IInv, Phases, Recorded
  <2> QED
    BY <2>1, <2>2, TurnsAssumption
<1>10. \A u \in Turns : (turn[u].unsaved => turn'[u].unsaved)
  BY <1>1 DEF IInv, TypeOK, Knowledge
<1>11. \A u \in Turns :
         turn[u].resumes \in Turns \cup {None} /\ turn[u].answered \in Turns \cup {None}
  BY DEF IInv, TypeOK, Knowledge
<1>12. TypeOK'
  BY <1>2, <1>5 DEF IInv, TypeOK, Places
<1>13. Phases'
  BY <1>2, <1>3, <1>6, <1>7, <1>8, <1>9 DEF IInv, Phases, Recorded
<1>14. Sentinels'
  <2>1. /\ pc[t] \notin {"lost", "done"} /\ pc'[t] \notin {"new", "lost"}
        /\ pc[t] \in Running <=> pc'[t] \in Running
    BY <1>2, <1>6, <1>8 DEF Running
  <2> QED
    BY <1>2, <1>6, <1>8, <2>1, SentinelsRest
<1>15. Depths'
  BY <1>2, <1>3, <1>6, <1>7, <1>8, <1>9 DEF IInv, Depths, DepthAfter, Phases
<1>16. Ghosts'
  <2>1. Pending' \subseteq Pending
    BY <1>2, <1>6 DEF Pending
  <2>2. ASSUME NEW u \in Turns, turn'[u].answered # None
        PROVE  answers'[turn'[u].answered] # {}
    BY <1>2, <1>6, <2>2 DEF IInv, Ghosts
  <2>3. ASSUME NEW u \in Turns, turn'[u].resumes # None
        PROVE  /\ pc'[turn'[u].resumes] \in {"done", "lost"}
               /\ turn'[u].scope = "explicit" \/ turn'[turn'[u].resumes].scope = "own"
    <3> DEFINE v == turn[u].resumes
    <3>1. /\ v \in Turns /\ pc[v] \in {"done", "lost"}
          /\ turn[u].scope = "explicit" \/ turn[v].scope = "own"
      BY <1>11, <1>6, <2>3 DEF IInv, Ghosts
    <3> QED
      BY <1>2, <1>6, <1>8, <2>3, <3>1
  <2>4. ASSUME NEW u \in Turns, turn'[u].resumes # None, pc'[u] \in {"recording", "ghost"},
               turn'[u].answered = None
        PROVE  turn'[u].resumes \notin Pending'
    BY <1>2, <1>6, <1>8, <2>1, <2>4 DEF IInv, Ghosts
  <2> QED
    BY <2>2, <2>3, <2>4 DEF Ghosts
<1>17. OneAnswer'
  BY <1>2, <1>3, <1>6, <1>7, <1>8, <1>9 DEF IInv, OneAnswer
<1>18. CapIsEnforced'
  <2> SUFFICES ASSUME NEW q \in Turns, asks'[q] > MaxChainDepth
               PROVE  \/ turn'[q].asks = "runtime" \/ turn'[q].scope = "recalled"
                      \/ turn'[q].checked # turn'[q].answered
    BY DEF CapIsEnforced
  <2>1. q # t
    BY <1>2, <1>9
  <2> QED
    BY <1>2, <1>6, <2>1 DEF IInv, CapIsEnforced
<1>19. PendingHasItsGhost'
  <2>1. ASSUME NEW u \in Turns, Alone(u)' PROVE Alone(u)
    BY <1>2, <1>6, <1>8, <2>1 DEF Alone
  <2>2. Pending' \subseteq Pending
    BY <1>2, <1>6 DEF Pending
  <2>3. ASSUME NEW q \in Pending', pc'[q] \in {"ending", "done"}, ~turn'[q].unsaved, Alone(q)'
        PROVE  ghost'[turn'[q].request] = q
    <3>1. q \in Turns /\ q \in Pending /\ Alone(q)
      BY <2>1, <2>2, <2>3 DEF Pending
    <3>2. q # t /\ pc[q] = pc'[q] /\ ~turn[q].unsaved
      BY <1>8, <1>10, <2>3, <3>1
    <3> QED
      BY <1>2, <1>6, <2>3, <3>1, <3>2 DEF IInv, PendingHasItsGhost
  <2> QED
    BY <2>3 DEF PendingHasItsGhost
<1> QED
  BY <1>12, <1>13, <1>14, <1>15, <1>16, <1>17, <1>18, <1>19 DEF IInv

\* rememberTurn: the answer joins the latest pending question, which stops pending.
LEMMA RememberStep ==
    ASSUME IInv, NEW t \in Turns, Remember(t)
    PROVE  IInv'
<1> DEFINE a == PendingEnriched(t)
<1>1. turn' = [turn EXCEPT ![t].answered = a]
  BY DEF Remember
<1>2. /\ pc[t] = "remembering" /\ pc' = [pc EXCEPT ![t] = "recording"]
      /\ answers' = IF a = None THEN answers ELSE [answers EXCEPT ![a] = @ \cup {t}]
      /\ UNCHANGED <<up, recovered, reported, sentinel, ghost, asks, abandoned,
                     interrupted, orphaned, kept,
                     crashes, faults, undos>>
  BY DEF Remember, Goes, process, history, counters
<1>3. a \in Turns \cup {None} /\ (a = None \/ a \in Pending)
  BY LatestIsPending DEF PendingEnriched, Pending
<1>4. a # None => asks[a] > 0 /\ answers[a] = {}
  BY <1>3 DEF Pending
<1>5. turn[t].scope # "own" /\ a = None => Pending = {}
  BY LatestIsPending DEF PendingEnriched
<1> HIDE DEF a
<1>6. turn' \in [Turns -> Knowledge]
  <2> DEFINE k == [turn[t] EXCEPT !.answered = a]
  <2>1. turn \in [Turns -> Knowledge] /\ turn[t] \in Knowledge
    BY DEF IInv, TypeOK
  <2>2. k \in Knowledge
    BY <1>3, <2>1 DEF Knowledge, Kinds
  <2>3. turn' = [turn EXCEPT ![t] = k]
    BY <1>1
  <2> HIDE DEF k
  <2> QED
    BY <2>1, <2>2, <2>3
<1>7. \A u \in Turns :
         /\ turn'[u].scope = turn[u].scope /\ turn'[u].request = turn[u].request
         /\ turn'[u].resumes = turn[u].resumes /\ turn'[u].checked = turn[u].checked
         /\ turn'[u].asks = turn[u].asks
         /\ u # t => turn'[u].answered = turn[u].answered
  BY <1>1 DEF IInv, TypeOK, Knowledge
<1>8. /\ answers' \in [Turns -> SUBSET Turns]
      /\ \A u \in Turns : answers[u] # {} => answers'[u] # {}
      /\ \A u \in Turns : answers'[u] = {} => answers[u] = {}
      /\ a # None => answers'[a] = {t}
      /\ \A u \in Turns : u # a => answers'[u] = answers[u]
  <2>1. answers \in [Turns -> SUBSET Turns]
    BY DEF IInv, TypeOK
  <2>2. CASE a = None
    BY <1>2, <2>1, <2>2
  <2>3. CASE a # None
    <3>1. a \in Turns /\ answers[a] = {} /\ answers' = [answers EXCEPT ![a] = @ \cup {t}]
      BY <1>2, <1>3, <1>4, <2>3
    <3> QED
      BY <2>1, <3>1
  <2> QED
    BY <2>2, <2>3
<1>9. turn'[t].answered = a
  BY <1>1 DEF IInv, TypeOK, Knowledge
<1>10. pc'[t] = "recording" /\ \A u \in Turns : u # t => pc'[u] = pc[u]
  BY <1>2 DEF IInv, TypeOK
<1>11. \A u \in Turns : (turn[u].unsaved => turn'[u].unsaved)
  BY <1>1 DEF IInv, TypeOK, Knowledge
<1>12. \A u \in Turns :
         turn[u].resumes \in Turns \cup {None} /\ turn[u].answered \in Turns \cup {None}
  BY DEF IInv, TypeOK, Knowledge
<1>13. asks[t] = 0 /\ ~(asks[t] > 0) /\ ~(asks[t] > MaxChainDepth)
  <2>1. asks[t] \in Nat
    BY DEF IInv, TypeOK
  <2>2. ~(asks[t] > 0)
    BY <1>2 DEF IInv, Phases, Recorded
  <2> QED
    BY <2>1, <2>2, TurnsAssumption
<1>14. TypeOK'
  BY <1>2, <1>6, <1>8 DEF IInv, TypeOK, Places
<1>15. Phases'
  <2>1. up' # "ready" => \A u \in Turns : pc'[u] \in {"new", "done", "lost"}
    BY <1>2, <1>10 DEF IInv, Phases
  <2>2. \A u \in Turns : pc'[u] # "new" => turn'[u].request \in Turns
    BY <1>2, <1>7, <1>10 DEF IInv, Phases
  <2>3. \A u \in Turns : asks'[u] > 0 => pc'[u] \in Recorded /\ turn'[u].asks # "no"
    BY <1>2, <1>7, <1>13, <1>10 DEF IInv, Phases
  <2>4. ASSUME NEW u \in Turns, answers'[u] # {} PROVE asks'[u] > 0
    BY <1>2, <1>4, <1>8, <2>4 DEF IInv, Phases
  <2> QED
    BY <1>2, <2>1, <2>2, <2>3, <2>4 DEF IInv, Phases
<1>16. Sentinels'
  <2>1. /\ pc[t] \notin {"lost", "done"} /\ pc'[t] \notin {"new", "lost"}
        /\ pc[t] \in Running <=> pc'[t] \in Running
    BY <1>2, <1>7, <1>10 DEF Running
  <2> QED
    BY <1>2, <1>7, <1>10, <2>1, SentinelsRest
<1>17. Depths'
  BY <1>2, <1>3, <1>4, <1>7, <1>8, <1>10, <1>5 DEF IInv, Depths, DepthAfter, Phases
<1>18. Ghosts'
  <2>1. Pending' \subseteq Pending
    BY <1>2, <1>7, <1>8, <1>9 DEF Pending
  <2>2. ASSUME NEW u \in Turns, turn'[u].answered # None
        PROVE  answers'[turn'[u].answered] # {}
    <3>1. CASE u = t
      BY <1>8, <1>9, <2>2, <3>1
    <3>2. CASE u # t
      <4>1. turn[u].answered \in Turns /\ answers[turn[u].answered] # {}
        BY <1>7, <1>12, <2>2, <3>2 DEF IInv, Ghosts
      <4> QED
        BY <1>7, <1>8, <3>2, <4>1
    <3> QED
      BY <3>1, <3>2
  <2>3. ASSUME NEW u \in Turns, turn'[u].resumes # None
        PROVE  /\ pc'[turn'[u].resumes] \in {"done", "lost"}
               /\ turn'[u].scope = "explicit" \/ turn'[turn'[u].resumes].scope = "own"
    <3> DEFINE v == turn[u].resumes
    <3>1. /\ v \in Turns /\ pc[v] \in {"done", "lost"}
          /\ turn[u].scope = "explicit" \/ turn[v].scope = "own"
      BY <1>12, <1>7, <2>3 DEF IInv, Ghosts
    <3> QED
      BY <1>2, <1>7, <1>10, <2>3, <3>1
  <2>4. ASSUME NEW u \in Turns, turn'[u].resumes # None, pc'[u] \in {"recording", "ghost"},
               turn'[u].answered = None
        PROVE  turn'[u].resumes \notin Pending'
    <3>1. CASE u # t
      BY <1>7, <1>10, <2>1, <2>4, <3>1 DEF IInv, Ghosts
    <3>2. CASE u = t /\ turn[t].scope = "own"
      <4>1. turn[turn[t].resumes].scope = "own"
        BY <1>7, <2>4, <3>2 DEF IInv, Ghosts
      <4> QED
        BY <1>7, <2>1, <2>4, <3>2, <4>1 DEF Pending
    <3>3. CASE u = t /\ turn[t].scope # "own"
      BY <1>9, <1>5, <2>1, <2>4, <3>3
    <3> QED
      BY <3>1, <3>2, <3>3
  <2> QED
    BY <2>2, <2>3, <2>4 DEF Ghosts
<1>19. OneAnswer'
  BY <1>2, <1>3, <1>4, <1>7, <1>8, <1>10, <1>5 DEF IInv, OneAnswer
<1>20. CapIsEnforced'
  <2> SUFFICES ASSUME NEW q \in Turns, asks'[q] > MaxChainDepth
               PROVE  \/ turn'[q].asks = "runtime" \/ turn'[q].scope = "recalled"
                      \/ turn'[q].checked # turn'[q].answered
    BY DEF CapIsEnforced
  <2>1. q # t
    BY <1>2, <1>13
  <2> QED
    BY <1>2, <1>7, <2>1 DEF IInv, CapIsEnforced
<1>21. PendingHasItsGhost'
  <2>1. ASSUME NEW u \in Turns, Alone(u)' PROVE Alone(u)
    BY <1>2, <1>7, <1>10, <2>1 DEF Alone
  <2>2. Pending' \subseteq Pending
    BY <1>2, <1>7, <1>8, <1>9 DEF Pending
  <2>3. ASSUME NEW q \in Pending', pc'[q] \in {"ending", "done"}, ~turn'[q].unsaved, Alone(q)'
        PROVE  ghost'[turn'[q].request] = q
    <3>1. q \in Turns /\ q \in Pending /\ Alone(q)
      BY <2>1, <2>2, <2>3 DEF Pending
    <3>2. q # t /\ pc[q] = pc'[q] /\ ~turn[q].unsaved
      BY <1>10, <1>11, <2>3, <3>1
    <3> QED
      BY <1>2, <1>7, <2>3, <3>1, <3>2 DEF IInv, PendingHasItsGhost
  <2> QED
    BY <2>3 DEF PendingHasItsGhost
<1> QED
  BY <1>14, <1>15, <1>16, <1>17, <1>18, <1>19, <1>20, <1>21 DEF IInv

\* rememberTurn: the question is recorded, with a depth the check knew of.
LEMMA RecordAskStep ==
    ASSUME IInv, NEW t \in Turns, RecordAsk(t)
    PROVE  IInv'
<1>1. /\ pc[t] = "recording" /\ pc' = [pc EXCEPT ![t] = "ghost"]
      /\ turn[t].asks = "no" => asks' = asks
      /\ turn[t].asks # "no" => asks' = [asks EXCEPT ![t] = DepthAfter(turn[t].answered)]
      /\ UNCHANGED <<up, recovered, reported, turn, sentinel, ghost, answers, abandoned,
                     interrupted, orphaned, kept, crashes, faults, undos>>
  BY DEF RecordAsk, Goes, process, history, counters
<1>2. DepthAfter(turn[t].answered) \in Nat
  BY DEF DepthAfter, IInv, TypeOK, Knowledge
<1>3. /\ asks' \in [Turns -> Nat] /\ \A u \in Turns : u # t => asks'[u] = asks[u]
      /\ turn[t].asks = "no" => asks'[t] = asks[t]
      /\ turn[t].asks # "no" => asks'[t] = DepthAfter(turn[t].answered)
  <2>1. asks \in [Turns -> Nat]
    BY DEF IInv, TypeOK
  <2> QED
    BY <1>1, <1>2, <2>1
<1>4. asks[t] = 0 /\ ~(asks[t] > 0) /\ ~(asks[t] > MaxChainDepth)
  <2>1. asks[t] \in Nat
    BY DEF IInv, TypeOK
  <2>2. ~(asks[t] > 0)
    BY <1>1 DEF IInv, Phases, Recorded
  <2> QED
    BY <2>1, <2>2, TurnsAssumption
<1>5. TypeOK'
  BY <1>1, <1>3 DEF IInv, TypeOK, Places
<1>6. Phases'
  BY DEF IInv, Phases, RecordAsk, process, ledger, history, counters, Goes, TypeOK, Recorded
<1>7. Sentinels'
  <2>1. /\ UNCHANGED <<up, recovered, reported, interrupted, orphaned, kept, sentinel, turn>>
        /\ pc' = [pc EXCEPT ![t] = pc'[t]] /\ pc[t] \notin {"lost", "done"} /\ pc'[t] \notin {"new", "lost"}
        /\ pc[t] \in Running <=> pc'[t] \in Running
    BY DEF RecordAsk, process, ledger, history, Goes, Running, IInv, TypeOK
  <2>2. \A u \in Turns \ {t} : pc'[u] = pc[u]
    BY <2>1 DEF IInv, TypeOK
  <2> QED
    BY <2>1, <2>2, SentinelsRest
<1>8. Depths'
  <2> SUFFICES ASSUME NEW u \in Turns, turn[u].asks = "model"
               PROVE  /\ turn[u].checked = None \/ asks'[turn[u].checked] > 0
                      /\ DepthAfter(turn[u].checked)' <= MaxChainDepth
    BY <1>1 DEF Depths, DepthAfter
  <2>1. /\ turn[u].checked = None \/ asks[turn[u].checked] > 0
        /\ DepthAfter(turn[u].checked) <= MaxChainDepth
        /\ turn[u].checked \in Turns \cup {None}
    BY DEF IInv, Depths, TypeOK, Knowledge
  <2>2. turn[u].checked = None \/ asks'[turn[u].checked] = asks[turn[u].checked]
    BY <1>3, <1>4, <2>1
  <2> QED
    BY <1>1, <2>1, <2>2 DEF DepthAfter
<1>9. Ghosts'
  BY DEF IInv, Ghosts, RecordAsk, process, ledger, history, counters, Goes, Pending, TypeOK,
     Phases
<1>10. OneAnswer'
  BY DEF IInv, OneAnswer, RecordAsk, process, ledger, history, counters, Goes, TypeOK
<1>11. CapIsEnforced'
  <2> SUFFICES ASSUME NEW q \in Turns, asks'[q] > MaxChainDepth
               PROVE  \/ turn[q].asks = "runtime" \/ turn[q].scope = "recalled"
                      \/ turn[q].checked # turn[q].answered
    BY <1>1 DEF CapIsEnforced
  <2>1. CASE q # t
    BY <1>3, <2>1 DEF IInv, CapIsEnforced
  <2>2. CASE q = t
    <3>1. turn[t].asks # "no" /\ DepthAfter(turn[t].answered) > MaxChainDepth
      BY <1>3, <1>4, <2>2
    <3>2. CASE turn[t].asks = "model" /\ turn[t].checked = turn[t].answered
      <4>1. DepthAfter(turn[t].answered) <= MaxChainDepth
        BY <3>2 DEF IInv, Depths
      <4> QED
        BY <1>2, <3>1, <4>1, TurnsAssumption
    <3>3. turn[t].asks \in Kinds
      BY DEF IInv, TypeOK, Knowledge
    <3> QED
      BY <2>2, <3>1, <3>2, <3>3 DEF Kinds
  <2> QED
    BY <2>1, <2>2
<1>12. PendingHasItsGhost'
  BY DEF IInv, PendingHasItsGhost, RecordAsk, process, ledger, history, counters, Goes, Pending,
     Alone, TypeOK, Phases, Ghosts, Recorded
<1> QED
  BY <1>5, <1>6, <1>7, <1>8, <1>9, <1>10, <1>11, <1>12 DEF IInv

\* A turn whose record fails is excused from having a ghost.
LEMMA StoreFailsStep ==
    ASSUME IInv, NEW t \in Turns, StoreFails(t)
    PROVE  IInv'
<1>1. turn' = [turn EXCEPT ![t].unsaved = TRUE]
  BY DEF StoreFails
<1>2. /\ pc[t] \in {"remembering", "recording", "ghost", "writing ghost"}
      /\ pc' = [pc EXCEPT ![t] = "ending"] /\ faults' = faults + 1
      /\ UNCHANGED <<up, recovered, reported, sentinel, ghost, asks, answers, abandoned,
                     interrupted, orphaned, kept,
                     crashes, undos>>
  BY DEF StoreFails, Goes, process, ledger, history
<1>3. turn' \in [Turns -> Knowledge]
  <2> DEFINE k == [turn[t] EXCEPT !.unsaved = TRUE]
  <2>1. turn \in [Turns -> Knowledge] /\ turn[t] \in Knowledge
    BY DEF IInv, TypeOK
  <2>2. k \in Knowledge
    BY <2>1 DEF Knowledge, Kinds
  <2>3. turn' = [turn EXCEPT ![t] = k]
    BY <1>1
  <2> HIDE DEF k
  <2> QED
    BY <2>1, <2>2, <2>3
<1>4. \A u \in Turns :
         /\ turn'[u].scope = turn[u].scope /\ turn'[u].request = turn[u].request
         /\ turn'[u].resumes = turn[u].resumes /\ turn'[u].checked = turn[u].checked
         /\ turn'[u].asks = turn[u].asks /\ turn'[u].answered = turn[u].answered
  BY <1>1 DEF IInv, TypeOK, Knowledge
<1>5. pc'[t] = "ending" /\ \A u \in Turns : u # t => pc'[u] = pc[u]
  BY <1>2 DEF IInv, TypeOK
<1>6. \A u \in Turns : (turn[u].unsaved \/ u = t => turn'[u].unsaved)
  BY <1>1 DEF IInv, TypeOK, Knowledge
<1>7. \A u \in Turns :
         turn[u].resumes \in Turns \cup {None} /\ turn[u].answered \in Turns \cup {None}
  BY DEF IInv, TypeOK, Knowledge
<1>8. faults' \in Nat
  <2>1. faults' = faults + 1
    BY DEF StoreFails
  <2>2. faults \in Nat
    BY DEF IInv, TypeOK
  <2> QED
    BY <2>1, <2>2, TurnsAssumption
<1>9. TypeOK'
  BY <1>2, <1>3, <1>8 DEF IInv, TypeOK, Places
<1>10. Phases'
  BY <1>2, <1>4, <1>5 DEF IInv, Phases, Recorded
<1>11. Sentinels'
  <2>1. /\ pc[t] \notin {"lost", "done"} /\ pc'[t] \notin {"new", "lost"}
        /\ pc[t] \in Running <=> pc'[t] \in Running
    BY <1>2, <1>4, <1>5 DEF Running
  <2> QED
    BY <1>2, <1>4, <1>5, <2>1, SentinelsRest
<1>12. Depths'
  <2> SUFFICES ASSUME NEW u \in Turns, turn'[u].asks = "model"
               PROVE  /\ turn'[u].checked = None \/ asks'[turn'[u].checked] > 0
                      /\ DepthAfter(turn[u].checked)' <= MaxChainDepth
    BY DEF Depths
  <2> DEFINE a == turn[u].checked
  <2>1. /\ a = None \/ asks[a] > 0
        /\ (IF a = None THEN 1 ELSE asks[a] + 1) <= MaxChainDepth
    BY <1>4 DEF IInv, Depths, DepthAfter
  <2>2. turn'[u].checked = a /\ asks' = asks
    BY <1>2, <1>4
  <2> HIDE DEF a
  <2> QED
    BY <2>1, <2>2 DEF DepthAfter
<1>13. Ghosts'
  <2>1. Pending' \subseteq Pending
    BY <1>2, <1>4 DEF Pending
  <2>2. ASSUME NEW u \in Turns, turn'[u].answered # None
        PROVE  answers'[turn'[u].answered] # {}
    BY <1>2, <1>4, <2>2 DEF IInv, Ghosts
  <2>3. ASSUME NEW u \in Turns, turn'[u].resumes # None
        PROVE  /\ pc'[turn'[u].resumes] \in {"done", "lost"}
               /\ turn'[u].scope = "explicit" \/ turn'[turn'[u].resumes].scope = "own"
    <3> DEFINE v == turn[u].resumes
    <3>1. /\ v \in Turns /\ pc[v] \in {"done", "lost"}
          /\ turn[u].scope = "explicit" \/ turn[v].scope = "own"
      BY <1>7, <1>4, <2>3 DEF IInv, Ghosts
    <3> QED
      BY <1>2, <1>4, <1>5, <2>3, <3>1
  <2>4. ASSUME NEW u \in Turns, turn'[u].resumes # None, pc'[u] \in {"recording", "ghost"},
               turn'[u].answered = None
        PROVE  turn'[u].resumes \notin Pending'
    BY <1>2, <1>4, <1>5, <2>1, <2>4 DEF IInv, Ghosts
  <2> QED
    BY <2>2, <2>3, <2>4 DEF Ghosts
<1>14. OneAnswer'
  BY <1>2, <1>4, <1>5 DEF IInv, OneAnswer
<1>15. CapIsEnforced'
  BY <1>2, <1>4 DEF IInv, CapIsEnforced
<1>16. PendingHasItsGhost'
  <2>1. ASSUME NEW u \in Turns, Alone(u)' PROVE Alone(u)
    BY <1>2, <1>4, <1>5, <2>1 DEF Alone
  <2>2. Pending' \subseteq Pending
    BY <1>2, <1>4 DEF Pending
  <2>3. ASSUME NEW q \in Pending', pc'[q] \in {"ending", "done"}, ~turn'[q].unsaved, Alone(q)'
        PROVE  ghost'[turn'[q].request] = q
    <3>1. q \in Turns /\ q \in Pending /\ Alone(q)
      BY <2>1, <2>2, <2>3 DEF Pending
    <3>2. q # t /\ pc[q] = pc'[q] /\ ~turn[q].unsaved
      BY <1>5, <1>6, <2>3, <3>1
    <3> QED
      BY <1>2, <1>4, <2>3, <3>1, <3>2 DEF IInv, PendingHasItsGhost
  <2> QED
    BY <2>3 DEF PendingHasItsGhost
<1> QED
  BY <1>9, <1>10, <1>11, <1>12, <1>13, <1>14, <1>15, <1>16 DEF IInv

\* The ghost is created; its turn is not at its end.
LEMMA RecordGhostStep ==
    ASSUME IInv, NEW t \in Turns, RecordGhost(t)
    PROVE  IInv'
<1>1. TypeOK'
  BY DEF IInv, TypeOK, RecordGhost, process, ledger, history, counters, Goes, Places
<1>2. Phases'
  BY DEF IInv, Phases, RecordGhost, process, ledger, history, counters, Goes, TypeOK, Recorded
<1>3. Sentinels'
  <2>1. /\ UNCHANGED <<up, recovered, reported, interrupted, orphaned, kept, sentinel, turn>>
        /\ pc' = [pc EXCEPT ![t] = pc'[t]] /\ pc[t] \notin {"lost", "done"} /\ pc'[t] \notin {"new", "lost"}
        /\ pc[t] \in Running <=> pc'[t] \in Running
    BY DEF RecordGhost, process, ledger, history, Goes, Running, IInv, TypeOK
  <2>2. \A u \in Turns \ {t} : pc'[u] = pc[u]
    BY <2>1 DEF IInv, TypeOK
  <2> QED
    BY <2>1, <2>2, SentinelsRest
<1>4. Depths'
  BY DEF IInv, Depths, RecordGhost, process, ledger, history, counters, Goes, DepthAfter,
     TypeOK, Phases
<1>5. Ghosts'
  BY GhostsStay DEF RecordGhost, ledger
<1>6. OneAnswer'
  BY DEF IInv, OneAnswer, RecordGhost, process, ledger, history, counters, Goes, TypeOK
<1>7. CapIsEnforced'
  BY DEF IInv, CapIsEnforced, RecordGhost, process, ledger, history, counters, Goes, TypeOK,
     Phases, Depths, DepthAfter
<1>8. PendingHasItsGhost'
  BY DEF IInv, PendingHasItsGhost, RecordGhost, process, ledger, history, counters, Goes,
     Pending, Alone, TypeOK, Phases, Ghosts, Recorded
<1> QED
  BY <1>1, <1>2, <1>3, <1>4, <1>5, <1>6, <1>7, <1>8 DEF IInv

\* The ghost is filled; it can only replace that of a turn with the same request.
LEMMA GhostRecordedStep ==
    ASSUME IInv, NEW t \in Turns, GhostRecorded(t)
    PROVE  IInv'
<1>1. TypeOK'
  BY DEF IInv, TypeOK, GhostRecorded, process, ledger, history, counters, Goes, Places
<1>2. Phases'
  BY DEF IInv, Phases, GhostRecorded, process, ledger, history, counters, Goes, TypeOK, Recorded
<1>3. Sentinels'
  <2>1. /\ UNCHANGED <<up, recovered, reported, interrupted, orphaned, kept, sentinel, turn>>
        /\ pc' = [pc EXCEPT ![t] = pc'[t]] /\ pc[t] \notin {"lost", "done"} /\ pc'[t] \notin {"new", "lost"}
        /\ pc[t] \in Running <=> pc'[t] \in Running
    BY DEF GhostRecorded, process, ledger, history, Goes, Running, IInv, TypeOK
  <2>2. \A u \in Turns \ {t} : pc'[u] = pc[u]
    BY <2>1 DEF IInv, TypeOK
  <2> QED
    BY <2>1, <2>2, SentinelsRest
<1>4. Depths'
  BY DEF IInv, Depths, GhostRecorded, process, ledger, history, counters, Goes, DepthAfter,
     TypeOK, Phases
<1>5. Ghosts'
  BY GhostsStay DEF GhostRecorded, ledger
<1>6. OneAnswer'
  BY DEF IInv, OneAnswer, GhostRecorded, process, ledger, history, counters, Goes, TypeOK
<1>7. CapIsEnforced'
  BY DEF IInv, CapIsEnforced, GhostRecorded, process, ledger, history, counters, Goes, TypeOK,
     Phases, Depths, DepthAfter
<1>8. PendingHasItsGhost'
  BY DEF IInv, PendingHasItsGhost, GhostRecorded, process, ledger, history, counters, Goes,
     Pending, Alone, TypeOK, Phases, Ghosts, Recorded
<1> QED
  BY <1>1, <1>2, <1>3, <1>4, <1>5, <1>6, <1>7, <1>8 DEF IInv

\* completeAnsweredAskGhost: the ghost that goes is not one of a pending question.
LEMMA CompleteGhostStep ==
    ASSUME IInv, NEW t \in Turns, CompleteGhost(t)
    PROVE  IInv'
<1>1. TypeOK'
  BY DEF IInv, TypeOK, CompleteGhost, process, ledger, history, counters, Goes, Places
<1>2. Phases'
  BY DEF IInv, Phases, CompleteGhost, process, ledger, history, counters, Goes, TypeOK, Recorded
<1>3. Sentinels'
  <2>1. /\ UNCHANGED <<up, recovered, reported, interrupted, orphaned, kept, sentinel, turn>>
        /\ pc' = [pc EXCEPT ![t] = pc'[t]] /\ pc[t] \notin {"lost", "done"} /\ pc'[t] \notin {"new", "lost"}
        /\ pc[t] \in Running <=> pc'[t] \in Running
    BY DEF CompleteGhost, process, ledger, history, Goes, Running, IInv, TypeOK
  <2>2. \A u \in Turns \ {t} : pc'[u] = pc[u]
    BY <2>1 DEF IInv, TypeOK
  <2> QED
    BY <2>1, <2>2, SentinelsRest
<1>4. Depths'
  BY DEF IInv, Depths, CompleteGhost, process, ledger, history, counters, Goes, DepthAfter,
     TypeOK, Phases
<1>5. Ghosts'
  BY GhostsStay DEF CompleteGhost, ledger
<1>6. OneAnswer'
  BY DEF IInv, OneAnswer, CompleteGhost, process, ledger, history, counters, Goes, TypeOK
<1>7. CapIsEnforced'
  BY DEF IInv, CapIsEnforced, CompleteGhost, process, ledger, history, counters, Goes, TypeOK,
     Phases, Depths, DepthAfter
<1>8. PendingHasItsGhost'
  <2> DEFINE c == Completed(t)
  <2>1. /\ pc[t] = "ghost" /\ turn[t].asks = "no" /\ pc' = [pc EXCEPT ![t] = "ending"]
        /\ c = None => ghost' = ghost
        /\ c # None => ghost' = [ghost EXCEPT ![turn[c].request] = Absent]
        /\ UNCHANGED <<turn, asks, answers, abandoned>>
    BY DEF CompleteGhost, Goes, ledger
  <2>2. c # None => c \in Turns /\ c \notin Pending /\ pc[c] # "new"
    <3>1. CASE turn[t].answered # None
      <4>1. c = turn[t].answered /\ c \in Turns /\ answers[c] # {}
        BY <3>1 DEF Completed, IInv, TypeOK, Knowledge, Ghosts
      <4>2. pc[c] \in Recorded
        BY <4>1 DEF IInv, Phases
      <4> QED
        BY <4>1, <4>2 DEF Pending, Recorded
    <3>2. CASE turn[t].answered = None /\ turn[t].resumes # None
      <4>1. c = turn[t].resumes /\ c \in Turns /\ pc[c] \in {"done", "lost"}
        BY <3>2 DEF Completed, IInv, TypeOK, Knowledge, Ghosts
      <4>2. turn[t].resumes \notin Pending
        BY <2>1, <3>2 DEF IInv, Ghosts
      <4> QED
        BY <4>1, <4>2
    <3> QED
      BY <3>1, <3>2 DEF Completed
  <2>3. Pending' = Pending /\ t \notin Pending
    BY <2>1 DEF Pending, IInv, Phases
  <2>4. ASSUME NEW q \in Pending', pc'[q] \in {"ending", "done"}, ~turn'[q].unsaved, Alone(q)'
        PROVE  ghost'[turn'[q].request] = q
    <3>1. q \in Pending /\ q \in Turns /\ q # t
      BY <2>3, <2>4 DEF Pending
    <3>2. pc[q] \in {"ending", "done"} /\ Alone(q)
      BY <2>1, <2>4, <3>1 DEF Alone, IInv, TypeOK
    <3>3. ghost[turn[q].request] = q /\ turn[q].request \in Turns
      BY <2>1, <2>4, <3>1, <3>2 DEF IInv, PendingHasItsGhost, Phases
    <3>4. c # None => turn[c].request # turn[q].request
      BY <2>2, <3>1, <3>2 DEF Alone
    <3>5. ghost \in [Turns -> Turns \cup {Absent, Torn}]
      BY DEF IInv, TypeOK
    <3> QED
      BY <2>1, <3>3, <3>4, <3>5
  <2> QED
    BY <2>4 DEF PendingHasItsGhost
<1> QED
  BY <1>1, <1>2, <1>3, <1>4, <1>5, <1>6, <1>7, <1>8 DEF IInv

\* markEnd: the sentinel goes with its turn.
LEMMA MarkEndStep ==
    ASSUME IInv, NEW t \in Turns, MarkEnd(t)
    PROVE  IInv'
<1>1. TypeOK'
  BY DEF IInv, TypeOK, MarkEnd, process, ledger, history, counters, Goes, Places
<1>2. Phases'
  BY DEF IInv, Phases, MarkEnd, process, ledger, history, counters, Goes, TypeOK, Recorded
<1>3. Sentinels'
  <2> DEFINE request == turn[t].request
  <2>1. /\ pc[t] = "ending" /\ pc' = [pc EXCEPT ![t] = "done"]
        /\ sentinel' = [sentinel EXCEPT ![request] = Absent]
        /\ UNCHANGED <<up, recovered, reported, turn, interrupted, orphaned, kept>>
    BY DEF MarkEnd, Goes, process, history
  <2>2. /\ request \in Turns /\ up = "ready" /\ t \notin interrupted \cup kept
        /\ pc'[t] = "done" /\ \A u \in Turns : u # t => pc'[u] = pc[u]
        /\ sentinel'[request] = Absent /\ \A r \in Turns \ {request} : sentinel'[r] = sentinel[r]
        /\ interrupted \subseteq Turns /\ kept \subseteq Turns
    BY <2>1 DEF IInv, TypeOK, Phases, Sentinels
  <2>3. ASSUME NEW u \in Turns, Alone(u)'
        PROVE  Alone(u) /\ (u # t => turn[u].request # request)
    BY <2>1, <2>2, <2>3 DEF Alone
  <2>4. ASSUME NEW r \in Turns, sentinel'[r] \in Turns
        PROVE  /\ turn'[sentinel'[r]].request = r
               /\ pc'[sentinel'[r]] \in Running \/ sentinel'[r] \in interrupted' \cup kept'
    <3>1. r # request /\ sentinel'[r] = sentinel[r] /\ sentinel[r] \in Turns
      BY <2>2, <2>4, NoTurn
    <3>2. /\ turn[sentinel[r]].request = r
          /\ pc[sentinel[r]] \in Running \/ sentinel[r] \in interrupted \cup kept
      BY <3>1 DEF IInv, Sentinels
    <3>3. sentinel[r] # t
      BY <3>1, <3>2
    <3> QED
      BY <2>1, <2>2, <3>1, <3>2, <3>3
  <2>5. ASSUME NEW u \in Turns, pc'[u] \in Running, Alone(u)'
        PROVE  sentinel'[turn'[u].request] = u
    <3>1. u # t
      BY <2>2, <2>5 DEF Running
    <3>2. CASE u # t
      <4>1. pc[u] \in Running /\ Alone(u) /\ turn[u].request \in Turns \ {request}
        BY <2>2, <2>3, <2>5, <3>2 DEF IInv, Phases, Running
      <4>2. sentinel[turn[u].request] = u
        BY <4>1 DEF IInv, Sentinels
      <4> QED
        BY <2>1, <2>2, <4>1, <4>2
    <3> QED
      BY <3>1, <3>2
  <2>6. ASSUME NEW u \in interrupted', Alone(u)'
        PROVE  u \in recovered' \cup reported' \cup orphaned'
    BY <2>1, <2>2, <2>3, <2>6 DEF IInv, Sentinels
  <2>7. /\ recovered' \cup reported' \subseteq interrupted' \cup kept'
        /\ (\A u \in interrupted' : pc'[u] = "lost") /\ \A u \in kept' : pc'[u] = "done"
    BY <2>1, <2>2 DEF IInv, Sentinels
  <2> HIDE DEF request
  <2> QED
    BY <2>4, <2>5, <2>6, <2>7 DEF Sentinels
<1>4. Depths'
  BY DEF IInv, Depths, MarkEnd, process, ledger, history, counters, Goes, DepthAfter, TypeOK,
     Phases
<1>5. Ghosts'
  BY GhostsStay DEF MarkEnd, ledger
<1>6. OneAnswer'
  BY DEF IInv, OneAnswer, MarkEnd, process, ledger, history, counters, Goes, TypeOK
<1>7. CapIsEnforced'
  BY DEF IInv, CapIsEnforced, MarkEnd, process, ledger, history, counters, Goes, TypeOK, Phases,
     Depths, DepthAfter
<1>8. PendingHasItsGhost'
  BY DEF IInv, PendingHasItsGhost, MarkEnd, process, ledger, history, counters, Goes, Pending,
     Alone, TypeOK, Phases, Ghosts, Recorded
<1> QED
  BY <1>1, <1>2, <1>3, <1>4, <1>5, <1>6, <1>7, <1>8 DEF IInv

\* A turn whose sentinel cannot be unlinked is over, and its file is still there.
LEMMA MarkEndFailsStep ==
    ASSUME IInv, NEW t \in Turns, MarkEndFails(t)
    PROVE  IInv'
<1>1. TypeOK'
  <2>1. faults' \in Nat
    <3>1. faults' = faults + 1
      BY DEF MarkEndFails
    <3>2. faults \in Nat
      BY DEF IInv, TypeOK
    <3> QED
      BY <3>1, <3>2
  <2> QED
    BY <2>1 DEF IInv, TypeOK, MarkEndFails, process, ledger, history, counters, Goes, Places
<1>2. Phases'
  BY DEF IInv, Phases, MarkEndFails, process, ledger, history, counters, Goes, TypeOK, Recorded
<1>3. Sentinels'
  <2> DEFINE request == turn[t].request
  <2>1. /\ pc[t] = "ending" /\ pc' = [pc EXCEPT ![t] = "done"]
        /\ sentinel' = sentinel
        /\ kept' = kept \cup {t}
        /\ UNCHANGED <<up, recovered, reported, turn, interrupted, orphaned>>
    BY DEF MarkEndFails, Goes, process
  <2>2. /\ request \in Turns /\ up = "ready" /\ t \notin interrupted \cup kept
        /\ pc'[t] = "done" /\ \A u \in Turns : u # t => pc'[u] = pc[u]
        /\ sentinel'[request] \in {t, sentinel[request]} /\ \A r \in Turns \ {request} : sentinel'[r] = sentinel[r]
        /\ interrupted \subseteq Turns /\ kept \subseteq Turns
    BY <2>1 DEF IInv, TypeOK, Phases, Sentinels
  <2>3. ASSUME NEW u \in Turns, Alone(u)'
        PROVE  Alone(u) /\ (u # t => turn[u].request # request)
    BY <2>1, <2>2, <2>3 DEF Alone
  <2>4. ASSUME NEW r \in Turns, sentinel'[r] \in Turns
        PROVE  /\ turn'[sentinel'[r]].request = r
               /\ pc'[sentinel'[r]] \in Running \/ sentinel'[r] \in interrupted' \cup kept'
    <3>1. /\ turn[sentinel[r]].request = r
          /\ pc[sentinel[r]] \in Running \/ sentinel[r] \in interrupted \cup kept
      BY <2>1, <2>4 DEF IInv, Sentinels
    <3> QED
      BY <2>1, <2>2, <2>4, <3>1
  <2>5. ASSUME NEW u \in Turns, pc'[u] \in Running, Alone(u)'
        PROVE  sentinel'[turn'[u].request] = u
    <3>1. u # t
      BY <2>2, <2>5 DEF Running
    <3>2. pc[u] \in Running /\ Alone(u) /\ turn[u].request \in Turns \ {request}
      BY <2>2, <2>3, <2>5, <3>1 DEF IInv, Phases, Running
    <3>3. sentinel[turn[u].request] = u
      BY <3>2 DEF IInv, Sentinels
    <3> QED
      BY <2>1, <2>2, <3>2, <3>3
  <2>6. ASSUME NEW u \in interrupted', Alone(u)'
        PROVE  u \in recovered' \cup reported' \cup orphaned'
    BY <2>1, <2>2, <2>3, <2>6 DEF IInv, Sentinels
  <2>7. /\ recovered' \cup reported' \subseteq interrupted' \cup kept'
        /\ (\A u \in interrupted' : pc'[u] = "lost") /\ \A u \in kept' : pc'[u] = "done"
    BY <2>1, <2>2 DEF IInv, Sentinels
  <2> HIDE DEF request
  <2> QED
    BY <2>4, <2>5, <2>6, <2>7 DEF Sentinels
<1>4. Depths'
  BY DEF IInv, Depths, MarkEndFails, process, ledger, history, counters, Goes, DepthAfter, TypeOK,
     Phases
<1>5. Ghosts'
  BY GhostsStay DEF MarkEndFails, ledger
<1>6. OneAnswer'
  BY DEF IInv, OneAnswer, MarkEndFails, process, ledger, history, counters, Goes, TypeOK
<1>7. CapIsEnforced'
  BY DEF IInv, CapIsEnforced, MarkEndFails, process, ledger, history, counters, Goes, TypeOK,
     Phases, Depths, DepthAfter
<1>8. PendingHasItsGhost'
  BY DEF IInv, PendingHasItsGhost, MarkEndFails, process, ledger, history, counters, Goes, Pending,
     Alone, TypeOK, Phases, Ghosts, Recorded
<1> QED
  BY <1>1, <1>2, <1>3, <1>4, <1>5, <1>6, <1>7, <1>8 DEF IInv

\* recordUndo: there are fewer pending questions, and no file changes.
LEMMA RecordUndoStep ==
    ASSUME IInv, RecordUndo
    PROVE  IInv'
<1>1. TypeOK'
  <2>1. undos' \in Nat
    <3>1. undos' = undos + 1
      BY DEF RecordUndo
    <3>2. undos \in Nat
      BY DEF IInv, TypeOK
    <3> QED
      BY <3>1, <3>2
  <2>2. abandoned' \subseteq Turns
    <3>1. PICK anchor \in Turns :
             abandoned' = abandoned \cup {a \in anchor..NumTurns :
                                            asks[a] > 0 /\ turn[a].scope # "own"}
      BY DEF RecordUndo
    <3>2. anchor..NumTurns \subseteq Turns
      BY TurnsAssumption DEF Turns
    <3>3. abandoned \subseteq Turns
      BY DEF IInv, TypeOK
    <3> QED
      BY <3>1, <3>2, <3>3
  <2>3. UNCHANGED <<process, pc, turn, sentinel, ghost, asks, answers, history, crashes, faults>>
    BY DEF RecordUndo
  <2> QED
    BY <2>1, <2>2, <2>3 DEF IInv, TypeOK, process, history
<1>2. Phases'
  BY DEF IInv, Phases, RecordUndo, process, ledger, history, counters, TypeOK, Recorded
<1>3. Sentinels'
  BY DEF IInv, Sentinels, RecordUndo, process, ledger, history, counters, Alone, Running,
     TypeOK, Phases
<1>4. Depths'
  BY DEF IInv, Depths, RecordUndo, process, ledger, history, counters, DepthAfter, TypeOK, Phases
<1>5. Ghosts'
  BY DEF IInv, Ghosts, RecordUndo, process, ledger, history, counters, Pending, TypeOK, Phases
<1>6. OneAnswer'
  BY DEF IInv, OneAnswer, RecordUndo, process, ledger, history, counters, TypeOK
<1>7. CapIsEnforced'
  BY DEF IInv, CapIsEnforced, RecordUndo, process, ledger, history, counters, TypeOK, Phases,
     Depths, DepthAfter
<1>8. PendingHasItsGhost'
  BY DEF IInv, PendingHasItsGhost, RecordUndo, process, ledger, history, counters, Pending,
     Alone, TypeOK, Phases, Ghosts, Recorded
<1> QED
  BY <1>1, <1>2, <1>3, <1>4, <1>5, <1>6, <1>7, <1>8 DEF IInv

\* A crash: the sentinel of every turn that was running is there.
LEMMA CrashStep ==
    ASSUME IInv, Crash
    PROVE  IInv'
<1>1. TypeOK'
  <2>1. crashes' \in Nat
    <3>1. crashes' = crashes + 1
      BY DEF Crash
    <3>2. crashes \in Nat
      BY DEF IInv, TypeOK
    <3> QED
      BY <3>1, <3>2
  <2> QED
    BY <2>1 DEF IInv, TypeOK, Crash, process, ledger, history, counters, Places
<1>2. Phases'
  BY DEF IInv, Phases, Crash, process, ledger, history, counters, TypeOK, Recorded
<1>3. Sentinels'
  BY DEF IInv, Sentinels, Crash, process, ledger, history, counters, Alone, Running, TypeOK,
     Phases
<1>4. Depths'
  BY DEF IInv, Depths, Crash, process, ledger, history, counters, DepthAfter, TypeOK, Phases
<1>5. Ghosts'
  <2>1. /\ UNCHANGED <<turn, asks, answers, abandoned>>
        /\ \A u \in Turns : /\ pc[u] \in {"done", "lost"} => pc'[u] \in {"done", "lost"}
                            /\ pc'[u] \in {"new", "done", "lost"}
    BY DEF Crash, ledger
  <2>2. ASSUME NEW u \in Turns, turn[u].resumes # None
        PROVE  /\ pc'[turn[u].resumes] \in {"done", "lost"}
               /\ turn[u].scope = "explicit" \/ turn[turn[u].resumes].scope = "own"
    <3>1. turn[u].resumes \in Turns
      BY <2>2 DEF IInv, TypeOK, Knowledge
    <3> QED
      BY <2>1, <2>2, <3>1 DEF IInv, Ghosts
  <2>3. \A u \in Turns : turn[u].answered # None => answers[turn[u].answered] # {}
    BY DEF IInv, Ghosts
  <2> QED
    BY <2>1, <2>2, <2>3 DEF Ghosts
<1>6. OneAnswer'
  BY DEF IInv, OneAnswer, Crash, process, ledger, history, counters, TypeOK
<1>7. CapIsEnforced'
  BY DEF IInv, CapIsEnforced, Crash, process, ledger, history, counters, TypeOK, Phases, Depths,
     DepthAfter
<1>8. PendingHasItsGhost'
  BY DEF IInv, PendingHasItsGhost, Crash, process, ledger, history, counters, Pending, Alone,
     TypeOK, Phases, Ghosts, Recorded
<1> QED
  BY <1>1, <1>2, <1>3, <1>4, <1>5, <1>6, <1>7, <1>8 DEF IInv

\* recoverOrphans: the turn of a sentinel is collected before the sentinel is gone.
LEMMA RecoverOrphanStep ==
    ASSUME IInv, RecoverOrphan
    PROVE  IInv'
<1>1. TypeOK'
  BY DEF IInv, TypeOK, RecoverOrphan, process, ledger, history, counters
<1>2. Phases'
  BY DEF IInv, Phases, RecoverOrphan, process, ledger, history, counters, TypeOK, Recorded
<1>3. Sentinels'
  <2>1. PICK r \in Turns :
           /\ sentinel[r] \in Turns
           /\ recovered' = recovered \cup {sentinel[r]}
           /\ sentinel' = [sentinel EXCEPT ![r] = Absent]
    BY DEF RecoverOrphan
  <2> DEFINE v == sentinel[r]
  <2>2. /\ up = "warming" /\ interrupted \subseteq Turns
        /\ UNCHANGED <<up, reported, pc, turn, interrupted, orphaned, kept>>
    BY DEF RecoverOrphan, history, IInv, TypeOK
  <2>3. /\ sentinel'[r] = Absent /\ Absent \notin Turns
        /\ \A n \in Turns \ {r} : sentinel'[n] = sentinel[n]
    BY <2>1, NoTurn DEF IInv, TypeOK
  <2>4. v \in interrupted \cup kept /\ turn[v].request = r
    BY <2>1, <2>2 DEF IInv, Sentinels, Phases, Running
  <2>5. ASSUME NEW u \in Turns, pc'[u] \in Running PROVE FALSE
    BY <2>2, <2>5 DEF IInv, Phases, Running
  <2>6. ASSUME NEW u \in interrupted', Alone(u)'
        PROVE  \/ u \in recovered' \cup reported' \cup orphaned'
               \/ up' # "ready" /\ sentinel'[turn'[u].request] = u
    <3>1. u \in interrupted /\ u \in Turns /\ Alone(u) /\ turn[u].request \in Turns
      BY <2>2, <2>6 DEF Alone, IInv, Sentinels, Phases
    <3>2. u \in recovered \cup reported \cup orphaned \/ sentinel[turn[u].request] = u
      BY <3>1 DEF IInv, Sentinels
    <3>3. CASE turn[u].request = r
      BY <2>1, <2>2, <3>2, <3>3
    <3>4. CASE turn[u].request # r
      BY <2>1, <2>2, <2>3, <3>1, <3>2, <3>4
    <3> QED
      BY <3>3, <3>4
  <2>7. ASSUME NEW n \in Turns, sentinel'[n] \in Turns
        PROVE  /\ turn'[sentinel'[n]].request = n
               /\ pc'[sentinel'[n]] \in Running \/ sentinel'[n] \in interrupted' \cup kept'
    <3>1. n # r /\ sentinel'[n] = sentinel[n]
      BY <2>3, <2>7
    <3> QED
      BY <2>2, <2>7, <3>1 DEF IInv, Sentinels
  <2>8. /\ recovered' \cup reported' \subseteq interrupted' \cup kept'
        /\ (\A u \in interrupted' : pc'[u] = "lost") /\ \A u \in kept' : pc'[u] = "done"
    BY <2>1, <2>2, <2>4 DEF IInv, Sentinels
  <2> QED
    BY <2>5, <2>6, <2>7, <2>8 DEF Sentinels
<1>4. Depths'
  BY DEF IInv, Depths, RecoverOrphan, process, ledger, history, counters, DepthAfter, TypeOK,
     Phases
<1>5. Ghosts'
  BY DEF IInv, Ghosts, RecoverOrphan, process, ledger, history, counters, Pending, TypeOK, Phases
<1>6. OneAnswer'
  BY DEF IInv, OneAnswer, RecoverOrphan, process, ledger, history, counters, TypeOK
<1>7. CapIsEnforced'
  BY DEF IInv, CapIsEnforced, RecoverOrphan, process, ledger, history, counters, TypeOK, Phases,
     Depths, DepthAfter
<1>8. PendingHasItsGhost'
  BY DEF IInv, PendingHasItsGhost, RecoverOrphan, process, ledger, history, counters, Pending,
     Alone, TypeOK, Phases, Ghosts, Recorded
<1> QED
  BY <1>1, <1>2, <1>3, <1>4, <1>5, <1>6, <1>7, <1>8 DEF IInv

\* A warm-up that fails: what it had collected is orphaned.
LEMMA RecoveryFailsStep ==
    ASSUME IInv, RecoveryFails
    PROVE  IInv'
<1>1. TypeOK'
  BY DEF IInv, TypeOK, RecoveryFails, process, ledger, history, counters
<1>2. Phases'
  BY DEF IInv, Phases, RecoveryFails, process, ledger, history, counters, TypeOK, Recorded
<1>3. Sentinels'
  BY DEF IInv, Sentinels, RecoveryFails, process, ledger, history, counters, Alone, Running,
     TypeOK, Phases
<1>4. Depths'
  BY DEF IInv, Depths, RecoveryFails, process, ledger, history, counters, DepthAfter, TypeOK,
     Phases
<1>5. Ghosts'
  BY DEF IInv, Ghosts, RecoveryFails, process, ledger, history, counters, Pending, TypeOK, Phases
<1>6. OneAnswer'
  BY DEF IInv, OneAnswer, RecoveryFails, process, ledger, history, counters, TypeOK
<1>7. CapIsEnforced'
  BY DEF IInv, CapIsEnforced, RecoveryFails, process, ledger, history, counters, TypeOK, Phases,
     Depths, DepthAfter
<1>8. PendingHasItsGhost'
  BY DEF IInv, PendingHasItsGhost, RecoveryFails, process, ledger, history, counters, Pending,
     Alone, TypeOK, Phases, Ghosts, Recorded
<1> QED
  BY <1>1, <1>2, <1>3, <1>4, <1>5, <1>6, <1>7, <1>8 DEF IInv

\* The next attempt starts from the files that are left.
LEMMA RetryWarmupStep ==
    ASSUME IInv, RetryWarmup
    PROVE  IInv'
<1>1. TypeOK'
  BY DEF IInv, TypeOK, RetryWarmup, process, ledger, history, counters
<1>2. Phases'
  BY DEF IInv, Phases, RetryWarmup, process, ledger, history, counters, TypeOK, Recorded
<1>3. Sentinels'
  BY DEF IInv, Sentinels, RetryWarmup, process, ledger, history, counters, Alone, Running,
     TypeOK, Phases
<1>4. Depths'
  BY DEF IInv, Depths, RetryWarmup, process, ledger, history, counters, DepthAfter, TypeOK, Phases
<1>5. Ghosts'
  BY DEF IInv, Ghosts, RetryWarmup, process, ledger, history, counters, Pending, TypeOK, Phases
<1>6. OneAnswer'
  BY DEF IInv, OneAnswer, RetryWarmup, process, ledger, history, counters, TypeOK
<1>7. CapIsEnforced'
  BY DEF IInv, CapIsEnforced, RetryWarmup, process, ledger, history, counters, TypeOK, Phases,
     Depths, DepthAfter
<1>8. PendingHasItsGhost'
  BY DEF IInv, PendingHasItsGhost, RetryWarmup, process, ledger, history, counters, Pending,
     Alone, TypeOK, Phases, Ghosts, Recorded
<1> QED
  BY <1>1, <1>2, <1>3, <1>4, <1>5, <1>6, <1>7, <1>8 DEF IInv

\* With no sentinel left, every turn that was cut off is collected, reported or orphaned.
LEMMA RecoveredStep ==
    ASSUME IInv, Recovered
    PROVE  IInv'
<1>1. TypeOK'
  BY DEF IInv, TypeOK, Recovered, process, ledger, history, counters
<1>2. Phases'
  BY DEF IInv, Phases, Recovered, process, ledger, history, counters, TypeOK, Recorded
<1>3. Sentinels'
  <2>1. /\ up = "warming" /\ reported' = reported \cup recovered /\ recovered' = {}
        /\ UNCHANGED <<pc, turn, sentinel, interrupted, orphaned, kept>>
    BY DEF Recovered, history
  <2>2. (\A r \in Turns : sentinel[r] = Absent) /\ Absent \notin Turns /\ interrupted \subseteq Turns
    BY NoTurn DEF Recovered, IInv, TypeOK
  <2>3. ASSUME NEW u \in Turns, pc'[u] \in Running PROVE FALSE
    BY <2>1, <2>3 DEF IInv, Phases, Running
  <2>4. ASSUME NEW u \in interrupted', Alone(u)'
        PROVE  u \in recovered' \cup reported' \cup orphaned'
    <3>1. u \in interrupted /\ u \in Turns /\ Alone(u) /\ turn[u].request \in Turns
      BY <2>1, <2>2, <2>4 DEF Alone, IInv, Sentinels, Phases
    <3>2. u \in recovered \cup reported \cup orphaned \/ sentinel[turn[u].request] = u
      BY <3>1 DEF IInv, Sentinels
    <3> QED
      BY <2>1, <2>2, <3>1, <3>2
  <2>5. \A r \in Turns : sentinel'[r] \notin Turns
    BY <2>1, <2>2
  <2>6. /\ recovered' \cup reported' \subseteq interrupted' \cup kept'
        /\ (\A u \in interrupted' : pc'[u] = "lost") /\ \A u \in kept' : pc'[u] = "done"
    BY <2>1 DEF IInv, Sentinels
  <2> QED
    BY <2>3, <2>4, <2>5, <2>6 DEF Sentinels
<1>4. Depths'
  BY DEF IInv, Depths, Recovered, process, ledger, history, counters, DepthAfter, TypeOK, Phases
<1>5. Ghosts'
  BY DEF IInv, Ghosts, Recovered, process, ledger, history, counters, Pending, TypeOK, Phases
<1>6. OneAnswer'
  BY DEF IInv, OneAnswer, Recovered, process, ledger, history, counters, TypeOK
<1>7. CapIsEnforced'
  BY DEF IInv, CapIsEnforced, Recovered, process, ledger, history, counters, TypeOK, Phases,
     Depths, DepthAfter
<1>8. PendingHasItsGhost'
  BY DEF IInv, PendingHasItsGhost, Recovered, process, ledger, history, counters, Pending,
     Alone, TypeOK, Phases, Ghosts, Recorded
<1> QED
  BY <1>1, <1>2, <1>3, <1>4, <1>5, <1>6, <1>7, <1>8 DEF IInv

-----------------------------------------------------------------------------
\* At the start there is no turn and no file.
LEMMA InitEstablishes == Init => IInv
<1> SUFFICES ASSUME Init PROVE IInv
  OBVIOUS
<1>1. TypeOK
  <2>1. 0 \in Nat /\ {} \subseteq Turns
    OBVIOUS
  <2>2. Blank \in Knowledge
    BY DEF Blank, Knowledge, Kinds
  <2> QED
    BY <2>1, <2>2 DEF Init, TypeOK, Places
<1>2. (\A t \in Turns : pc[t] = "new") /\ (\A t \in Turns : turn[t] = Blank)
  BY DEF Init
<1>3. (\A t \in Turns : asks[t] = 0 /\ ~(asks[t] > 0)) /\ Pending = {}
  BY DEF Init, Pending
<1>4. (\A t \in Turns : answers[t] = {}) /\ (\A r \in Turns : sentinel[r] \notin Turns)
  BY NoTurn DEF Init
<1>5. \A t \in Turns : /\ turn[t].asks = "no" /\ turn[t].answered = None
                       /\ turn[t].resumes = None
  BY <1>2 DEF Blank
<1>6. Phases
  BY <1>2, <1>3, <1>4 DEF Init, Phases
<1>7. Sentinels
  BY <1>2, <1>4 DEF Init, Sentinels, Running
<1>8. Depths /\ Ghosts
  BY <1>5 DEF Depths, Ghosts
<1>9. OneAnswer
  BY <1>4 DEF OneAnswer
<1>10. CapIsEnforced
  <2> SUFFICES ASSUME NEW a \in Turns, asks[a] > MaxChainDepth PROVE FALSE
    BY DEF CapIsEnforced
  <2> QED
    BY <1>3, TurnsAssumption
<1>11. PendingHasItsGhost
  BY <1>3 DEF PendingHasItsGhost
<1> QED
  BY <1>1, <1>6, <1>7, <1>8, <1>9, <1>10, <1>11 DEF IInv

\* No step of any turn, of the warm-up or of the process breaks the inductive invariant.
LEMMA NextPreserves == IInv /\ [Next]_vars => IInv'
<1> SUFFICES ASSUME IInv, [Next]_vars PROVE IInv'
  OBVIOUS
<1>1. ASSUME NEW t \in Turns, Advance(t) PROVE IInv'
  BY <1>1, RefuseStep, MarkStartStep, MarkedStep, GenerateStep, RememberStep, RecordAskStep,
     RecordGhostStep, GhostRecordedStep, CompleteGhostStep, MarkEndStep DEF Advance
<1>2. ASSUME NEW t \in Turns,
             Receive(t) \/ Stopped(t) \/ MarkFails(t) \/ StoreFails(t) \/ MarkEndFails(t)
      PROVE  IInv'
  BY <1>2, ReceiveStep, StoppedStep, MarkFailsStep, StoreFailsStep, MarkEndFailsStep
<1>3. CASE Warmup
  BY <1>3, RecoverOrphanStep, RetryWarmupStep, RecoveredStep DEF Warmup
<1>4. CASE RecoveryFails \/ RecordUndo \/ Crash
  BY <1>4, RecoveryFailsStep, RecordUndoStep, CrashStep
<1>5. CASE UNCHANGED vars
  <2>1. UNCHANGED <<up, recovered, reported, pc, turn, sentinel, ghost>>
    BY <1>5 DEF vars, process
  <2>2. UNCHANGED <<asks, answers, abandoned, interrupted, orphaned, kept>>
    BY <1>5 DEF vars, ledger, history
  <2>3. UNCHANGED <<crashes, faults, undos>>
    BY <1>5 DEF vars, counters
  <2>4. TypeOK'
    BY <2>1, <2>2, <2>3 DEF IInv, TypeOK
  <2>5. Phases' /\ Depths' /\ OneAnswer' /\ CapIsEnforced'
    BY <2>1, <2>2 DEF IInv, Phases, Depths, DepthAfter, OneAnswer, CapIsEnforced
  <2>6. Sentinels'
    BY <2>1, <2>2 DEF IInv, Sentinels, Alone
  <2>7. Ghosts' /\ PendingHasItsGhost'
    BY <2>1, <2>2 DEF IInv, Ghosts, PendingHasItsGhost, Pending, Alone
  <2> QED
    BY <2>4, <2>5, <2>6, <2>7 DEF IInv
<1> QED
  BY <1>1, <1>2, <1>3, <1>4, <1>5 DEF Next

\* The inductive invariant holds of every behaviour.
THEOREM Invariant == Spec => []IInv
BY InitEstablishes, NextPreserves, PTL DEF Spec

\* Every store and every turn keeps its type.
THEOREM TypeCorrect == Spec => []TypeOK
<1>1. IInv => TypeOK
  BY DEF IInv
<1> QED
  BY <1>1, Invariant, PTL

\* After a warm-up the turns that a crash cut off have a process-restart continuation, but for
\* shared request ids and sentinels an earlier warm-up lost, and no other turn has one, but
\* for those whose sentinel could not be written or unlinked (InFlightTracker,
\* recoverProcessRestartContinuations).
THEOREM RestartReports == Spec => []InterruptedIsReported
<1>1. IInv => InterruptedIsReported
  <2> SUFFICES ASSUME IInv PROVE InterruptedIsReported
    OBVIOUS
  <2>1. up = "ready" => recovered = {}
    BY DEF IInv, Phases
  <2> QED
    BY <2>1 DEF IInv, Sentinels, InterruptedIsReported
<1> QED
  BY <1>1, Invariant, PTL

\* Only a question of the runtime, or one that was checked against another chain than the
\* one it joined, is deeper than maxChainDepth (generateTurnReply, rememberTurn).
THEOREM CapEnforced == Spec => []CapIsEnforced
<1>1. IInv => CapIsEnforced
  BY DEF IInv
<1> QED
  BY <1>1, Invariant, PTL

\* A pending question whose turn is over has its ghost, but for failed writes and shared
\* request ids (persistTurn, completeAnsweredAskGhost).
THEOREM PendingKeepsItsGhost == Spec => []PendingHasItsGhost
<1>1. IInv => PendingHasItsGhost
  BY DEF IInv
<1> QED
  BY <1>1, Invariant, PTL

\* However turns, undos and crashes interleave, an answer joins a question that is pending
\* at that moment (rememberTurn).
THEOREM AnswersJoinPending == Spec => AnswersArePending
<1> DEFINE Joins == \A a \in Turns : answers'[a] # answers[a] =>
                       asks[a] > 0 /\ answers[a] = {} /\ a \notin abandoned
<1>1. TypeOK /\ [Next]_vars => [Joins]_vars
  <2> SUFFICES ASSUME TypeOK, Next, NEW b \in Turns, answers'[b] # answers[b]
               PROVE  asks[b] > 0 /\ answers[b] = {} /\ b \notin abandoned
    OBVIOUS
  <2>1. CASE \E t \in Turns : Remember(t)
    <3>1. PICK t \in Turns : Remember(t)
      BY <2>1
    <3>2. /\ PendingEnriched(t) = None => answers' = answers
          /\ PendingEnriched(t) # None =>
                answers' = [answers EXCEPT ![PendingEnriched(t)] = @ \cup {t}]
      BY <3>1 DEF Remember
    <3>3. answers \in [Turns -> SUBSET Turns]
      BY DEF TypeOK
    <3>4. b = PendingEnriched(t) /\ b # None
      BY <3>2, <3>3
    <3>5. b \in Pending
      BY <3>4, LatestIsPending DEF PendingEnriched
    <3> QED
      BY <3>5 DEF Pending
  <2>2. CASE ~ \E t \in Turns : Remember(t)
    <3>1. ASSUME NEW t \in Turns,
                 \/ Receive(t) \/ Refuse(t) \/ MarkStart(t) \/ Marked(t) \/ MarkFails(t)
                 \/ Stopped(t) \/ Generate(t) \/ RecordAsk(t) \/ StoreFails(t)
                 \/ RecordGhost(t) \/ GhostRecorded(t) \/ CompleteGhost(t) \/ MarkEnd(t)
                 \/ MarkEndFails(t)
          PROVE  answers' = answers
      BY <3>1 DEF Receive, Refuse, MarkStart, Marked, MarkFails, Stopped, Generate, RecordAsk,
         StoreFails, RecordGhost, GhostRecorded, CompleteGhost, MarkEnd, MarkEndFails, ledger
    <3>2. Warmup \/ RecoveryFails \/ RecordUndo \/ Crash => answers' = answers
      BY DEF Warmup, RecoverOrphan, RetryWarmup, Recovered, RecoveryFails, RecordUndo, Crash,
         ledger
    <3> QED
      BY <2>2, <3>1, <3>2 DEF Next, Advance
  <2> QED
    BY <2>1, <2>2
<1>2. Spec => [][Joins]_vars
  BY <1>1, TypeCorrect, PTL DEF Spec
<1> QED
  BY <1>2 DEF AnswersArePending

\* So no question has two answers.
THEOREM AnsweredAtMostOnce == Spec => []AnsweredOnce
<1>1. IInv => AnsweredOnce
  <2> SUFFICES ASSUME IInv, NEW a \in Turns PROVE Cardinality(answers[a]) <= 1
    BY DEF AnsweredOnce
  <2>1. answers[a] = {} \/ \E t \in Turns : answers[a] = {t}
    BY DEF IInv, OneAnswer
  <2>2. Cardinality({}) = 0 /\ \A t \in Turns : Cardinality({t}) = 1
    BY FS_EmptySet, FS_Singleton
  <2> QED
    BY <2>1, <2>2
<1> QED
  BY <1>1, Invariant, PTL
=============================================================================
