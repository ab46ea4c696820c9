------------------------ MODULE WorkingMemory_proofs ------------------------
(* Theorems about WorkingMemory, for every set of callers and every value of  *)
(* the bounds.                                                                *)
EXTENDS WorkingMemory, FiniteSetTheorems, SequenceTheorems, WellFoundedInduction, TLAPS

-----------------------------------------------------------------------------
(* The operators on views *)

\* dropFromMemory returns a view and forgets no record.
LEMMA DropFacts ==
    ASSUME NEW st \in State, NEW gone
    PROVE  Drop(st, gone) \in State /\ Drop(st, gone).lsns = st.lsns
  BY DEF Drop, Without, State

\* pruneExpired does the same.
LEMMA PruneFacts ==
    ASSUME NEW st \in State
    PROVE  Prune(st) \in State /\ Prune(st).lsns = st.lsns
  BY DropFacts DEF Prune

\* applyWalRecordToState returns a view that reflects one record more.
LEMMA ApplyFacts ==
    ASSUME NEW st \in State, NEW r \in Line
    PROVE  Apply(st, r) \in State /\ Apply(st, r).lsns = st.lsns \cup {r.lsn}
  <1>1. \A e \in Episodes : Changed(st.eps[e], r) \in Entry \cup {Absent}
    <2> TAKE e \in Episodes
    <2>1. /\ st.eps[e] \in Entry \cup {Absent}
          /\ r.exp \in Nat /\ r.rev \in Nat /\ r.lsn \in Nat
      BY DEF State, Line
    <2> QED BY <2>1 DEF Changed, Entry
  <1>2. [st.ring EXCEPT ![r.id] = st.seq + 1] \in [Episodes -> Nat]
    <2>1. st.ring \in [Episodes -> Nat] /\ st.seq + 1 \in Nat
      BY DEF State
    <2> QED BY <2>1
  <1>3. /\ Newest([st.ring EXCEPT ![r.id] = st.seq + 1]) \in [Episodes -> Nat]
        /\ Without(st.ring, {r.id}) \in [Episodes -> Nat]
    BY <1>2 DEF Newest, Without, State
  <1>4. /\ r.lsn \in Nat /\ r.exp \in Nat
        /\ st.lsns \in SUBSET Nat /\ st.seq \in Nat /\ st.hot \in Nat
        /\ st.ring \in [Episodes -> Nat]
        /\ st.eps \in [Episodes -> Entry \cup {Absent}]
    BY DEF State, Line
  <1> QED BY <1>1, <1>3, <1>4 DEF Apply, State

\* The view of a fresh process is a view.
LEMMA EmptyFacts == Empty \in State /\ Empty.lsns = {}
  BY DEF Empty, State

-----------------------------------------------------------------------------
(* Type correctness *)

\* Numbering a record leaves it a record; a torn line leaves the log a log.
LEMMA LineFacts ==
    /\ \A r \in Line, n \in Nat : [r EXCEPT !.lsn = n] \in Line
    /\ \A log \in Seq(Line \cup {Torn}) : Append(log, Torn) \in Seq(Line \cup {Torn})
  <1>1. ASSUME NEW r \in Line, NEW n \in Nat PROVE [r EXCEPT !.lsn = n] \in Line
    BY DEF Line
  <1>2. ASSUME NEW log \in Seq(Line \cup {Torn})
        PROVE  Append(log, Torn) \in Seq(Line \cup {Torn})
    OBVIOUS
  <1> QED BY <1>1, <1>2

\* What a mutation appends: the evictions, then the record of the call.
LEMMA StartTypes ==
    ASSUME TypeOK, NEW c \in Clients, NEW records \in Seq(Line), records # <<>>,
           Start(c, records), used' \subseteq Episodes
    PROVE  TypeOK'
  <1>1. todo' \in [Clients -> Seq(Line)]
    BY DEF TypeOK, Start
  <1>2. pc' \in [Clients -> Phases]
    BY DEF TypeOK, Start, Phases
  <1>3. \A d \in Clients : pc'[d] \notin {"idle", "load"} => todo'[d] # <<>>
    BY DEF TypeOK, Start
  <1> QED
    BY <1>1, <1>2, <1>3 DEF TypeOK, Start, disk, memory

\* A record a call builds is a line of the log.
LEMMA RecordType ==
    ASSUME NEW op \in Ops, NEW id \in Episodes \cup {Absent}, NEW exp \in Nat,
           NEW rev \in Nat
    PROVE  Record(op, id, exp, rev) \in Line
  BY DEF Record, Line

\* The records of a write - the evictions, then the episode - are lines.
LEMMA WriteTypes ==
    ASSUME TypeOK, NEW c \in Clients, NEW id \in Episodes, NEW ttl \in Ttls,
           WriteEpisode(c, id, ttl)
    PROVE  TypeOK'
  <1>1. PICK order \in EvictionOrders :
          Start(c, [i \in 1..Len(order) |-> Record("drop", order[i], 0, 0)]
                   \o <<Record("write", id, now + ttl, ReviewAt(ttl))>>)
    BY DEF WriteEpisode
  <1>2. order \in Seq(Episodes)
    <2> DEFINE n == Cardinality(Live(mem)) - MaxEpisodes + 1
    <2>1. Live(mem) \subseteq Episodes /\ IsFiniteSet(Live(mem))
      BY StoreAssumption, FS_Subset DEF Live
    <2>2. n \in Int
      BY <2>1, StoreAssumption, FS_CardinalityType
    <2>3. CASE n <= 0
      BY <2>3 DEF EvictionOrders
    <2>4. CASE ~(n <= 0)
      <3>1. order \in [1..n -> Live(mem)]
        BY <2>4 DEF EvictionOrders
      <3>2. n \in Nat
        BY <2>2, <2>4
      <3> HIDE DEF n
      <3> QED BY <3>1, <3>2, <2>1, IsASeq
    <2> QED BY <2>3, <2>4
  <1>3. [i \in 1..Len(order) |-> Record("drop", order[i], 0, 0)] \in Seq(Line)
    <2>1. Len(order) \in Nat
      BY <1>2
    <2>2. \A i \in 1..Len(order) : Record("drop", order[i], 0, 0) \in Line
      BY <1>2, RecordType, ElementOfSeq DEF Ops
    <2> QED BY <2>1, <2>2, IsASeq
  <1>4. Record("write", id, now + ttl, ReviewAt(ttl)) \in Line
    <2>1. now + ttl \in Nat /\ ReviewAt(ttl) \in Nat
      BY StoreAssumption DEF TypeOK, ReviewAt
    <2> QED BY <2>1, RecordType DEF Ops
  <1>5. used' \subseteq Episodes
    BY DEF WriteEpisode, TypeOK
  <1> DEFINE drops == [i \in 1..Len(order) |-> Record("drop", order[i], 0, 0)]
             last == Record("write", id, now + ttl, ReviewAt(ttl))
  <1>6. drops \o <<last>> \in Seq(Line) /\ drops \o <<last>> # <<>>
    <2> HIDE DEF drops, last
    <2>1. drops \in Seq(Line) /\ last \in Line
      BY <1>3, <1>4 DEF drops, last
    <2>2. Len(drops \o <<last>>) = Len(drops) + 1 /\ drops \o <<last>> \in Seq(Line)
      BY <2>1
    <2> QED BY <2>1, <2>2
  <1> QED BY <1>1, <1>5, <1>6, StartTypes

\* Every public operation, up to its first append, keeps the types.
LEMMA CallTypes ==
    ASSUME TypeOK, NEW c \in Clients, Call(c)
    PROVE  TypeOK'
  <1> DEFINE Single(r) == Start(c, <<r>>) /\ UNCHANGED used
  <1>1. ASSUME NEW r \in Line, Single(r) PROVE TypeOK'
    <2>1. <<r>> \in Seq(Line) /\ <<r>> # <<>>
      OBVIOUS
    <2>2. used' \subseteq Episodes
      BY <1>1 DEF TypeOK
    <2> QED BY <1>1, <2>1, <2>2, StartTypes
  <1>2. now \in Nat /\ 0 \in Nat
    BY DEF TypeOK
  <1>3. ASSUME NEW id \in Episodes, NEW ttl \in Ttls, ReinforceEpisode(c, id, ttl)
        PROVE  TypeOK'
    <2>1. now + ttl \in Nat /\ ReviewAt(ttl) \in Nat
      BY <1>2, StoreAssumption DEF ReviewAt
    <2>2. Record("reinforce", id, now + ttl, ReviewAt(ttl)) \in Line
      BY <2>1, RecordType DEF Ops
    <2> QED BY <1>1, <1>3, <2>2 DEF ReinforceEpisode
  <1>4. ASSUME NEW id \in Episodes, DropEpisode(c, id) PROVE TypeOK'
    <2>1. Record("drop", id, 0, 0) \in Line
      BY RecordType DEF Ops
    <2> QED BY <1>1, <1>4, <2>1 DEF DropEpisode
  <1>5. ASSUME NEW id \in Episodes, RewriteEpisode(c, id) PROVE TypeOK'
    <2>1. Record("rewrite", id, 0, 0) \in Line
      BY RecordType DEF Ops
    <2> QED BY <1>1, <1>5, <2>1 DEF RewriteEpisode
  <1>6. ASSUME TouchConcepts(c) PROVE TypeOK'
    <2>1. Record("touch", Absent, now, 0) \in Line
      BY <1>2, RecordType DEF Ops
    <2> QED BY <1>1, <1>6, <2>1 DEF TouchConcepts
  <1> QED BY <1>3, <1>4, <1>5, <1>6, WriteTypes DEF Call

\* Taking from a budget leaves a budget.
LEMMA SpendType ==
    ASSUME budget \in [Faults -> Nat], NEW kind \in Faults, Spend(kind)
    PROVE  budget' \in [Faults -> Nat]
  <1>1. budget[kind] - 1 \in Nat
    BY DEF Spend
  <1> QED BY <1>1 DEF Spend

\* A tripped circuit is one of the circuits counted: at most ten failures.
LEMMA TrippedType ==
    ASSUME TypeOK
    PROVE  Tripped \in [open : BOOLEAN, fails : 0..10, until : Nat]
  <1> DEFINE n == IF circuit.fails < 10 THEN circuit.fails + 1 ELSE 10
  <1>1. circuit.fails \in 0..10 /\ now \in Nat
    BY DEF TypeOK
  <1>2. n \in 1..10
    BY <1>1
  <1>3. Backoff[n] \in Nat
    <2> HIDE DEF n
    <2> QED BY <1>2 DEF Backoff
  <1>4. Tripped = [open |-> TRUE, fails |-> n, until |-> now + Backoff[n]]
    BY DEF Tripped
  <1>5. now + Backoff[n] \in Nat /\ n \in 0..10
    BY <1>1, <1>2, <1>3
  <1> HIDE DEF n
  <1> QED BY <1>4, <1>5

\* So is a closed one.
LEMMA ClosedType == Closed \in [open : BOOLEAN, fails : 0..10, until : Nat]
  BY DEF Closed

\* Where a call stands when one of its records is done with.
LEMMA FinishTypes ==
    ASSUME TypeOK, NEW c \in Clients, NEW ok \in BOOLEAN, Finish(c, ok),
           pc[c] \notin {"idle", "load"}
    PROVE  /\ pc' \in [Clients -> Phases] /\ todo' \in [Clients -> Seq(Line)]
           /\ \A d \in Clients : pc'[d] \notin {"idle", "load"} => todo'[d] # <<>>
           /\ acked' \subseteq Nat
  <1>1. Head(todo[c]).lsn \in Nat
    <2>1. todo[c] \in Seq(Line) /\ todo[c] # <<>>
      BY DEF TypeOK
    <2>2. Head(todo[c]) \in Line
      BY <2>1
    <2> QED BY <2>2 DEF Line
  <1>2. pc' \in [Clients -> Phases]
    BY DEF TypeOK, Finish, Phases
  <1>3. todo' \in [Clients -> Seq(Line)]
    <2>1. <<>> \in Seq(Line)
      OBVIOUS
    <2> QED BY <2>1 DEF TypeOK, Finish
  <1>4. \A d \in Clients : pc'[d] \notin {"idle", "load"} => todo'[d] # <<>>
    BY DEF TypeOK, Finish
  <1>5. acked' \subseteq Nat
    BY <1>1 DEF TypeOK, Finish
  <1> QED BY <1>2, <1>3, <1>4, <1>5

\* Going on to the next record of a call, or returning, keeps the types.
LEMMA ContinueTypes ==
    ASSUME TypeOK, NEW c \in Clients, Continue(c), pc[c] \notin {"idle", "load"}
    PROVE  /\ pc' \in [Clients -> Phases] /\ todo' \in [Clients -> Seq(Line)]
           /\ \A d \in Clients : pc'[d] \notin {"idle", "load"} => todo'[d] # <<>>
           /\ acked' \subseteq Nat
  <1>1. CASE Len(todo[c]) > 1
    <2>1. todo[c] \in Seq(Line) /\ todo[c] # <<>>
      BY DEF TypeOK
    <2>2. Head(todo[c]) \in Line /\ Tail(todo[c]) \in Seq(Line)
      BY <2>1
    <2>3. Tail(todo[c]) # <<>>
      BY <2>1, <1>1
    <2>4. /\ pc' = [pc EXCEPT ![c] = "append"]
          /\ todo' = [todo EXCEPT ![c] = Tail(@)]
          /\ acked' = acked \cup {Head(todo[c]).lsn}
      BY <1>1 DEF Continue
    <2>5. pc' \in [Clients -> Phases]
      BY <2>4 DEF TypeOK, Phases
    <2>6. todo' \in [Clients -> Seq(Line)]
      BY <2>2, <2>4 DEF TypeOK
    <2>7. \A d \in Clients : pc'[d] \notin {"idle", "load"} => todo'[d] # <<>>
      BY <2>3, <2>4 DEF TypeOK
    <2>8. acked' \subseteq Nat
      BY <2>2, <2>4 DEF TypeOK, Line
    <2> QED BY <2>5, <2>6, <2>7, <2>8
  <1>2. CASE ~(Len(todo[c]) > 1)
    BY <1>2, FinishTypes DEF Continue
  <1> QED BY <1>1, <1>2

\* The files a load goes by: the ones on the disk, or damaged ones in the place of
\* those it could not read.
BeginsWith(c, first, second, failing) ==
    /\ ~loaded /\ \A d \in Clients : pc[d] = "idle"
    /\ first # primary => "primary" \in failing
    /\ second # backup => "backup" \in failing
    /\ "primary" \in failing => first = Corrupt
    /\ "backup" \in failing => second = Corrupt /\ ~Usable(first)
    /\ budget' \in [Faults -> Nat]
    /\ replay' = [st |-> IF Usable(first) THEN first
                         ELSE IF Usable(second) THEN second ELSE Empty,
                  next |-> 1,
                  broken |-> first = Corrupt \/ (~Usable(first) /\ second = Corrupt),
                  found |-> Usable(first) \/ Usable(second),
                  unread |-> failing # {}, blind |-> first = Corrupt /\ second = Corrupt]
    /\ pc' = [pc EXCEPT ![c] = "load"]
    /\ UNCHANGED <<disk, memory, todo, payload, now, used, lsn, acked, excused, unseen, drift>>

LEMMA LoadBegins ==
    ASSUME TypeOK, NEW c \in Clients, BeginLoad(c)
    PROVE  \E first \in {primary, Corrupt}, second \in {backup, Corrupt},
              failing \in SUBSET {"primary", "backup"} : BeginsWith(c, first, second, failing)
  <1> DEFINE Seen(failing, name, file) == IF name \in failing THEN Corrupt ELSE file
             Reads(failing) ==
                 /\ "backup" \in failing => ~Usable(Seen(failing, "primary", primary))
                 /\ Cardinality(failing) <= budget["io"]
                 /\ budget' = [budget EXCEPT !["io"] = @ - Cardinality(failing)]
                 /\ replay' = [st |-> IF Usable(Seen(failing, "primary", primary))
                                      THEN Seen(failing, "primary", primary)
                                      ELSE IF Usable(Seen(failing, "backup", backup))
                                      THEN Seen(failing, "backup", backup) ELSE Empty,
                               next |-> 1,
                               broken |-> \/ Seen(failing, "primary", primary) = Corrupt
                                          \/ /\ ~Usable(Seen(failing, "primary", primary))
                                             /\ Seen(failing, "backup", backup) = Corrupt,
                               found |-> \/ Usable(Seen(failing, "primary", primary))
                                         \/ Usable(Seen(failing, "backup", backup)),
                               unread |-> failing # {},
                               blind |-> /\ Seen(failing, "primary", primary) = Corrupt
                                         /\ Seen(failing, "backup", backup) = Corrupt]
  <1>1. PICK failing \in SUBSET {"primary", "backup"} : Reads(failing)
    BY Zenon DEF BeginLoad
  <1> DEFINE first == Seen(failing, "primary", primary)
             second == Seen(failing, "backup", backup)
  <1>2. first \in {primary, Corrupt} /\ second \in {backup, Corrupt}
    OBVIOUS
  <1>3. budget' \in [Faults -> Nat]
    <2>1. IsFiniteSet(failing)
      <3>1. IsFiniteSet({"primary"})
        BY FS_Singleton
      <3>2. IsFiniteSet({"primary"} \cup {"backup"})
        BY <3>1, FS_AddElement
      <3>3. failing \subseteq {"primary"} \cup {"backup"}
        OBVIOUS
      <3> QED BY <3>2, <3>3, FS_Subset
    <2>2. Cardinality(failing) \in Nat
      BY <2>1, FS_CardinalityType
    <2>3. budget \in [Faults -> Nat] /\ "io" \in Faults
      BY DEF TypeOK, Faults
    <2>4. budget["io"] - Cardinality(failing) \in Nat
      BY <1>1, <2>2, <2>3
    <2> QED BY <1>1, <2>3, <2>4
  <1>4. BeginsWith(c, first, second, failing)
    BY <1>1, <1>3 DEF BeginsWith, BeginLoad
  <1> HIDE DEF first, second
  <1> QED BY <1>2, <1>4

\* connect() and its replay.
LEMMA LoadTypes ==
    ASSUME TypeOK, NEW c \in Clients, Load(c)
    PROVE  TypeOK'
  <1>1. CASE BeginLoad(c)
    <2>1. PICK first \in {primary, Corrupt}, second \in {backup, Corrupt},
               failing \in SUBSET {"primary", "backup"} : BeginsWith(c, first, second, failing)
      BY <1>1, LoadBegins
    <2>2. replay' \in Replays
      <3> DEFINE from == IF Usable(first) THEN first
                         ELSE IF Usable(second) THEN second ELSE Empty
      <3>1. from \in State
        BY <2>1, EmptyFacts DEF TypeOK, Usable, Files
      <3> HIDE DEF from
      <3>2. replay' = [st |-> from, next |-> 1,
                       broken |-> first = Corrupt \/ (~Usable(first) /\ second = Corrupt),
                       found |-> Usable(first) \/ Usable(second),
                       unread |-> failing # {}, blind |-> first = Corrupt /\ second = Corrupt]
        BY <2>1 DEF BeginsWith, from
      <3>3. [st |-> from, next |-> 1,
             broken |-> first = Corrupt \/ (~Usable(first) /\ second = Corrupt),
             found |-> Usable(first) \/ Usable(second),
             unread |-> failing # {}, blind |-> first = Corrupt /\ second = Corrupt] \in Replays
        BY <3>1 DEF Replays
      <3> QED BY <3>2, <3>3
    <2>3. pc' \in [Clients -> Phases]
          /\ \A d \in Clients : pc'[d] \notin {"idle", "load"} => todo'[d] # <<>>
      BY <2>1 DEF BeginsWith, TypeOK, Phases
    <2>4. budget' \in [Faults -> Nat]
      BY <2>1 DEF BeginsWith
    <2> QED BY <1>1, <2>2, <2>3, <2>4 DEF TypeOK, BeginLoad, disk, memory
  <1>6. CASE LogUnread(c)
    <2>1. budget' \in [Faults -> Nat]
      BY <1>6, SpendType DEF LogUnread, TypeOK, Faults
    <2>2. Len(wal) + 1 \in Nat \ {0}
      BY DEF TypeOK
    <2>3. replay' \in Replays
      BY <1>6, <2>2 DEF LogUnread, TypeOK, Replays
    <2> QED BY <1>6, <2>1, <2>3 DEF LogUnread, TypeOK, disk, memory
  <1>2. CASE ReplayLine(c)
    <2>1. wal[replay.next] \in Line
      BY <1>2 DEF ReplayLine, Reached, TypeOK
    <2>2. replay.st \in State /\ replay.next + 1 \in Nat \ {0}
      BY DEF TypeOK, Replays
    <2>3. Apply(replay.st, wal[replay.next]) \in State
      BY <2>1, <2>2, ApplyFacts
    <2>4. replay' \in Replays
      BY <1>2, <2>2, <2>3 DEF ReplayLine, TypeOK, Replays
    <2> QED BY <1>2, <2>4 DEF TypeOK, ReplayLine, disk, memory, ghosts
  <1>3. NoReplay \in Replays
    BY EmptyFacts DEF NoReplay, Replays
  <1>4. CASE InstallLoaded(c)
    <2>1. mem' \in State
      BY <1>4, PruneFacts DEF InstallLoaded, TypeOK, Replays
    <2>2. unseen' \subseteq Nat /\ drift' \in {"none", "maps", "files"}
      BY <1>4 DEF InstallLoaded, TypeOK
    <2> QED BY <1>3, <1>4, <2>1, <2>2, ClosedType
            DEF TypeOK, InstallLoaded, disk, Phases
  <1>5. CASE LoadFails(c)
    <2>1. budget' \in [Faults -> Nat]
      BY <1>5, SpendType DEF LoadFails, TypeOK, Faults
    <2> QED BY <1>3, <1>5, <2>1, TrippedType DEF TypeOK, LoadFails, disk, Phases
  <1> QED BY <1>1, <1>2, <1>4, <1>5, <1>6 DEF Load

\* applyDurably.
LEMMA DurablyTypes ==
    ASSUME TypeOK, NEW c \in Clients, Durably(c)
    PROVE  TypeOK'
  <1>1. CASE AppendWal(c)
    <2> DEFINE r == [Head(todo[c]) EXCEPT !.lsn = lsn + 1]
    <2>1. r \in Line
      <3>1. todo[c] \in Seq(Line) /\ todo[c] # <<>>
        BY <1>1 DEF TypeOK, AppendWal
      <3>2. Head(todo[c]) \in Line
        BY <3>1
      <3>3. lsn + 1 \in Nat
        BY DEF TypeOK
      <3> QED BY <3>2, <3>3, LineFacts
    <2>2. /\ wal' = Append(wal, r)
          /\ todo' = [todo EXCEPT ![c] = <<r>> \o Tail(@)]
          /\ pc' = [pc EXCEPT ![c] = "apply"]
      BY <1>1 DEF AppendWal
    <2> HIDE DEF r
    <2>3. wal' \in Seq(Line \cup {Torn})
      BY <2>1, <2>2 DEF TypeOK
    <2>4. /\ todo' \in [Clients -> Seq(Line)]
          /\ \A d \in Clients : pc'[d] \notin {"idle", "load"} => todo'[d] # <<>>
      <3>1. todo[c] \in Seq(Line) /\ todo[c] # <<>>
        BY <1>1 DEF TypeOK, AppendWal
      <3>2. Tail(todo[c]) \in Seq(Line)
        BY <3>1
      <3>3. <<r>> \o Tail(todo[c]) \in Seq(Line) /\ <<r>> \o Tail(todo[c]) # <<>>
        BY <2>1, <3>2
      <3> QED BY <2>2, <3>3 DEF TypeOK
    <2>5. pc' \in [Clients -> Phases]
      BY <2>2 DEF TypeOK, Phases
    <2>6. lsn' \in Nat /\ excused' \subseteq Nat
      BY <1>1 DEF AppendWal, TypeOK
    <2> QED BY <1>1, <2>3, <2>4, <2>5, <2>6 DEF AppendWal, TypeOK, memory
  <1>2. CASE AppendFails(c)
    <2>1. budget' \in [Faults -> Nat]
      BY <1>2, SpendType DEF AppendFails, TypeOK, Faults
    <2>2. wal' \in Seq(Line \cup {Torn})
      BY <1>2, LineFacts DEF AppendFails, TypeOK
    <2> QED BY <1>2, <2>1, <2>2, TrippedType, FinishTypes DEF AppendFails, TypeOK
  <1>3. CASE AppendRefused(c)
    BY <1>3, FinishTypes DEF AppendRefused, TypeOK, disk, memory
  <1>4. CASE ApplyRecord(c)
    <2>1. todo[c] \in Seq(Line) /\ todo[c] # <<>>
      BY <1>4 DEF TypeOK, ApplyRecord
    <2>2. Head(todo[c]) \in Line
      BY <2>1
    <2>3. mem' \in State
      BY <1>4, <2>2, ApplyFacts DEF ApplyRecord, TypeOK
    <2>4. pc' \in [Clients -> Phases]
      BY <1>4 DEF ApplyRecord, TypeOK, Phases
    <2>5. circuit' \in [open : BOOLEAN, fails : 0..10, until : Nat]
      BY <1>4, ClosedType DEF ApplyRecord, TypeOK
    <2>6. \A d \in Clients : pc'[d] \notin {"idle", "load"} => todo'[d] # <<>>
      BY <1>4 DEF ApplyRecord, TypeOK
    <2> QED BY <1>4, <2>3, <2>4, <2>5, <2>6 DEF ApplyRecord, TypeOK, disk, ghosts
  <1>5. CASE StatWal(c)
    BY <1>5, ContinueTypes DEF StatWal, TypeOK, disk, memory
  <1>6. CASE StatFails(c)
    <2>1. budget' \in [Faults -> Nat]
      BY <1>6, SpendType DEF StatFails, TypeOK, Faults
    <2> QED BY <1>6, <2>1, TrippedType, FinishTypes DEF StatFails, TypeOK, disk
  <1> QED BY <1>1, <1>2, <1>3, <1>4, <1>5, <1>6 DEF Durably

\* compact() and persistSnapshot().
LEMMA CompactTypes ==
    ASSUME TypeOK, NEW c \in Clients, Compact(c)
    PROVE  TypeOK'
  <1>0. CASE BeginCompact(c)
    BY <1>0 DEF BeginCompact, TypeOK, disk, memory, ghosts, Phases
  <1>7. CASE MkdirFails(c)
    <2>1. budget' \in [Faults -> Nat]
      BY <1>7, SpendType DEF MkdirFails, TypeOK, Faults
    <2> QED BY <1>7, <2>1, FinishTypes DEF MkdirFails, TypeOK, disk, memory
  <1>1. CASE Capture(c)
    <2>1. Prune(mem) \in State
      BY PruneFacts DEF TypeOK
    <2>2. InFlight \subseteq Nat
      <3> SUFFICES ASSUME NEW d \in Clients, pc[d] = "apply"
                   PROVE  Head(todo[d]).lsn \in Nat
        BY DEF InFlight
      <3>1. todo[d] \in Seq(Line) /\ todo[d] # <<>>
        BY DEF TypeOK
      <3>2. Head(todo[d]) \in Line
        BY <3>1
      <3> QED BY <3>2 DEF Line
    <2>3. pc' \in [Clients -> Phases]
          /\ \A d \in Clients : pc'[d] \notin {"idle", "load"} => todo'[d] # <<>>
      BY <1>1 DEF Capture, TypeOK, Phases, Persisting
    <2> QED BY <1>1, <2>1, <2>2, <2>3 DEF Capture, TypeOK, disk
  <1>2. CASE WriteTmp(c)
    BY <1>2 DEF WriteTmp, TypeOK, memory, ghosts, Phases, Persisting, Files
  <1>3. CASE RenameTmp(c)
    BY <1>3 DEF RenameTmp, TypeOK, memory, Phases, Persisting, Files
  <1>4. CASE WriteBackup(c)
    BY <1>4 DEF WriteBackup, TypeOK, memory, ghosts, Phases, Persisting, Files
  <1>5. CASE TruncateWal(c)
    <2>1. wal' \in Seq(Line \cup {Torn}) /\ payload' \in [Clients -> State]
      BY <1>5, EmptyFacts DEF TruncateWal, TypeOK
    <2> QED BY <1>5, <2>1, ContinueTypes, ClosedType DEF TruncateWal, TypeOK
  <1>6. CASE CompactFails(c)
    <2>1. budget' \in [Faults -> Nat]
      BY <1>6, SpendType DEF CompactFails, TypeOK, Faults
    <2>2. payload' \in [Clients -> State] /\ tmp' \in Files /\ backup' \in Files
      BY <1>6, EmptyFacts DEF CompactFails, TypeOK, Files
    <2>3. pc[c] \notin {"idle", "load"}
      BY <1>6 DEF CompactFails, Compacting, Persisting
    <2> QED BY <1>6, <2>1, <2>2, <2>3, TrippedType, FinishTypes DEF CompactFails, TypeOK
  <1> QED BY <1>0, <1>1, <1>2, <1>3, <1>4, <1>5, <1>6, <1>7 DEF Compact

\* Readers, time, crashes and disk faults keep the types.
LEMMA EnvironmentTypes ==
    ASSUME TypeOK, Read \/ Tick \/ Crash \/ SnapshotRots
    PROVE  TypeOK'
  <1>1. CASE Read
    BY <1>1, PruneFacts DEF Read, TypeOK, disk, locals, ghosts
  <1>2. CASE Tick
    BY <1>2 DEF Tick, TypeOK, disk, memory, locals, ghosts
  <1>3. CASE Crash
    <2>1. /\ wal' = wal \/ wal' = Append(wal, Torn)
          /\ backup' = backup \/ backup' = Corrupt
      BY <1>3 DEF Crash
    <2>5. wal' \in Seq(Line \cup {Torn}) /\ backup' \in Files
      BY <2>1, LineFacts DEF TypeOK, Files
    <2>2. budget' \in [Faults -> Nat]
      BY <1>3 DEF Crash, TypeOK, Faults
    <2>3. /\ mem' \in State /\ payload' \in [Clients -> State]
          /\ replay' \in Replays
      BY <1>3, EmptyFacts DEF Crash, NoReplay, Replays
    <2>4. /\ pc' \in [Clients -> Phases] /\ todo' \in [Clients -> Seq(Line)]
          /\ \A d \in Clients : pc'[d] \notin {"idle", "load"} => todo'[d] # <<>>
      BY <1>3 DEF Crash, Phases
    <2>6. unseen' \subseteq Nat /\ drift' \in {"none", "maps", "files"}
      BY <1>3 DEF Crash, TypeOK
    <2> QED BY <1>3, <2>5, <2>2, <2>3, <2>4, <2>6, ClosedType DEF Crash, TypeOK
  <1>4. CASE SnapshotRots
    <2>1. budget' \in [Faults -> Nat]
      BY <1>4, SpendType DEF SnapshotRots, TypeOK, Faults
    <2> QED BY <1>4, <2>1 DEF SnapshotRots, TypeOK, memory, locals, Files
  <1> QED BY <1>1, <1>2, <1>3, <1>4

\* A store that was never written is well formed.
LEMMA InitTypes == Init => TypeOK
  <1> SUFFICES ASSUME Init PROVE TypeOK
    OBVIOUS
  <1>1. Budget \in [Faults -> Nat]
    BY StoreAssumption
  <1>2. /\ mem \in State /\ payload \in [Clients -> State]
        /\ replay \in Replays
    BY EmptyFacts DEF Init, NoReplay, Replays
  <1>3. primary \in Files /\ backup \in Files /\ tmp \in Files
    BY DEF Init, Files
  <1>4. wal \in Seq(Line \cup {Torn}) /\ todo \in [Clients -> Seq(Line)]
    BY DEF Init
  <1>5. pc \in [Clients -> Phases] /\ \A c \in Clients : pc[c] = "idle"
    BY DEF Init, Phases
  <1> QED BY <1>1, <1>2, <1>3, <1>4, <1>5, ClosedType DEF Init, TypeOK

\* Every step keeps the types.
LEMMA TypeStep == TypeOK /\ [Next]_vars => TypeOK'
  <1> SUFFICES ASSUME TypeOK, [Next]_vars PROVE TypeOK'
    OBVIOUS
  <1>1. CASE Next
    BY <1>1, LoadTypes, CallTypes, DurablyTypes, CompactTypes, EnvironmentTypes DEF Next
  <1>2. CASE UNCHANGED vars
    BY <1>2 DEF TypeOK, vars, disk, memory, locals, ghosts
  <1> QED BY <1>1, <1>2

\* Every variable of the store holds a value the class can hold.
THEOREM TypeCorrect == Spec => []TypeOK
  BY InitTypes, TypeStep, PTL DEF Spec

-----------------------------------------------------------------------------
(* Durability *)

\* Lines that follow never hide the ones the replay already reaches.
LEMMA ReachedGrows ==
    ASSUME NEW log \in Seq(Line \cup {Torn}), NEW line \in Line \cup {Torn}
    PROVE  /\ \A i \in Reached(log) : i \in Reached(Append(log, line)) /\ Append(log, line)[i] = log[i]
           /\ Reachable(log) \subseteq Reachable(Append(log, line))
           /\ line # Torn /\ (\A i \in 1..Len(log) : log[i] # Torn)
                => line.lsn \in Reachable(Append(log, line))
  <1>1. /\ Len(log) \in Nat
        /\ Len(Append(log, line)) = Len(log) + 1
        /\ \A i \in 1..Len(log) : Append(log, line)[i] = log[i]
        /\ Append(log, line)[Len(log) + 1] = line
    OBVIOUS
  <1>2. \A i \in Reached(log) : i \in Reached(Append(log, line)) /\ Append(log, line)[i] = log[i]
    BY <1>1 DEF Reached
  <1>3. Reachable(log) \subseteq Reachable(Append(log, line))
    BY <1>2 DEF Reachable
  <1>4. ASSUME line # Torn, \A i \in 1..Len(log) : log[i] # Torn
        PROVE  line.lsn \in Reachable(Append(log, line))
    <2>1. Len(log) + 1 \in Reached(Append(log, line))
      BY <1>1, <1>4 DEF Reached
    <2> QED BY <1>1, <2>1 DEF Reachable
  <1> QED BY <1>2, <1>3, <1>4

\* Steps that leave the files and views as they are, or spoil a file that is
\* being written, and let no call be owed more.
LEMMA QuietStep ==
    ASSUME DurabilityInv, LoadingAlone',
           primary' = primary, tmp' \in {tmp, Corrupt}, backup' \in {backup, Corrupt},
           Reachable(wal) \subseteq Reachable(wal)',
           mem'.lsns = mem.lsns, loaded' = loaded, excused' = excused, unseen' = unseen,
           \A c \in Clients : pc'[c] \in Persisting => pc'[c] = pc[c] /\ payload'[c] = payload[c],
           \A c \in Clients : pc'[c] = "load" =>
               pc[c] = "load" /\ wal' = wal /\ acked' = acked /\ replay' = replay,
           Known' \subseteq Known, Owed' \subseteq Owed
    PROVE  DurabilityInv'
  <1>1. OwedIsDurable'
    BY DEF DurabilityInv, OwedIsDurable, CoveredBy, Usable
  <1>2. KnownIsVisible'
    BY DEF DurabilityInv, KnownIsVisible, Gone
  <1>3. CompactionIsComplete'
    BY FileAssumption
       DEF DurabilityInv, CompactionIsComplete, Compacting, Persisting, Reflects, Gone, Usable
  <1>4. LoadIsComplete'
    BY DEF DurabilityInv, LoadIsComplete
  <1> QED BY <1>1, <1>2, <1>3, <1>4 DEF DurabilityInv

\* A call that starts or returns is owed nothing new.
LEMMA StartIsQuiet ==
    ASSUME TypeOK, DurabilityInv, NEW c \in Clients, NEW records, Start(c, records)
    PROVE  DurabilityInv'
  <1>1. pc[c] = "idle" /\ loaded /\ pc' = [pc EXCEPT ![c] = "append"]
        /\ todo' = [todo EXCEPT ![c] = records]
    BY DEF Start
  <1>2. Known' \subseteq Known /\ Owed' \subseteq Owed
    BY <1>1 DEF Known, Owed, InFlight, Applied, Compacting, Persisting, Start, TypeOK
  <1>3. LoadingAlone'
    BY <1>1 DEF LoadingAlone, DurabilityInv, Start, memory, TypeOK
  <1>4. \A d \in Clients : pc'[d] \in Persisting \cup {"load"} => pc'[d] = pc[d]
    BY <1>1 DEF TypeOK, Persisting
  <1> QED BY <1>2, <1>3, <1>4, QuietStep DEF Start, disk, memory

\* A call that returns, or goes on with its next record, is owed nothing new either:
\* what it acknowledges was owed to it already.
LEMMA FinishIsQuiet ==
    ASSUME TypeOK, DurabilityInv, NEW c \in Clients, pc[c] \notin {"idle", "load"},
           \/ Finish(c, FALSE)
           \/ Finish(c, TRUE) /\ Applied(c)
           \/ Continue(c) /\ Applied(c),
           loaded' = loaded
    PROVE  /\ Known' \subseteq Known /\ Owed' \subseteq Owed /\ LoadingAlone'
           /\ \A d \in Clients : pc'[d] \in Persisting \cup {"load"} => pc'[d] = pc[d] /\ d # c
  <1>1. \/ pc' = [pc EXCEPT ![c] = "idle"]
        \/ pc' = [pc EXCEPT ![c] = "append"]
    BY DEF Finish, Continue
  <1>2. \A d \in Clients \ {c} : pc'[d] = pc[d] /\ todo'[d] = todo[d]
    BY DEF Finish, Continue, TypeOK
  <1>3. pc'[c] \in {"idle", "append"}
    BY <1>1 DEF TypeOK
  <1>4. acked' \subseteq Known
    BY DEF Finish, Continue, Known, Applied
  <1>5. Known' \subseteq Known /\ Owed' \subseteq Owed
    BY <1>2, <1>3, <1>4 DEF Known, Owed, InFlight, Applied, Compacting, Persisting
  <1>6. LoadingAlone'
    BY <1>2, <1>3 DEF LoadingAlone, DurabilityInv
  <1> QED BY <1>2, <1>3, <1>5, <1>6 DEF Persisting

\* connect(): the replay carries over what it has read, to the last line.
LEMMA LoadKeeps ==
    ASSUME TypeOK, DurabilityInv, NEW c \in Clients, Load(c)
    PROVE  DurabilityInv'
  <1>1. CASE BeginLoad(c)
    <2>1. PICK first \in {primary, Corrupt}, second \in {backup, Corrupt},
               failing \in SUBSET {"primary", "backup"} : BeginsWith(c, first, second, failing)
      BY <1>1, LoadBegins
    <2>2. /\ ~loaded /\ \A d \in Clients : pc[d] = "idle"
          /\ pc' = [pc EXCEPT ![c] = "load"]
          /\ replay'.next = 1 /\ replay'.blind = (first = Corrupt /\ second = Corrupt)
          /\ replay'.st = IF Usable(first) THEN first
                          ELSE IF Usable(second) THEN second ELSE Empty
          /\ UNCHANGED <<primary, backup, tmp, wal, mem, loaded, todo, acked, excused, unseen>>
      BY <2>1 DEF BeginsWith, disk, memory
    <2>3. \A d \in Clients : pc'[d] = IF d = c THEN "load" ELSE "idle"
      BY <2>2 DEF TypeOK
    <2>4. Owed = acked /\ Owed' = acked /\ Known' = acked
      BY <2>2, <2>3 DEF Owed, Known, InFlight, Applied, Compacting, Persisting
    <2>5. LoadingAlone' /\ KnownIsVisible' /\ CompactionIsComplete'
      BY <2>2, <2>3 DEF LoadingAlone, KnownIsVisible, CompactionIsComplete, Compacting,
                        Persisting
    <2>6. OwedIsDurable'
      BY <2>2, <2>4 DEF DurabilityInv, OwedIsDurable, CoveredBy
    <2>7. LoadIsComplete'
      <3> SUFFICES ASSUME NEW l \in acked, ~(first = Corrupt /\ second = Corrupt)
                   PROVE  \/ l \in replay'.st.lsns \cup excused'
                          \/ \E i \in Reached(wal) : i >= 1 /\ wal[i].lsn = l
        BY <2>2, <2>3 DEF LoadIsComplete
      <3>1. l \in Reachable(wal) => \E i \in Reached(wal) : i >= 1 /\ wal[i].lsn = l
        BY DEF Reachable, Reached
      <3>2. CASE Usable(first)
        <4>1. first = primary /\ primary # Corrupt
          BY <3>2 DEF Usable
        <4> QED BY <2>2, <2>4, <3>1, <3>2, <4>1 DEF DurabilityInv, OwedIsDurable, CoveredBy
      <3>3. CASE ~Usable(first) /\ second # Corrupt
        <4>1. second = backup /\ backup # Corrupt
          BY <3>3
        <4>2. l \in CoveredBy(backup)
          BY <2>4, <4>1 DEF DurabilityInv, OwedIsDurable
        <4> QED BY <2>2, <3>1, <3>3, <4>1, <4>2 DEF CoveredBy
      <3>4. CASE ~Usable(first) /\ second = Corrupt
        <4>1. first = primary /\ primary # Corrupt /\ ~Usable(second)
          BY <3>4 DEF Usable
        <4>2. l \in CoveredBy(primary)
          BY <2>4, <4>1 DEF DurabilityInv, OwedIsDurable
        <4> QED BY <2>2, <3>1, <3>4, <4>1, <4>2 DEF CoveredBy
      <3> QED BY <3>2, <3>3, <3>4
    <2> QED BY <2>5, <2>6, <2>7 DEF DurabilityInv
  <1>5. CASE LogUnread(c)
    <2>1. /\ pc[c] = "load" /\ replay'.blind
          /\ UNCHANGED <<primary, backup, tmp, wal, mem, loaded, pc, todo, payload, acked,
                         excused, unseen>>
      BY <1>5 DEF LogUnread, disk, memory, TypeOK, Replays
    <2>2. /\ LoadingAlone' /\ OwedIsDurable' /\ KnownIsVisible' /\ CompactionIsComplete'
      BY <2>1 DEF DurabilityInv, LoadingAlone, OwedIsDurable, KnownIsVisible, Applied, Gone,
                  CompactionIsComplete, CoveredBy, Reflects, Owed, Known, InFlight, Compacting
    <2>3. LoadIsComplete'
      BY <2>1 DEF LoadIsComplete
    <2> QED BY <2>2, <2>3 DEF DurabilityInv
  <1>2. CASE ReplayLine(c)
    <2>1. /\ pc[c] = "load" /\ replay.next \in Reached(wal)
          /\ replay'.st = Apply(replay.st, wal[replay.next])
          /\ replay'.next = replay.next + 1
          /\ replay'.blind = replay.blind
          /\ UNCHANGED <<primary, backup, tmp, wal, mem, loaded, pc, todo, payload, acked,
                         excused, unseen>>
      BY <1>2 DEF ReplayLine, disk, memory, ghosts, TypeOK, Replays
    <2>2. /\ LoadingAlone' /\ OwedIsDurable' /\ KnownIsVisible' /\ CompactionIsComplete'
      BY <2>1 DEF DurabilityInv, LoadingAlone, OwedIsDurable, KnownIsVisible, Applied, Gone,
                  CompactionIsComplete, CoveredBy, Reflects, Owed, Known, InFlight, Compacting
    <2>3. wal[replay.next] \in Line
      BY <2>1 DEF Reached, TypeOK
    <2>4. replay'.st.lsns = replay.st.lsns \cup {wal[replay.next].lsn}
      BY <2>1, <2>3, ApplyFacts DEF TypeOK, Replays
    <2>5. \A i \in Reached(wal) : i >= replay.next => i = replay.next \/ i >= replay.next + 1
      BY DEF Reached, TypeOK, Replays
    <2>6. LoadIsComplete'
      <3> SUFFICES ASSUME NEW l \in acked, ~replay.blind
                   PROVE  \/ l \in replay'.st.lsns \cup excused
                          \/ \E i \in Reached(wal) : i >= replay.next + 1 /\ wal[i].lsn = l
        BY <2>1 DEF LoadIsComplete
      <3>1. \/ l \in replay.st.lsns \cup excused
            \/ \E i \in Reached(wal) : i >= replay.next /\ wal[i].lsn = l
        BY <2>1 DEF DurabilityInv, LoadIsComplete
      <3> QED BY <2>4, <2>5, <3>1
    <2> QED BY <2>2, <2>6 DEF DurabilityInv
  <1>3. CASE InstallLoaded(c)
    <2>1. /\ pc[c] = "load" /\ ReplayDone
          /\ mem' = Prune(replay.st) /\ loaded'
          /\ pc' = [pc EXCEPT ![c] = "idle"]
          /\ unseen' = IF replay.blind THEN acked \ replay.st.lsns ELSE {}
          /\ UNCHANGED <<primary, backup, tmp, wal, todo, payload, acked, excused>>
      BY <1>3 DEF InstallLoaded, disk
    <2>2. \A d \in Clients : pc'[d] = "idle" /\ (d # c => pc[d] = "idle")
      BY <2>1 DEF DurabilityInv, LoadingAlone, TypeOK
    <2>3. Owed = acked /\ Owed' = acked /\ Known' = acked
      BY <2>1, <2>2 DEF Owed, Known, InFlight, Applied, Compacting, Persisting
    <2>4. OwedIsDurable'
      BY <2>1, <2>3 DEF DurabilityInv, OwedIsDurable, CoveredBy
    <2>5. LoadingAlone' /\ CompactionIsComplete' /\ LoadIsComplete'
      BY <2>1, <2>2 DEF LoadingAlone, CompactionIsComplete, LoadIsComplete, Compacting,
                        Persisting
    <2>6. KnownIsVisible'
      <3>1. mem'.lsns = replay.st.lsns
        BY <2>1, PruneFacts DEF TypeOK, Replays
      <3>2. ASSUME NEW i \in Reached(wal), i >= replay.next PROVE FALSE
        <4>1. replay.next \in Reached(wal)
          BY <3>2 DEF Reached, TypeOK, Replays
        <4> QED BY <2>1, <4>1 DEF ReplayDone
      <3>3. ~replay.blind => acked \subseteq replay.st.lsns \cup excused
        BY <2>1, <3>2 DEF DurabilityInv, LoadIsComplete
      <3> QED BY <2>1, <2>3, <3>1, <3>3 DEF KnownIsVisible, Gone
    <2> QED BY <2>4, <2>5, <2>6 DEF DurabilityInv
  <1>4. CASE LoadFails(c)
    <2>1. /\ pc[c] = "load" /\ pc' = [pc EXCEPT ![c] = "idle"]
          /\ UNCHANGED <<primary, backup, tmp, wal, mem, loaded, todo, payload, acked,
                         excused, unseen>>
      BY <1>4 DEF LoadFails, disk
    <2>2. ~loaded /\ \A d \in Clients : pc'[d] = "idle" /\ (d # c => pc[d] = "idle")
      BY <2>1 DEF DurabilityInv, LoadingAlone, TypeOK
    <2>3. Owed' = Owed /\ Known' = Known
      BY <2>1, <2>2 DEF Owed, Known, InFlight, Applied, Compacting, Persisting
    <2>4. LoadingAlone'
      BY <2>1, <2>2 DEF LoadingAlone
    <2> QED BY <2>1, <2>2, <2>3, <2>4, QuietStep DEF Persisting
  <1> QED BY <1>1, <1>2, <1>3, <1>4, <1>5 DEF Load

\* applyDurably: the log takes the record before the Maps do.
LEMMA DurablyKeeps ==
    ASSUME TypeOK, DurabilityInv, NEW c \in Clients, Durably(c)
    PROVE  DurabilityInv'
  <1> DEFINE Same == UNCHANGED <<primary, backup, tmp, mem, loaded, payload, replay, unseen>>
  <1>1. CASE AppendWal(c)
    <2> DEFINE r == [Head(todo[c]) EXCEPT !.lsn = lsn + 1]
    <2>1. /\ pc[c] = "append"
          /\ wal' = Append(wal, r) /\ todo' = [todo EXCEPT ![c] = <<r>> \o Tail(@)]
          /\ excused' = IF (\E d \in Clients : Compacting(d))
                           \/ (\E i \in 1..Len(wal) : wal[i] = Torn)
                        THEN excused \cup {lsn + 1} ELSE excused
          /\ pc' = [pc EXCEPT ![c] = "apply"]
          /\ Same /\ acked' = acked
      BY <1>1 DEF AppendWal, memory
    <2>2. r \in Line /\ r.lsn = lsn + 1 /\ Head(todo'[c]) = r
      <3>1. todo[c] \in Seq(Line) /\ todo[c] # <<>>
        BY <2>1 DEF TypeOK
      <3>2. Head(todo[c]) \in Line /\ Tail(todo[c]) \in Seq(Line)
        BY <3>1
      <3>3. lsn + 1 \in Nat
        BY DEF TypeOK
      <3>4. r \in Line /\ r.lsn = lsn + 1
        BY <3>2, <3>3, LineFacts DEF Line
      <3> HIDE DEF r
      <3>5. Head(<<r>> \o Tail(todo[c])) = r
        BY <3>2, <3>4
      <3> QED BY <2>1, <3>4, <3>5 DEF TypeOK
    <2> HIDE DEF r
    <2>3. loaded /\ \A d \in Clients : pc[d] # "load"
      BY <2>1 DEF DurabilityInv, LoadingAlone
    <2>4. /\ pc'[c] = "apply"
          /\ \A d \in Clients \ {c} : pc'[d] = pc[d] /\ todo'[d] = todo[d]
      BY <2>1 DEF TypeOK
    <2>5. Known' \subseteq Known /\ Owed' \subseteq Owed \cup {lsn + 1}
      BY <2>1, <2>2, <2>4 DEF Known, Owed, InFlight, Applied, Compacting, Persisting
    <2>6. /\ Reachable(wal) \subseteq Reachable(wal')
          /\ lsn + 1 \in Reachable(wal') \cup excused'
      <3>1. wal \in Seq(Line \cup {Torn})
        BY DEF TypeOK
      <3>2. /\ Reachable(wal) \subseteq Reachable(Append(wal, r))
            /\ r # Torn /\ (\A i \in 1..Len(wal) : wal[i] # Torn)
                 => r.lsn \in Reachable(Append(wal, r))
        BY <2>2, <3>1, ReachedGrows
      <3>3. CASE \E i \in 1..Len(wal) : wal[i] = Torn
        BY <2>1, <3>2, <3>3
      <3>4. CASE \A i \in 1..Len(wal) : wal[i] # Torn
        BY <2>1, <2>2, <3>2, <3>4, FileAssumption
      <3> QED BY <3>3, <3>4
    <2>7. LoadingAlone'
      BY <2>1, <2>3, <2>4 DEF LoadingAlone
    <2>8. OwedIsDurable'
      BY <2>1, <2>5, <2>6 DEF DurabilityInv, OwedIsDurable, CoveredBy
    <2>9. KnownIsVisible'
      BY <2>1, <2>5 DEF DurabilityInv, KnownIsVisible, Gone
    <2>10. CompactionIsComplete'
      <3> SUFFICES ASSUME NEW d \in Clients, Compacting(d)'
                   PROVE  /\ Owed' \subseteq payload'[d].lsns \cup Gone'
                          /\ pc'[d] = "rename" => Reflects(tmp)'
                          /\ pc'[d] \in {"backup", "truncate"}
                               => primary' # Missing /\ Reflects(primary)'
                          /\ pc'[d] = "truncate" => backup' # Missing /\ Reflects(backup)'
                          /\ pc'[d] \in {"backup", "truncate"}
                               => unseen' \subseteq excused' \cup Reachable(wal)'
        BY DEF CompactionIsComplete, Compacting, Persisting
      <3>1. d # c /\ pc'[d] = pc[d] /\ Compacting(d)
        BY <2>4 DEF Compacting, Persisting
      <3>2. Owed' \subseteq Owed \cup excused' /\ excused \subseteq excused'
        BY <2>1, <2>5, <3>1
      <3> QED BY <2>1, <2>6, <3>1, <3>2 DEF DurabilityInv, CompactionIsComplete, Reflects, Gone
    <2>11. LoadIsComplete'
      BY <2>3, <2>4 DEF LoadIsComplete
    <2> QED BY <2>7, <2>8, <2>9, <2>10, <2>11 DEF DurabilityInv
  <1>2. CASE AppendFails(c)
    <2>1. wal \in Seq(Line \cup {Torn})
      BY DEF TypeOK
    <2>2. Reachable(wal) \subseteq Reachable(wal)'
      BY <1>2, <2>1, ReachedGrows DEF AppendFails
    <2>3. pc[c] = "append" /\ Finish(c, FALSE) /\ Same /\ excused' = excused
      BY <1>2 DEF AppendFails
    <2>4. \A d \in Clients : pc[d] # "load"
      BY <2>3 DEF DurabilityInv, LoadingAlone
    <2> QED BY <2>2, <2>3, <2>4, FinishIsQuiet, QuietStep
  <1>3. CASE AppendRefused(c)
    <2>1. /\ pc[c] = "append" /\ Finish(c, FALSE) /\ Same /\ excused' = excused /\ wal' = wal
      BY <1>3 DEF AppendRefused, disk, memory
    <2>2. \A d \in Clients : pc[d] # "load"
      BY <2>1 DEF DurabilityInv, LoadingAlone
    <2> QED BY <2>1, <2>2, FinishIsQuiet, QuietStep
  <1>4. CASE ApplyRecord(c)
    <2>1. /\ pc[c] = "apply" /\ mem' = Apply(mem, Head(todo[c]))
          /\ pc' = [pc EXCEPT ![c] = "stat"]
          /\ UNCHANGED <<primary, backup, tmp, wal, loaded, todo, payload, acked, excused,
                         unseen>>
      BY <1>4 DEF ApplyRecord, disk, ghosts
    <2>2. mem'.lsns = mem.lsns \cup {Head(todo[c]).lsn}
      <3>1. todo[c] \in Seq(Line) /\ todo[c] # <<>>
        BY <2>1 DEF TypeOK
      <3>2. Head(todo[c]) \in Line
        BY <3>1
      <3> QED BY <2>1, <3>2, ApplyFacts DEF TypeOK
    <2>3. pc'[c] = "stat" /\ \A d \in Clients \ {c} : pc'[d] = pc[d]
      BY <2>1 DEF TypeOK
    <2>4. Owed' \subseteq Owed /\ Known' \subseteq Known \cup {Head(todo[c]).lsn}
      BY <2>1, <2>3 DEF Known, Owed, InFlight, Applied, Compacting, Persisting
    <2>5. LoadingAlone' /\ \A d \in Clients : pc'[d] # "load"
      BY <2>1, <2>3 DEF DurabilityInv, LoadingAlone
    <2>6. OwedIsDurable'
      BY <2>1, <2>4 DEF DurabilityInv, OwedIsDurable, CoveredBy
    <2>7. KnownIsVisible'
      BY <2>1, <2>2, <2>4 DEF DurabilityInv, KnownIsVisible, Gone
    <2>8. CompactionIsComplete'
      BY <2>1, <2>3, <2>4
         DEF DurabilityInv, CompactionIsComplete, Reflects, Gone, Compacting, Persisting
    <2> QED BY <2>5, <2>6, <2>7, <2>8 DEF DurabilityInv, LoadIsComplete
  <1>5. CASE StatWal(c) \/ StatFails(c)
    <2>1. /\ pc[c] = "stat" /\ Same /\ excused' = excused /\ wal' = wal
          /\ Continue(c) \/ Finish(c, FALSE)
      BY <1>5 DEF StatWal, StatFails, disk, memory
    <2>2. \A d \in Clients : pc[d] # "load"
      BY <2>1 DEF DurabilityInv, LoadingAlone
    <2> QED BY <2>1, <2>2, FinishIsQuiet, QuietStep DEF Applied
  <1> QED BY <1>1, <1>2, <1>3, <1>4, <1>5 DEF Durably

\* compact(): the payload holds what is owed, or the missing part is excused, and
\* the log is emptied only when both files have it.
LEMMA CompactKeeps ==
    ASSUME TypeOK, DurabilityInv, NEW c \in Clients, Compact(c)
    PROVE  DurabilityInv'
  <1>0. ASSUME pc[c] \in Persisting \cup {"stat", "mkdir"}
        PROVE  \A d \in Clients : pc[d] # "load"
    BY <1>0 DEF DurabilityInv, LoadingAlone, Persisting
  <1>1. CASE Capture(c)
    <2>1. /\ pc[c] = "mkdir" /\ mem' = Prune(mem)
          /\ payload' = [payload EXCEPT ![c] = Prune(mem)]
          /\ excused' = excused \cup InFlight
          /\ pc' = [pc EXCEPT ![c] = "tmp"]
          /\ UNCHANGED <<primary, backup, tmp, wal, loaded, todo, acked, unseen>>
      BY <1>1 DEF Capture, disk
    <2>2. Prune(mem).lsns = mem.lsns
      BY PruneFacts DEF TypeOK
    <2>3. pc'[c] = "tmp" /\ \A d \in Clients \ {c} : pc'[d] = pc[d] /\ payload'[d] = payload[d]
      BY <2>1 DEF TypeOK
    <2>4. Known' = Known /\ Owed' = Owed
      BY <2>1, <2>3 DEF Known, Owed, InFlight, Applied, Compacting, Persisting
    <2>5. loaded /\ LoadingAlone' /\ \A d \in Clients : pc'[d] # "load"
      BY <1>0, <2>1, <2>3 DEF DurabilityInv, LoadingAlone
    <2>6. OwedIsDurable' /\ KnownIsVisible'
      BY <2>1, <2>2, <2>4 DEF DurabilityInv, OwedIsDurable, KnownIsVisible, CoveredBy, Gone
    <2>7. payload'[c] = Prune(mem)
      BY <2>1 DEF TypeOK
    <2>8. Owed' \subseteq payload'[c].lsns \cup Gone'
      BY <2>1, <2>2, <2>4, <2>5, <2>7 DEF DurabilityInv, KnownIsVisible, Owed, Gone
    <2>9. CompactionIsComplete'
      BY <2>1, <2>3, <2>4, <2>8
         DEF DurabilityInv, CompactionIsComplete, Reflects, Gone, Compacting, Persisting
    <2> QED BY <2>5, <2>6, <2>9 DEF DurabilityInv, LoadIsComplete
  <1> DEFINE MovesTo(to) ==
               /\ pc' = [pc EXCEPT ![c] = to] /\ pc[c] \in Persisting
               /\ excused \subseteq excused'
               /\ UNCHANGED <<mem, loaded, todo, payload, acked, unseen, wal>>
  <1>2. ASSUME NEW to \in Persisting, MovesTo(to)
        PROVE  /\ pc'[c] = to /\ \A d \in Clients \ {c} : pc'[d] = pc[d]
               /\ Owed' = Owed
               /\ LoadingAlone' /\ KnownIsVisible' /\ LoadIsComplete'
    <2>1. pc'[c] = to /\ \A d \in Clients \ {c} : pc'[d] = pc[d]
      BY <1>2 DEF TypeOK
    <2>2. Known' = Known /\ Owed' = Owed
      BY <1>2, <2>1 DEF Known, Owed, InFlight, Applied, Compacting, Persisting
    <2>3. LoadingAlone' /\ KnownIsVisible' /\ LoadIsComplete'
      BY <1>0, <1>2, <2>1, <2>2
         DEF DurabilityInv, LoadingAlone, KnownIsVisible, Gone, LoadIsComplete, Persisting
    <2> QED BY <2>1, <2>2, <2>3
  <1>3. CASE WriteTmp(c)
    <2>1. /\ MovesTo("rename") /\ tmp' = payload[c] /\ pc[c] = "tmp"
          /\ UNCHANGED <<primary, backup, excused>>
      BY <1>3 DEF WriteTmp, memory, ghosts, Persisting
    <2>2. "rename" \in Persisting
      BY DEF Persisting
    <2>3. OwedIsDurable'
      BY <1>2, <2>1, <2>2 DEF DurabilityInv, OwedIsDurable, CoveredBy
    <2>4. CompactionIsComplete'
      BY <1>2, <2>1, <2>2
         DEF DurabilityInv, CompactionIsComplete, Reflects, Gone, Compacting, Persisting
    <2> QED BY <1>2, <2>1, <2>2, <2>3, <2>4 DEF DurabilityInv
  <1>4. CASE RenameTmp(c)
    <2>1. /\ MovesTo("backup") /\ pc[c] = "rename"
          /\ tmp # Missing /\ primary' = tmp /\ tmp' = Missing /\ backup' = backup
          /\ excused' = excused \cup (unseen \ Reachable(wal))
      BY <1>4 DEF RenameTmp, memory, Persisting
    <2>2. "backup" \in Persisting
      BY DEF Persisting
    <2>3. Reflects(tmp)
      BY <2>1 DEF DurabilityInv, CompactionIsComplete
    <2>4. OwedIsDurable'
      BY <1>2, <2>1, <2>2, <2>3
         DEF DurabilityInv, OwedIsDurable, CoveredBy, Reflects, Gone, Usable
    <2>5. CompactionIsComplete'
      BY <1>2, <2>1, <2>2, <2>3
         DEF DurabilityInv, CompactionIsComplete, Reflects, Gone, Compacting, Persisting, Usable
    <2> QED BY <1>2, <2>1, <2>2, <2>4, <2>5 DEF DurabilityInv
  <1>5. CASE WriteBackup(c)
    <2>1. /\ MovesTo("truncate") /\ pc[c] = "backup"
          /\ backup' = payload[c] /\ UNCHANGED <<primary, tmp, excused>>
      BY <1>5 DEF WriteBackup, memory, ghosts, Persisting
    <2>2. "truncate" \in Persisting
      BY DEF Persisting
    <2>3. /\ Owed \subseteq payload[c].lsns \cup Gone
          /\ unseen \subseteq excused \cup Reachable(wal)
      BY <2>1 DEF DurabilityInv, CompactionIsComplete, Compacting, Persisting
    <2>4. payload[c] # Missing
      BY FileAssumption DEF TypeOK
    <2>5. OwedIsDurable'
      BY <1>2, <2>1, <2>2, <2>3, <2>4
         DEF DurabilityInv, OwedIsDurable, CoveredBy, Gone, Usable
    <2>6. CompactionIsComplete'
      BY <1>2, <2>1, <2>2, <2>3, <2>4
         DEF DurabilityInv, CompactionIsComplete, Reflects, Gone, Compacting, Persisting
    <2> QED BY <1>2, <2>1, <2>2, <2>5, <2>6 DEF DurabilityInv
  <1>6. CASE TruncateWal(c)
    <2>1. /\ pc[c] = "truncate" /\ Continue(c)
          /\ payload' = [payload EXCEPT ![c] = Empty]
          /\ excused' = excused \cup unseen /\ unseen' = {}
          /\ UNCHANGED <<primary, backup, tmp, mem, loaded>>
      BY <1>6 DEF TruncateWal
    <2>2. /\ Known' \subseteq Known /\ Owed' \subseteq Owed /\ LoadingAlone'
          /\ \A d \in Clients : pc'[d] \in Persisting \cup {"load"} => pc'[d] = pc[d] /\ d # c
      BY <2>1, FinishIsQuiet DEF Applied, Compacting, Persisting
    <2>3. \A d \in Clients \ {c} : payload'[d] = payload[d]
      BY <2>1 DEF TypeOK
    <2>4. primary # Missing /\ Reflects(primary) /\ backup # Missing /\ Reflects(backup)
      BY <2>1 DEF DurabilityInv, CompactionIsComplete
    <2>5. OwedIsDurable'
      BY <2>1, <2>2, <2>4 DEF OwedIsDurable, CoveredBy, Reflects, Gone, Usable
    <2>6. KnownIsVisible'
      BY <2>1, <2>2 DEF DurabilityInv, KnownIsVisible, Gone
    <2>7. CompactionIsComplete'
      BY <2>1, <2>2, <2>3
         DEF DurabilityInv, CompactionIsComplete, Reflects, Gone, Compacting, Persisting
    <2>8. LoadIsComplete'
      BY <1>0, <2>1, <2>2 DEF LoadIsComplete, Persisting
    <2> QED BY <2>2, <2>5, <2>6, <2>7, <2>8 DEF DurabilityInv
  <1>7. CASE CompactFails(c)
    <2>1. /\ Compacting(c) /\ Finish(c, FALSE)
          /\ tmp' \in {tmp, Corrupt} /\ backup' \in {backup, Corrupt}
          /\ payload' = [payload EXCEPT ![c] = Empty]
          /\ UNCHANGED <<primary, wal, mem, loaded, excused, unseen>>
      BY <1>7 DEF CompactFails, Compacting, Persisting
    <2>2. /\ Known' \subseteq Known /\ Owed' \subseteq Owed /\ LoadingAlone'
          /\ \A d \in Clients : pc'[d] \in Persisting \cup {"load"} => pc'[d] = pc[d] /\ d # c
      BY <2>1, FinishIsQuiet DEF Applied, Compacting, Persisting
    <2>3. \A d \in Clients : pc'[d] \in Persisting => payload'[d] = payload[d]
      BY <2>1, <2>2 DEF TypeOK
    <2>4. \A d \in Clients : pc[d] # "load"
      BY <1>0, <2>1 DEF Compacting
    <2> QED BY <2>1, <2>2, <2>3, <2>4, QuietStep
  <1>8. CASE BeginCompact(c)
    <2>1. /\ pc[c] = "stat" /\ pc' = [pc EXCEPT ![c] = "mkdir"]
          /\ UNCHANGED <<primary, backup, tmp, wal, mem, loaded, todo, payload, acked, excused,
                         unseen>>
      BY <1>8 DEF BeginCompact, disk, memory, ghosts
    <2>2. pc'[c] = "mkdir" /\ \A d \in Clients \ {c} : pc'[d] = pc[d]
      BY <2>1 DEF TypeOK
    <2>3. Known' = Known /\ Owed' = Owed
      BY <2>1, <2>2 DEF Known, Owed, InFlight, Applied, Compacting, Persisting
    <2>4. LoadingAlone' /\ \A d \in Clients : pc[d] # "load"
      BY <1>0, <2>1, <2>2 DEF DurabilityInv, LoadingAlone
    <2>5. \A d \in Clients : pc'[d] \in Persisting \cup {"load"} => pc'[d] = pc[d]
      BY <2>2 DEF Persisting
    <2> QED BY <2>1, <2>3, <2>4, <2>5, QuietStep
  <1>9. CASE MkdirFails(c)
    <2>1. /\ pc[c] = "mkdir" /\ Finish(c, FALSE) /\ excused' = excused /\ unseen' = unseen
          /\ UNCHANGED <<primary, backup, tmp, wal, mem, loaded, payload>>
      BY <1>9 DEF MkdirFails, disk, memory
    <2>2. \A d \in Clients : pc[d] # "load"
      BY <1>0, <2>1
    <2> QED BY <2>1, <2>2, FinishIsQuiet, QuietStep DEF Applied
  <1> QED BY <1>1, <1>3, <1>4, <1>5, <1>6, <1>7, <1>8, <1>9 DEF Compact

\* Readers, time, crashes and disk faults.
LEMMA EnvironmentKeeps ==
    ASSUME TypeOK, DurabilityInv, Read \/ Tick \/ Crash \/ SnapshotRots
    PROVE  DurabilityInv'
  <1>1. CASE Read \/ Tick
    <2>1. /\ UNCHANGED <<primary, backup, tmp, wal, loaded, pc, todo, payload, replay, acked,
                         excused, unseen>>
          /\ mem' = Prune(mem) \/ mem' = mem
      BY <1>1 DEF Read, Tick, disk, memory, locals, ghosts
    <2>2. mem'.lsns = mem.lsns
      BY <2>1, PruneFacts DEF TypeOK
    <2>3. Known' = Known /\ Owed' = Owed /\ LoadingAlone'
      BY <2>1 DEF DurabilityInv, LoadingAlone, Known, Owed, InFlight, Applied, Compacting
    <2>4. Reachable(wal)' = Reachable(wal)
      BY <2>1
    <2> QED BY <2>1, <2>2, <2>3, <2>4, QuietStep
  <1>2. CASE Crash
    <2>1. /\ wal' = wal \/ wal' = Append(wal, Torn)
          /\ backup' \in {backup, Corrupt} /\ ~loaded'
          /\ pc' = [c \in Clients |-> "idle"]
          /\ UNCHANGED <<primary, tmp, acked, excused>>
      BY <1>2 DEF Crash
    <2>2. \A c \in Clients : pc'[c] = "idle"
      BY <2>1
    <2>3. Owed' = acked /\ acked \subseteq Owed
      BY <2>1, <2>2 DEF Owed, Known, InFlight, Applied, Compacting, Persisting
    <2>4. wal \in Seq(Line \cup {Torn})
      BY DEF TypeOK
    <2>5. Reachable(wal) \subseteq Reachable(wal')
      BY <2>1, <2>4, ReachedGrows
    <2>6. OwedIsDurable'
      BY <2>1, <2>3, <2>5 DEF DurabilityInv, OwedIsDurable, CoveredBy, Usable
    <2>7. LoadingAlone' /\ KnownIsVisible' /\ CompactionIsComplete' /\ LoadIsComplete'
      BY <2>1, <2>2 DEF LoadingAlone, KnownIsVisible, CompactionIsComplete, LoadIsComplete,
                        Compacting, Persisting
    <2> QED BY <2>6, <2>7 DEF DurabilityInv
  <1>3. CASE SnapshotRots
    <2>1. /\ ~loaded /\ \A c \in Clients : pc[c] = "idle"
          /\ primary' = Corrupt
          /\ UNCHANGED <<backup, tmp, wal, mem, loaded, pc, todo, acked, excused>>
      BY <1>3 DEF SnapshotRots, memory, locals
    <2>2. Owed' = Owed
      BY <2>1 DEF Owed, Known, InFlight, Applied, Compacting
    <2>3. OwedIsDurable'
      BY <2>1, <2>2 DEF DurabilityInv, OwedIsDurable, CoveredBy
    <2>4. LoadingAlone' /\ KnownIsVisible' /\ CompactionIsComplete' /\ LoadIsComplete'
      BY <2>1 DEF LoadingAlone, KnownIsVisible, CompactionIsComplete, LoadIsComplete,
                  Compacting, Persisting
    <2> QED BY <2>3, <2>4 DEF DurabilityInv
  <1> QED BY <1>1, <1>2, <1>3

\* Nothing is owed before the first call.
LEMMA DurabilityInit == Init => DurabilityInv
  <1> SUFFICES ASSUME Init PROVE DurabilityInv
    OBVIOUS
  <1>1. /\ ~loaded /\ acked = {} /\ \A c \in Clients : pc[c] = "idle"
    BY DEF Init
  <1>2. Owed = {} /\ Known = {}
    BY <1>1 DEF Owed, Known, InFlight, Applied, Compacting, Persisting
  <1> QED BY <1>1, <1>2 DEF DurabilityInv, LoadingAlone, OwedIsDurable, KnownIsVisible, Applied,
                            CompactionIsComplete, LoadIsComplete, Compacting, Persisting

\* The durability invariant is inductive.
LEMMA DurabilityStep == TypeOK /\ DurabilityInv /\ [Next]_vars => DurabilityInv'
  <1> SUFFICES ASSUME TypeOK, DurabilityInv, [Next]_vars PROVE DurabilityInv'
    OBVIOUS
  <1>1. ASSUME NEW c \in Clients, Call(c) PROVE DurabilityInv'
    BY <1>1, StartIsQuiet DEF Call, WriteEpisode, DropEpisode, ReinforceEpisode,
                              RewriteEpisode, TouchConcepts
  <1>2. CASE Next
    BY <1>1, <1>2, LoadKeeps, DurablyKeeps, CompactKeeps, EnvironmentKeeps DEF Next
  <1>3. CASE UNCHANGED vars
    BY <1>3 DEF vars, disk, memory, locals, ghosts, DurabilityInv, LoadingAlone,
                OwedIsDurable, KnownIsVisible, CompactionIsComplete, LoadIsComplete,
                CoveredBy, Reflects, Gone, Owed, Known, InFlight, Applied, Compacting
  <1> QED BY <1>2, <1>3

\* It gives the two properties that callers rely on.
LEMMA DurabilityImplies ==
    DurabilityInv => AckedIsDurable /\ AckedIsVisible
  BY DEF DurabilityInv, OwedIsDurable, KnownIsVisible, Owed, Known, AckedIsDurable,
         AckedIsVisible, Gone

\* What compact() relies on, the inductive invariant, holds throughout.
THEOREM Durability == Spec => []DurabilityInv
  BY InitTypes, DurabilityInit, TypeStep, DurabilityStep, PTL DEF Spec

\* A record whose call returned can be recovered from the log with the snapshot,
\* or with its backup, unless it is excused: whatever the callers, wherever the
\* process dies and whichever file operation, a read of a load included, fails.
THEOREM AckedDurable == Spec => []AckedIsDurable
  BY Durability, DurabilityImplies, PTL

\* Such a record is in the Maps whenever they are loaded, under the same proviso, unless
\* they were loaded without the file that has it.
THEOREM AckedVisible == Spec => []AckedIsVisible
  BY Durability, DurabilityImplies, PTL

-----------------------------------------------------------------------------
(* Capacity *)

\* The records a call has still to apply, whether it still has an episode to write, and the
\* episodes it has still to evict.
Unapplied(c) == IF pc[c] \in {"append", "apply"} THEN 1..Len(todo[c]) ELSE 2..Len(todo[c])
Writing(c) == pc[c] \notin {"idle", "load"} /\ \E i \in Unapplied(c) : todo[c][i].op = "write"
Writers == {c \in Clients : Writing(c)}
Leaving(c) == {todo[c][i].id : i \in {j \in Unapplied(c) : todo[c][j].op = "drop"}}
Staying(S) == {e \in Live(mem) : \A c \in S : e \notin Leaving(c)}

\* Evictions come before the record of the call.
DropsComeFirst == \A c \in Clients : \A i \in 1..Len(todo[c]) :
                     todo[c][i].op # "drop" => i = Len(todo[c])

\* Whichever of the calls under way are the next to end, there is room for an episode of
\* each: the one among them that began last has counted what the others had written by
\* then, and evicts enough.
Room == \A S \in SUBSET Writers :
           S # {} => Cardinality(Staying(S)) + Cardinality(S)
                       <= MaxEpisodes - 1 + Cardinality(Clients)

CapacityInv == DropsComeFirst /\ Room

\* The counts are of finite sets.
LEMMA Counts ==
    /\ \A S \in SUBSET Clients : IsFiniteSet(S) /\ Cardinality(S) \in Nat
    /\ \A T \in SUBSET Episodes : IsFiniteSet(T) /\ Cardinality(T) \in Nat
    /\ MaxEpisodes \in Nat \ {0} /\ Cardinality(Clients) \in Nat
  <1>1. ASSUME NEW U, IsFiniteSet(U), NEW S \in SUBSET U
        PROVE  IsFiniteSet(S) /\ Cardinality(S) \in Nat
    BY <1>1, FS_Subset, FS_CardinalityType
  <1>2. IsFiniteSet(Clients) /\ IsFiniteSet(Episodes) /\ MaxEpisodes \in Nat \ {0}
    BY StoreAssumption
  <1> QED BY <1>1, <1>2, FS_CardinalityType

\* Steps that write no episode and begin no write.
LEMMA RoomIsKept ==
    ASSUME Room, Live(mem') \subseteq Live(mem),
           \A c \in Clients : Writing(c)' => Writing(c) /\ Live(mem') \cap Leaving(c) \subseteq Leaving(c)'
    PROVE  Room'
  <1> SUFFICES ASSUME NEW S \in SUBSET Writers', S # {}
               PROVE  Cardinality(Staying(S)') + Cardinality(S)
                        <= MaxEpisodes - 1 + Cardinality(Clients)
    BY DEF Room
  <1>1. S \subseteq Clients /\ S \subseteq Writers
    BY DEF Writers
  <1>2. Staying(S)' \subseteq Staying(S) /\ Staying(S) \subseteq Episodes
    BY <1>1 DEF Staying, Writers, Live
  <1>3. /\ Cardinality(Staying(S)') <= Cardinality(Staying(S))
        /\ Cardinality(Staying(S)) \in Nat /\ Cardinality(Staying(S)') \in Nat
    BY <1>2, Counts, FS_Subset
  <1>4. Cardinality(Staying(S)) + Cardinality(S) <= MaxEpisodes - 1 + Cardinality(Clients)
    BY <1>1 DEF Room
  <1>5. Cardinality(S) \in Nat
    BY <1>1, Counts
  <1> QED BY <1>3, <1>4, <1>5, Counts

\* The records of a call are left behind, as they are, or but for the first of them.
LEMMA CallGoesOn ==
    ASSUME TypeOK, CapacityInv, NEW c \in Clients, Live(mem') \subseteq Live(mem),
           \A d \in Clients \ {c} : pc'[d] = pc[d] /\ todo'[d] = todo[d],
           \/ pc'[c] \in {"idle", "load"} /\ (todo'[c] = <<>> \/ todo'[c] = todo[c])
           \/ pc[c] \notin {"idle", "load", "append", "apply"} /\ pc'[c] \notin {"append", "apply"}
              /\ todo'[c] = todo[c]
           \/ pc[c] \notin {"idle", "load", "append", "apply"} /\ pc'[c] = "append"
              /\ todo'[c] = Tail(todo[c]) /\ Len(todo[c]) > 1
    PROVE  CapacityInv'
  <1>1. todo[c] \in Seq(Line) /\ Len(todo[c]) \in Nat
    BY DEF TypeOK
  <1>2. ASSUME NEW d \in Clients \ {c}
        PROVE  /\ \A i \in 1..Len(todo'[d]) : todo'[d][i].op # "drop" => i = Len(todo'[d])
               /\ Writing(d)' = Writing(d) /\ Leaving(d)' = Leaving(d)
    BY DEF CapacityInv, DropsComeFirst, Writing, Leaving, Unapplied
  <1>3. /\ \A i \in 1..Len(todo'[c]) : todo'[c][i].op # "drop" => i = Len(todo'[c])
        /\ Writing(c)' => Writing(c) /\ Leaving(c) \subseteq Leaving(c)'
    <2>1. CASE pc'[c] \in {"idle", "load"} /\ (todo'[c] = <<>> \/ todo'[c] = todo[c])
      BY <2>1 DEF CapacityInv, DropsComeFirst, Writing
    <2>2. CASE pc[c] \notin {"idle", "load", "append", "apply"} /\ pc'[c] \notin {"append", "apply"}
               /\ todo'[c] = todo[c]
      BY <2>2 DEF CapacityInv, DropsComeFirst, Writing, Leaving, Unapplied
    <2>3. CASE pc[c] \notin {"idle", "load", "append", "apply"} /\ pc'[c] = "append"
               /\ todo'[c] = Tail(todo[c]) /\ Len(todo[c]) > 1
      <3> DEFINE n == Len(todo[c])
      <3>1. /\ Len(todo'[c]) = n - 1
            /\ \A i \in 1..(n - 1) : todo'[c][i] = todo[c][i + 1]
        BY <1>1, <2>3
      <3>2. \A i \in 1..(n - 1) : todo'[c][i].op # "drop" => i = n - 1
        BY <1>1, <3>1 DEF CapacityInv, DropsComeFirst
      <3>3. Unapplied(c) = 2..n /\ Unapplied(c)' = 1..(n - 1)
        BY <2>3, <3>1 DEF Unapplied
      <3>4. Writing(c)' => Writing(c)
        <4> SUFFICES ASSUME NEW i \in 1..(n - 1), todo'[c][i].op = "write"
                     PROVE  \E j \in 2..n : todo[c][j].op = "write"
          BY <2>3, <3>3 DEF Writing
        <4>1. i + 1 \in 2..n /\ todo[c][i + 1].op = "write"
          BY <1>1, <3>1
        <4> QED BY <4>1
      <3>5. Leaving(c) \subseteq Leaving(c)'
        <4> SUFFICES ASSUME NEW j \in 2..n, todo[c][j].op = "drop"
                     PROVE  \E i \in 1..(n - 1) : todo'[c][i].op = "drop" /\ todo'[c][i].id = todo[c][j].id
          BY <3>3 DEF Leaving
        <4>1. j - 1 \in 1..(n - 1) /\ todo'[c][j - 1] = todo[c][j]
          BY <1>1, <3>1
        <4> QED BY <4>1
      <3> QED BY <3>1, <3>2, <3>4, <3>5
    <2> QED BY <2>1, <2>2, <2>3
  <1>4. DropsComeFirst'
    BY <1>2, <1>3 DEF DropsComeFirst
  <1>5. \A d \in Clients : Writing(d)' => Writing(d) /\ Live(mem') \cap Leaving(d) \subseteq Leaving(d)'
    BY <1>2, <1>3
  <1> QED BY <1>4, <1>5, RoomIsKept DEF CapacityInv

\* What applying a record does to the set of episodes.
LEMMA ApplyLive ==
    ASSUME NEW st \in State, NEW r \in Line
    PROVE  /\ r.op = "write" => Live(Apply(st, r)) \subseteq Live(st) \cup {r.id}
           /\ r.op = "drop" => Live(Apply(st, r)) \subseteq Live(st) \ {r.id}
           /\ r.op \notin {"write", "drop"} => Live(Apply(st, r)) \subseteq Live(st)
  <1>1. \A e \in Episodes : Apply(st, r).eps[e] = IF e = r.id THEN Changed(st.eps[e], r) ELSE st.eps[e]
    BY DEF Apply
  <1>2. r.op = "drop" => Changed(st.eps[r.id], r) = Absent
    BY DEF Changed
  <1>3. r.op \notin {"write", "drop"} /\ st.eps[r.id] = Absent => Changed(st.eps[r.id], r) = Absent
    BY DEF Changed
  <1> QED BY <1>1, <1>2, <1>3 DEF Live

LEMMA PruneLive ==
    ASSUME NEW st \in State
    PROVE  Live(Prune(st)) \subseteq Live(st)
  BY DEF Prune, Drop, Live

\* A write counts the episodes of the Maps and plans to evict all but MaxEpisodes - 1.
LEMMA OrderMakesRoom ==
    ASSUME NEW order \in EvictionOrders
    PROVE  /\ Len(order) \in Nat
           /\ Cardinality({e \in Live(mem) : \A i \in 1..Len(order) : order[i] # e}) <= MaxEpisodes - 1
  <1> DEFINE live == Live(mem)
             n == Cardinality(live) - MaxEpisodes + 1
             gone == {e \in live : \E i \in 1..Len(order) : order[i] = e}
             rest == {e \in live : \A i \in 1..Len(order) : order[i] # e}
  <1>1. live \subseteq Episodes /\ IsFiniteSet(live) /\ Cardinality(live) \in Nat
    BY Counts DEF Live
  <1>2. CASE n <= 0
    <2>1. order = <<>>
      BY <1>2 DEF EvictionOrders
    <2>2. Len(order) = 0 /\ rest = live
      BY <2>1
    <2>3. Cardinality(live) <= MaxEpisodes - 1
      BY <1>1, <1>2, Counts
    <2>4. Cardinality(rest) <= MaxEpisodes - 1
      <3> HIDE DEF rest, live
      <3> QED BY <2>2, <2>3
    <2>5. Len(order) \in Nat
      BY <2>2
    <2> QED BY <2>4, <2>5
  <1>3. CASE ~(n <= 0)
    <2>1. order \in [1..n -> live] /\ \A i, j \in 1..n : i < j => order[i] # order[j]
      BY <1>3 DEF EvictionOrders
    <2>2. n \in Nat
      BY <1>1, <1>3, Counts
    <2> HIDE DEF n, live
    <2>3. Len(order) = n
      BY <2>1, <2>2
    <2>4. order \in Bijection(1..n, gone)
      <3>1. order \in [1..n -> gone]
        BY <2>1, <2>2, <2>3
      <3>2. \A i, j \in 1..n : i # j => order[i] # order[j]
        <4> SUFFICES ASSUME NEW i \in 1..n, NEW j \in 1..n, i # j PROVE order[i] # order[j]
          OBVIOUS
        <4>1. i < j \/ j < i
          BY <2>2
        <4> QED BY <2>1, <4>1
      <3>3. \A e \in gone : \E i \in 1..n : order[i] = e
        BY <2>3
      <3> HIDE DEF gone
      <3>4. order \in Injection(1..n, gone)
        BY <3>1, <3>2 DEF Injection, IsInjective
      <3>5. order \in Surjection(1..n, gone)
        BY <3>1, <3>3 DEF Surjection
      <3> QED BY <3>4, <3>5 DEF Bijection
    <2>5. IsFiniteSet(gone) /\ Cardinality(gone) = n
      <3>1. IsFiniteSet(1..n) /\ Cardinality(1..n) = n
        BY <2>2, FS_Interval
      <3>2. ExistsBijection(1..n, gone)
        BY <2>4 DEF ExistsBijection
      <3> QED BY <3>1, <3>2, FS_Bijection
    <2>6. IsFiniteSet(rest) /\ Cardinality(rest) \in Nat
      BY <1>1, FS_Subset, FS_CardinalityType
    <2>7. gone \cup rest = live /\ gone \cap rest = {}
      OBVIOUS
    <2>8. Cardinality(live) = n + Cardinality(rest)
      <3>1. Cardinality(gone \cup rest) = Cardinality(gone) + Cardinality(rest) - Cardinality(gone \cap rest)
        BY <2>5, <2>6, FS_Union
      <3>2. Cardinality({}) = 0
        BY FS_EmptySet
      <3> HIDE DEF gone, rest
      <3>3. Cardinality(live) = Cardinality(gone) + Cardinality(rest) - 0
        BY <2>7, <3>1, <3>2
      <3> QED BY <2>2, <2>5, <2>6, <3>3
    <2>9. n = Cardinality(live) - MaxEpisodes + 1
      BY DEF n
    <2>10. Cardinality(rest) <= MaxEpisodes - 1
      <3> HIDE DEF rest
      <3> QED BY <1>1, <2>2, <2>6, <2>8, <2>9, Counts
    <2> QED BY <2>2, <2>3, <2>10 DEF live
  <1> QED BY <1>2, <1>3

\* A call that begins.
LEMMA WriteMakesRoom ==
    ASSUME TypeOK, CapacityInv, NEW c \in Clients, NEW id \in Episodes, NEW ttl \in Ttls,
           WriteEpisode(c, id, ttl)
    PROVE  CapacityInv'
  <1>1. PICK order \in EvictionOrders :
          Start(c, [i \in 1..Len(order) |-> Record("drop", order[i], 0, 0)]
                   \o <<Record("write", id, now + ttl, ReviewAt(ttl))>>)
    BY DEF WriteEpisode
  <1> DEFINE n == Len(order)
             drops == [i \in 1..n |-> Record("drop", order[i], 0, 0)]
             last == Record("write", id, now + ttl, ReviewAt(ttl))
             records == drops \o <<last>>
  <1>2. n \in Nat /\ Cardinality({e \in Live(mem) : \A i \in 1..n : order[i] # e}) <= MaxEpisodes - 1
    BY OrderMakesRoom
  <1>3. /\ Len(records) = n + 1 /\ records[n + 1].op = "write"
        /\ \A i \in 1..n : records[i].op = "drop" /\ records[i].id = order[i]
    <2>1. \A i \in 1..n : drops[i].op = "drop" /\ drops[i].id = order[i]
      BY DEF Record
    <2>2. drops \in Seq({drops[i] : i \in 1..n}) /\ Len(drops) = n
      BY <1>2
    <2>3. last.op = "write"
      BY DEF Record
    <2> HIDE DEF n, drops, last
    <2>4. /\ Len(records) = n + 1 /\ records[n + 1] = last
          /\ \A i \in 1..n : records[i] = drops[i]
      BY <1>2, <2>2
    <2> QED BY <2>1, <2>3, <2>4
  <1>4. /\ pc' = [pc EXCEPT ![c] = "append"] /\ todo' = [todo EXCEPT ![c] = records]
        /\ pc[c] = "idle" /\ mem' = mem
    BY <1>1 DEF Start, memory
  <1> HIDE DEF n, drops, last, records
  <1>5. /\ pc'[c] = "append" /\ todo'[c] = records
        /\ \A d \in Clients \ {c} : pc'[d] = pc[d] /\ todo'[d] = todo[d]
    BY <1>4 DEF TypeOK
  <1>6. \A d \in Clients \ {c} : Writing(d)' = Writing(d) /\ Leaving(d)' = Leaving(d)
    BY <1>5 DEF Writing, Leaving, Unapplied
  <1>7. DropsComeFirst'
    <2>1. \A i \in 1..(n + 1) : records[i].op # "drop" => i = n + 1
      BY <1>2, <1>3
    <2> QED BY <1>3, <1>5, <2>1 DEF CapacityInv, DropsComeFirst
  <1>8. \A i \in 1..n : order[i] \in Leaving(c)'
    <2>1. Unapplied(c)' = 1..(n + 1)
      BY <1>3, <1>5 DEF Unapplied
    <2> SUFFICES ASSUME NEW i \in 1..n PROVE order[i] \in Leaving(c)'
      OBVIOUS
    <2>2. i \in 1..(n + 1) /\ todo'[c][i].op = "drop" /\ todo'[c][i].id = order[i]
      BY <1>2, <1>3, <1>5
    <2> QED BY <2>1, <2>2 DEF Leaving
  <1>9. ASSUME NEW S \in SUBSET Writers', S # {}
        PROVE  Cardinality(Staying(S)') + Cardinality(S) <= MaxEpisodes - 1 + Cardinality(Clients)
    <2>1. S \subseteq Clients
      BY DEF Writers
    <2>2. CASE c \in S
      <3> DEFINE kept == {e \in Live(mem) : \A i \in 1..n : order[i] # e}
      <3>1. Staying(S)' \subseteq kept
        BY <1>4, <1>8, <2>2 DEF Staying
      <3>2. kept \subseteq Episodes
        BY DEF Live
      <3>3. Cardinality(kept) <= MaxEpisodes - 1
        BY <1>2
      <3> HIDE DEF kept
      <3>4. /\ Cardinality(Staying(S)') <= Cardinality(kept)
            /\ Cardinality(kept) \in Nat /\ Cardinality(Staying(S)') \in Nat
        BY <3>1, <3>2, Counts, FS_Subset
      <3>5. Cardinality(S) <= Cardinality(Clients) /\ Cardinality(S) \in Nat
        BY <2>1, Counts, FS_Subset
      <3> QED BY <3>3, <3>4, <3>5, Counts
    <2>3. CASE c \notin S
      <3>1. S \subseteq Writers
        BY <1>6, <2>1, <2>3 DEF Writers
      <3>2. Staying(S)' = Staying(S)
        BY <1>4, <1>6, <2>1, <2>3 DEF Staying
      <3> QED BY <1>9, <3>1, <3>2 DEF CapacityInv, Room
    <2> QED BY <2>2, <2>3
  <1>10. Room'
    BY <1>9 DEF Room
  <1> QED BY <1>7, <1>10 DEF CapacityInv

\* A call that writes no episode changes the room of none.
LEMMA StartKeepsRoom ==
    ASSUME TypeOK, CapacityInv, NEW c \in Clients, NEW r, r.op # "write", Start(c, <<r>>)
    PROVE  CapacityInv'
  <1>1. /\ pc' = [pc EXCEPT ![c] = "append"] /\ todo' = [todo EXCEPT ![c] = <<r>>] /\ mem' = mem
    BY DEF Start, memory
  <1>2. /\ pc'[c] = "append" /\ todo'[c] = <<r>>
        /\ \A d \in Clients \ {c} : pc'[d] = pc[d] /\ todo'[d] = todo[d]
    BY <1>1 DEF TypeOK
  <1>3. Len(<<r>>) = 1 /\ <<r>>[1] = r
    OBVIOUS
  <1>4. ~Writing(c)'
    BY <1>2, <1>3 DEF Writing, Unapplied
  <1>5. DropsComeFirst'
    <2>1. \A i \in 1..Len(<<r>>) : i = Len(<<r>>)
      BY <1>3
    <2>2. \A d \in Clients \ {c} : \A i \in 1..Len(todo'[d]) :
             todo'[d][i].op # "drop" => i = Len(todo'[d])
      BY <1>2 DEF CapacityInv, DropsComeFirst
    <2> QED BY <1>2, <2>1, <2>2 DEF DropsComeFirst
  <1>6. \A d \in Clients \ {c} : Writing(d)' = Writing(d) /\ Leaving(d)' = Leaving(d)
    BY <1>2 DEF Writing, Leaving, Unapplied
  <1> QED BY <1>1, <1>4, <1>5, <1>6, RoomIsKept DEF CapacityInv

LEMMA CallKeepsRoom ==
    ASSUME TypeOK, CapacityInv, NEW c \in Clients, Call(c)
    PROVE  CapacityInv'
  <1>1. ASSUME NEW r, r.op # "write", Start(c, <<r>>) PROVE CapacityInv'
    BY <1>1, StartKeepsRoom
  <1>2. ASSUME NEW op, op # "write", NEW id, NEW exp, NEW rev, Start(c, <<Record(op, id, exp, rev)>>)
        PROVE  CapacityInv'
    <2>1. Record(op, id, exp, rev).op = op
      BY DEF Record
    <2> QED BY <1>1, <1>2, <2>1
  <1>3. ASSUME NEW id \in Episodes, NEW ttl \in Ttls, WriteEpisode(c, id, ttl) PROVE CapacityInv'
    BY <1>3, WriteMakesRoom
  <1>4. ASSUME NEW id \in Episodes, NEW ttl \in Ttls, ReinforceEpisode(c, id, ttl)
        PROVE  CapacityInv'
    BY <1>2, <1>4 DEF ReinforceEpisode
  <1>5. ASSUME NEW id \in Episodes, DropEpisode(c, id) \/ RewriteEpisode(c, id)
        PROVE  CapacityInv'
    BY <1>2, <1>5 DEF DropEpisode, RewriteEpisode
  <1>6. ASSUME TouchConcepts(c) PROVE CapacityInv'
    BY <1>2, <1>6 DEF TouchConcepts
  <1> QED BY <1>3, <1>4, <1>5, <1>6 DEF Call

\* The record gets its number and nothing else.
LEMMA AppendKeepsRoom ==
    ASSUME TypeOK, CapacityInv, NEW c \in Clients, AppendWal(c)
    PROVE  CapacityInv'
  <1> DEFINE r == [Head(todo[c]) EXCEPT !.lsn = lsn + 1]
             n == Len(todo[c])
  <1>1. /\ pc[c] = "append" /\ pc' = [pc EXCEPT ![c] = "apply"]
        /\ todo' = [todo EXCEPT ![c] = <<r>> \o Tail(todo[c])] /\ mem' = mem
    BY DEF AppendWal, memory
  <1>2. todo[c] \in Seq(Line) /\ todo[c] # <<>> /\ n \in Nat \ {0} /\ Head(todo[c]) = todo[c][1]
    <2>1. todo[c] \in Seq(Line) /\ todo[c] # <<>>
      BY <1>1 DEF TypeOK
    <2> QED BY <2>1
  <1>3. r.op = todo[c][1].op /\ r.id = todo[c][1].id
    <2>1. todo[c][1] \in Line
      BY <1>2
    <2> QED BY <1>2, <2>1 DEF Line
  <1> HIDE DEF r
  <1>4. /\ pc'[c] = "apply" /\ todo'[c] = <<r>> \o Tail(todo[c])
        /\ \A d \in Clients \ {c} : pc'[d] = pc[d] /\ todo'[d] = todo[d]
    BY <1>1 DEF TypeOK
  <1>5. /\ Len(todo'[c]) = n
        /\ \A i \in 1..n : todo'[c][i] = IF i = 1 THEN r ELSE todo[c][i]
    <2>1. /\ Tail(todo[c]) \in Seq(Line) /\ Len(Tail(todo[c])) = n - 1
          /\ \A i \in 1..(n - 1) : Tail(todo[c])[i] = todo[c][i + 1]
      BY <1>2
    <2> HIDE DEF n
    <2> DEFINE rest == Tail(todo[c])
    <2>2. rest \in Seq(Line) /\ Len(rest) = n - 1
      BY <2>1
    <2> HIDE DEF rest
    <2>3. /\ Len(<<r>> \o rest) = 1 + Len(rest)
          /\ \A i \in 1..(1 + Len(rest)) : (<<r>> \o rest)[i] = IF i = 1 THEN r ELSE rest[i - 1]
      BY <2>2
    <2> QED BY <1>2, <1>4, <2>1, <2>2, <2>3 DEF rest
  <1>6. \A i \in 1..n : todo'[c][i].op = todo[c][i].op /\ todo'[c][i].id = todo[c][i].id
    BY <1>3, <1>5
  <1>7. /\ \A i \in 1..Len(todo'[c]) : todo'[c][i].op # "drop" => i = Len(todo'[c])
        /\ Writing(c)' = Writing(c) /\ Leaving(c)' = Leaving(c)
    <2>1. Unapplied(c) = 1..n /\ Unapplied(c)' = 1..n
      BY <1>1, <1>4, <1>5 DEF Unapplied
    <2>2. \A i \in 1..n : todo[c][i].op # "drop" => i = n
      BY DEF CapacityInv, DropsComeFirst
    <2>3. Writing(c)' = Writing(c)
      BY <1>1, <1>4, <1>6, <2>1 DEF Writing
    <2>4. Leaving(c)' = Leaving(c)
      <3>1. Leaving(c) = {todo[c][i].id : i \in {j \in 1..n : todo[c][j].op = "drop"}}
        BY <2>1 DEF Leaving
      <3>2. Leaving(c)' = {todo'[c][i].id : i \in {j \in 1..n : todo'[c][j].op = "drop"}}
        BY <2>1 DEF Leaving
      <3> HIDE DEF n
      <3> QED BY <1>6, <3>1, <3>2
    <2> QED BY <1>5, <1>6, <2>2, <2>3, <2>4
  <1>8. \A d \in Clients \ {c} :
           /\ \A i \in 1..Len(todo'[d]) : todo'[d][i].op # "drop" => i = Len(todo'[d])
           /\ Writing(d)' = Writing(d) /\ Leaving(d)' = Leaving(d)
    BY <1>4 DEF CapacityInv, DropsComeFirst, Writing, Leaving, Unapplied
  <1>9. DropsComeFirst'
    BY <1>7, <1>8 DEF DropsComeFirst
  <1> QED BY <1>1, <1>7, <1>8, <1>9, RoomIsKept DEF CapacityInv

\* A write that is applied takes the room that was kept for it.
LEMMA ApplyKeepsRoom ==
    ASSUME TypeOK, CapacityInv, NEW c \in Clients, ApplyRecord(c)
    PROVE  /\ CapacityInv'
           /\ \/ Live(mem') \subseteq Live(mem)
              \/ Cardinality(Live(mem')) <= MaxEpisodes + Cardinality(Clients) - 1
  <1> DEFINE n == Len(todo[c])
             r == Head(todo[c])
  <1>1. /\ pc[c] = "apply" /\ pc' = [pc EXCEPT ![c] = "stat"] /\ todo' = todo
        /\ mem' = Apply(mem, r)
    BY DEF ApplyRecord
  <1>2. todo[c] \in Seq(Line) /\ n \in Nat \ {0} /\ r = todo[c][1] /\ r \in Line /\ mem \in State
    <2>1. todo[c] \in Seq(Line) /\ todo[c] # <<>> /\ mem \in State
      BY <1>1 DEF TypeOK
    <2> QED BY <2>1
  <1>3. /\ pc'[c] = "stat" /\ \A d \in Clients \ {c} : pc'[d] = pc[d]
        /\ Unapplied(c) = 1..n /\ Unapplied(c)' = 2..n
    BY <1>1 DEF TypeOK, Unapplied
  <1>4. DropsComeFirst'
    BY <1>1 DEF CapacityInv, DropsComeFirst
  <1>5. \A d \in Clients \ {c} : Writing(d)' = Writing(d) /\ Leaving(d)' = Leaving(d)
    BY <1>1, <1>3 DEF Writing, Leaving, Unapplied
  <1>6. Writing(c)' => Writing(c)
    BY <1>1, <1>2, <1>3 DEF Writing
  <1>7. r.op # "drop" => n = 1
    <2>1. 1 \in 1..n
      BY <1>2
    <2> QED BY <1>2, <2>1 DEF CapacityInv, DropsComeFirst
  <1>8. CASE r.op = "drop"
    <2>1. Live(mem') \subseteq Live(mem) \ {r.id}
      BY <1>1, <1>2, <1>8, ApplyLive
    <2>2. Leaving(c) \subseteq Leaving(c)' \cup {r.id}
      <3> SUFFICES ASSUME NEW i \in 1..n, todo[c][i].op = "drop", todo[c][i].id # r.id
                   PROVE  todo[c][i].id \in Leaving(c)'
        BY <1>3 DEF Leaving
      <3>1. i \in 2..n
        BY <1>2
      <3> QED BY <1>1, <1>3, <3>1 DEF Leaving
    <2>3. Room'
      BY <1>5, <1>6, <2>1, <2>2, RoomIsKept DEF CapacityInv
    <2> QED BY <1>4, <2>1, <2>3 DEF CapacityInv
  <1>9. CASE r.op \notin {"drop", "write"}
    <2>1. Live(mem') \subseteq Live(mem)
      BY <1>1, <1>2, <1>9, ApplyLive
    <2>2. ~Writing(c)'
      <3>1. n = 1
        BY <1>7, <1>9
      <3>2. Unapplied(c)' = {}
        BY <1>3, <3>1
      <3> QED BY <3>2 DEF Writing
    <2>3. Room'
      BY <1>5, <2>1, <2>2, RoomIsKept DEF CapacityInv
    <2> QED BY <1>4, <2>1, <2>3 DEF CapacityInv
  <1>10. CASE r.op = "write"
    <2>1. n = 1 /\ Writing(c) /\ Leaving(c) = {} /\ ~Writing(c)'
      <3>1. n = 1
        BY <1>7, <1>10
      <3>2. Writing(c)
        BY <1>1, <1>2, <1>3, <1>10, <3>1 DEF Writing
      <3>3. Leaving(c) = {}
        BY <1>2, <1>3, <1>10, <3>1 DEF Leaving
      <3>4. ~Writing(c)'
        BY <1>3, <3>1 DEF Writing
      <3> QED BY <3>1, <3>2, <3>3, <3>4
    <2>2. Live(mem') \subseteq Live(mem) \cup {r.id} /\ Live(mem) \subseteq Episodes
          /\ Live(mem') \subseteq Episodes
      BY <1>1, <1>2, <1>10, ApplyLive DEF Live
    <2>3. ASSUME NEW S \in SUBSET Clients, c \notin S, S \subseteq Writers
          PROVE  Cardinality(Staying(S)) + Cardinality(S) + 1 <= MaxEpisodes - 1 + Cardinality(Clients)
      <3>1. S \cup {c} \in SUBSET Writers /\ S \cup {c} # {}
        BY <2>1, <2>3 DEF Writers
      <3>2. Staying(S \cup {c}) = Staying(S)
        BY <2>1 DEF Staying
      <3>3. Cardinality(S \cup {c}) = Cardinality(S) + 1
        BY <2>3, Counts, FS_AddElement
      <3>4. Staying(S) \in SUBSET Episodes
        BY DEF Staying, Live
      <3>5. Cardinality(Staying(S \cup {c})) + Cardinality(S \cup {c})
              <= MaxEpisodes - 1 + Cardinality(Clients)
        BY <3>1 DEF CapacityInv, Room
      <3>6. Cardinality(S) \in Nat /\ Cardinality(Staying(S)) \in Nat
        BY <3>4, Counts
      <3> QED BY <3>2, <3>3, <3>5, <3>6, Counts
    <2>4. ASSUME NEW T \in SUBSET Episodes, NEW U \in SUBSET Episodes, T \subseteq U \cup {r.id}
          PROVE  Cardinality(T) <= Cardinality(U) + 1
      <3>1. IsFiniteSet(U) /\ Cardinality(U) \in Nat /\ Cardinality(T) \in Nat
        BY Counts
      <3>2. /\ IsFiniteSet(U \cup {r.id})
            /\ Cardinality(U \cup {r.id}) = IF r.id \in U THEN Cardinality(U) ELSE Cardinality(U) + 1
        BY <3>1, FS_AddElement
      <3>3. Cardinality(T) <= Cardinality(U \cup {r.id})
        BY <2>4, <3>2, FS_Subset
      <3> QED BY <3>1, <3>2, <3>3
    <2>5. Room'
      <3> SUFFICES ASSUME NEW S \in SUBSET Writers', S # {}
                   PROVE  Cardinality(Staying(S)') + Cardinality(S)
                            <= MaxEpisodes - 1 + Cardinality(Clients)
        BY DEF Room
      <3>1. S \in SUBSET Clients /\ c \notin S /\ S \subseteq Writers
        BY <1>5, <2>1 DEF Writers
      <3>2. Staying(S)' \subseteq Staying(S) \cup {r.id}
        BY <1>5, <2>2, <3>1 DEF Staying
      <3>3. Staying(S) \in SUBSET Episodes /\ Staying(S)' \in SUBSET Episodes
        BY <2>2 DEF Staying
      <3>4. Cardinality(Staying(S)') <= Cardinality(Staying(S)) + 1
        BY <2>4, <3>2, <3>3
      <3>5. /\ Cardinality(Staying(S)') \in Nat /\ Cardinality(Staying(S)) \in Nat
            /\ Cardinality(S) \in Nat
        BY <3>1, <3>3, Counts
      <3>6. Cardinality(Staying(S)) + Cardinality(S) + 1 <= MaxEpisodes - 1 + Cardinality(Clients)
        BY <2>3, <3>1
      <3> QED BY <3>4, <3>5, <3>6, Counts
    <2>6. Cardinality(Live(mem')) <= MaxEpisodes + Cardinality(Clients) - 1
      <3>1. Staying({}) = Live(mem) /\ {} \in SUBSET Clients /\ {} \subseteq Writers
        BY DEF Staying
      <3>2. Cardinality(Live(mem)) + Cardinality({}) + 1 <= MaxEpisodes - 1 + Cardinality(Clients)
        BY <2>3, <3>1
      <3>3. Cardinality(Live(mem')) <= Cardinality(Live(mem)) + 1
        BY <2>2, <2>4
      <3>4. /\ Cardinality(Live(mem')) \in Nat /\ Cardinality(Live(mem)) \in Nat
            /\ Cardinality({}) = 0
        BY <2>2, Counts, FS_EmptySet
      <3> QED BY <3>2, <3>3, <3>4, Counts
    <2> QED BY <1>4, <2>5, <2>6 DEF CapacityInv
  <1> QED BY <1>8, <1>9, <1>10

\* A call that ends, or goes on to its next record.
LEMMA ReturnKeepsRoom ==
    ASSUME TypeOK, CapacityInv, NEW c \in Clients, mem' = mem,
           \/ \E ok : Finish(c, ok)
           \/ Continue(c) /\ pc[c] \notin {"idle", "load", "append", "apply"}
    PROVE  CapacityInv'
  <1>1. CASE \E ok : Finish(c, ok)
    <2>1. /\ pc'[c] = "idle" /\ todo'[c] = <<>>
          /\ \A d \in Clients \ {c} : pc'[d] = pc[d] /\ todo'[d] = todo[d]
      BY <1>1 DEF Finish, TypeOK
    <2> QED BY <2>1, CallGoesOn
  <1>2. CASE /\ Len(todo[c]) > 1 /\ pc[c] \notin {"idle", "load", "append", "apply"}
             /\ pc' = [pc EXCEPT ![c] = "append"] /\ todo' = [todo EXCEPT ![c] = Tail(todo[c])]
    <2>1. /\ pc'[c] = "append" /\ todo'[c] = Tail(todo[c])
          /\ \A d \in Clients \ {c} : pc'[d] = pc[d] /\ todo'[d] = todo[d]
      BY <1>2 DEF TypeOK
    <2> QED BY <1>2, <2>1, CallGoesOn
  <1> QED BY <1>1, <1>2 DEF Continue

LEMMA DurablyKeepsRoom ==
    ASSUME TypeOK, CapacityInv, NEW c \in Clients, Durably(c)
    PROVE  /\ CapacityInv'
           /\ \/ Live(mem') \subseteq Live(mem)
              \/ Cardinality(Live(mem')) <= MaxEpisodes + Cardinality(Clients) - 1
  <1>1. CASE AppendWal(c)
    BY <1>1, AppendKeepsRoom DEF AppendWal, memory
  <1>2. CASE ApplyRecord(c)
    BY <1>2, ApplyKeepsRoom
  <1>3. CASE AppendFails(c) \/ AppendRefused(c) \/ StatFails(c)
    <2>1. Finish(c, FALSE) /\ mem' = mem
      BY <1>3 DEF AppendFails, AppendRefused, StatFails, memory
    <2> QED BY <2>1, ReturnKeepsRoom
  <1>4. CASE StatWal(c)
    <2>1. Continue(c) /\ mem' = mem /\ pc[c] = "stat"
      BY <1>4 DEF StatWal, memory
    <2> QED BY <2>1, ReturnKeepsRoom
  <1> QED BY <1>1, <1>2, <1>3, <1>4 DEF Durably

LEMMA CompactKeepsRoom ==
    ASSUME TypeOK, CapacityInv, NEW c \in Clients, Compact(c)
    PROVE  CapacityInv' /\ Live(mem') \subseteq Live(mem)
  <1>1. CASE BeginCompact(c) \/ Capture(c) \/ WriteTmp(c) \/ RenameTmp(c) \/ WriteBackup(c)
    <2>1. /\ pc[c] \in {"stat", "mkdir"} \cup Persisting
          /\ \E p \in {"mkdir"} \cup Persisting : pc' = [pc EXCEPT ![c] = p]
          /\ todo' = todo /\ mem' \in {mem, Prune(mem)}
      BY <1>1 DEF BeginCompact, Capture, WriteTmp, RenameTmp, WriteBackup, memory, Persisting
    <2>2. /\ pc'[c] \in {"mkdir"} \cup Persisting
          /\ \A d \in Clients \ {c} : pc'[d] = pc[d] /\ todo'[d] = todo[d]
      BY <2>1 DEF TypeOK
    <2>3. Live(mem') \subseteq Live(mem)
      BY <2>1, PruneLive DEF TypeOK
    <2> QED BY <2>1, <2>2, <2>3, CallGoesOn DEF Persisting
  <1>2. CASE MkdirFails(c) \/ CompactFails(c)
    <2>1. Finish(c, FALSE) /\ mem' = mem
      BY <1>2 DEF MkdirFails, CompactFails, memory
    <2> QED BY <2>1, ReturnKeepsRoom
  <1>3. CASE TruncateWal(c)
    <2>1. Continue(c) /\ mem' = mem /\ pc[c] = "truncate"
      BY <1>3 DEF TruncateWal
    <2> QED BY <2>1, ReturnKeepsRoom
  <1> QED BY <1>1, <1>2, <1>3 DEF Compact

\* The files are loaded while nothing is written; what they hold is not counted.
LEMMA LoadKeepsRoom ==
    ASSUME TypeOK, DurabilityInv, CapacityInv, NEW c \in Clients, Load(c)
    PROVE  CapacityInv' /\ (loaded => Live(mem') \subseteq Live(mem))
  <1>1. ~loaded /\ \A d \in Clients : pc[d] \in {"idle", "load"}
    BY DEF Load, BeginLoad, LogUnread, ReplayLine, InstallLoaded, LoadFails, DurabilityInv,
           LoadingAlone
  <1>2. /\ \A d \in Clients : pc'[d] \in {"idle", "load"}
        /\ todo' = todo
    BY <1>1 DEF Load, BeginLoad, LogUnread, ReplayLine, InstallLoaded, LoadFails, TypeOK
  <1>3. \A d \in Clients : ~Writing(d)'
    BY <1>2 DEF Writing
  <1>4. DropsComeFirst' /\ Room'
    BY <1>2, <1>3 DEF CapacityInv, DropsComeFirst, Room, Writers
  <1> QED BY <1>1, <1>4 DEF CapacityInv

LEMMA EnvironmentKeepsRoom ==
    ASSUME TypeOK, CapacityInv, Read \/ Tick \/ Crash \/ SnapshotRots
    PROVE  CapacityInv' /\ Live(mem') \subseteq Live(mem)
  <1>1. CASE Read \/ Tick \/ SnapshotRots
    <2>1. pc' = pc /\ todo' = todo /\ mem' \in {mem, Prune(mem)}
      BY <1>1 DEF Read, Tick, SnapshotRots, memory, locals
    <2>2. Live(mem') \subseteq Live(mem)
      BY <2>1, PruneLive DEF TypeOK
    <2>3. \A d \in Clients : Writing(d)' = Writing(d) /\ Leaving(d)' = Leaving(d)
      BY <2>1 DEF Writing, Leaving, Unapplied
    <2>4. DropsComeFirst'
      BY <2>1 DEF CapacityInv, DropsComeFirst
    <2> QED BY <2>2, <2>3, <2>4, RoomIsKept DEF CapacityInv
  <1>2. CASE Crash
    <2>1. /\ pc' = [d \in Clients |-> "idle"] /\ todo' = [d \in Clients |-> <<>>] /\ mem' = Empty
      BY <1>2 DEF Crash
    <2>2. Writers' = {}
      BY <2>1 DEF Writers, Writing
    <2>3. DropsComeFirst' /\ Room'
      BY <2>1, <2>2 DEF DropsComeFirst, Room
    <2>4. Live(mem') = {}
      BY <2>1 DEF Live, Empty
    <2> QED BY <2>3, <2>4 DEF CapacityInv
  <1> QED BY <1>1, <1>2

LEMMA CapacityInit == Init => CapacityInv
  BY DEF Init, CapacityInv, DropsComeFirst, Room, Writers, Writing

LEMMA CapacityStep ==
    ASSUME TypeOK, DurabilityInv, CapacityInv, [Next]_vars
    PROVE  /\ CapacityInv'
           /\ loaded /\ ~(Live(mem') \subseteq Live(mem)) =>
                Cardinality(Live(mem')) <= MaxEpisodes + Cardinality(Clients) - 1
  <1>1. ASSUME NEW c \in Clients, Call(c) PROVE CapacityInv' /\ mem' = mem
    BY <1>1, CallKeepsRoom DEF Call, WriteEpisode, DropEpisode, ReinforceEpisode,
                               RewriteEpisode, TouchConcepts, Start, memory
  <1>2. CASE Next
    BY <1>1, <1>2, LoadKeepsRoom, DurablyKeepsRoom, CompactKeepsRoom, EnvironmentKeepsRoom DEF Next
  <1>3. CASE UNCHANGED vars
    BY <1>3 DEF vars, memory, locals, CapacityInv, DropsComeFirst, Room, Writers, Writing,
                Staying, Leaving, Unapplied
  <1> QED BY <1>2, <1>3

\* Concurrent writers overshoot the limit by at most one episode each, whatever fails and
\* however their evictions interleave; only what a restart loads may be more.
THEOREM OvershootIsBounded == Spec => CapacityOvershoot
  <1>1. TypeOK /\ DurabilityInv /\ CapacityInv /\ [Next]_vars => CapacityInv'
    BY CapacityStep
  <1>2. TypeOK /\ DurabilityInv /\ CapacityInv /\ [Next]_vars =>
          [loaded /\ ~(Live(mem') \subseteq Live(mem)) =>
             Cardinality(Live(mem')) <= MaxEpisodes + Cardinality(Clients) - 1]_vars
    BY CapacityStep
  <1> QED BY <1>1, <1>2, CapacityInit, TypeCorrect, Durability, PTL DEF Spec, CapacityOvershoot

-----------------------------------------------------------------------------
(* What a restart shows *)

\* What fails for some number fails for a first one.
LEMMA FirstOfAll ==
    ASSUME NEW U \in SUBSET Nat, U # {}
    PROVE  \E n \in U : \A m \in U : n <= m
  <1>1. PICK n \in U : \A m \in U : ~(<<m, n>> \in OpToRel(<, Nat))
    BY NatLessThanWellFounded, WFMin
  <1>2. \A m \in U : n <= m
    <2> SUFFICES ASSUME NEW m \in U PROVE n <= m
      OBVIOUS
    <2>1. n \in Nat /\ m \in Nat
      OBVIOUS
    <2>2. ~(m < n)
      BY <1>1, <2>1 DEF OpToRel
    <2> QED BY <2>1, <2>2
  <1> QED BY <1>2

\* What holds of the start and is handed on by every line holds to the end.
LEMMA HandedOn ==
    ASSUME NEW n \in Nat, NEW S, 0 \in S, \A i \in 1..n : i - 1 \in S => i \in S
    PROVE  \A i \in 0..n : i \in S
  <1> DEFINE U == {i \in 0..n : i \notin S}
  <1>1. U \in SUBSET Nat /\ \A i \in 0..n : i \notin S <=> i \in U
    OBVIOUS
  <1>2. \A i \in U : i \in 0..n /\ i \notin S
    OBVIOUS
  <1> HIDE DEF U
  <1>3. ASSUME U # {} PROVE FALSE
    <2>1. PICK i \in U : \A j \in U : i <= j
      BY <1>1, <1>3, FirstOfAll
    <2>2. i \in 0..n /\ i \notin S
      BY <1>2
    <2>3. i # 0
      BY <2>2
    <2>4. i \in 1..n /\ i - 1 \in 0..n /\ ~(i <= i - 1)
      BY <2>2, <2>3
    <2>5. i - 1 \in S
      BY <1>1, <2>1, <2>4
    <2> QED BY <2>2, <2>4, <2>5
  <1> QED BY <1>1, <1>3

\* The views the replay of a log runs through, from the one it starts with.
View(st, log) ==
    LET v[i \in 0..Len(log)] == IF i = 0 THEN st ELSE Apply(v[i - 1], log[i])
    IN  v
\* The last of them.
Final(st, log) == View(st, log)[Len(log)]
\* The view a replay on a snapshot file starts from.
Base(file) == IF Usable(file) THEN file ELSE Empty

\* The context ring of a view: no id twice at a place, none from the future, none without
\* its episode.
RingInOrder(st) ==
    \A e \in Episodes : st.ring[e] > 0 =>
        /\ st.ring[e] <= st.seq
        /\ st.eps[e] # Absent
        /\ \A f \in Episodes : st.ring[f] = st.ring[e] => f = e

\* What a replay ends with against the running view m, at time t: the running view may have
\* lost what expired, or what expired before its reinforcement was applied.
SameEpisodes(v, m, log, t) ==
    /\ v.hot = m.hot
    /\ \A e \in Episodes : v.eps[e] # m.eps[e] =>
         /\ m.eps[e] = Absent
         /\ \/ v.eps[e] # Absent /\ v.eps[e].exp <= t
            \/ \E i \in 1..Len(log) : log[i].id = e /\ log[i].op = "reinforce"
\* No two ids that are in both rings have changed places.
SameOrder(v, m) ==
    \A e, f \in Episodes :
        v.ring[e] > 0 /\ v.ring[f] > 0 /\ m.ring[e] > 0 /\ m.ring[f] > 0
        => (v.ring[e] < v.ring[f] <=> m.ring[e] < m.ring[f])
\* The view v, replayed from a file, fits the running view m of the same log: the
\* same episodes but for lapsed ones, and no two ids of the rings in a different order.
Fit(v, m, log, t) == SameEpisodes(v, m, log, t) /\ SameOrder(v, m)

\* The views of a replay of the first lines of a log.
IsReplay(v, st, log, k) ==
    v = CHOOSE f : f = [i \in 0..k |-> IF i = 0 THEN st ELSE Apply(f[i - 1], log[i])]

\* The replay of a whole log.
LEMMA ViewIs ==
    ASSUME NEW st, NEW log
    PROVE  IsReplay(View(st, log), st, log, Len(log))
  BY Zenon DEF View, IsReplay

\* A recursion over the lines of a log is well defined.
LEMMA ReplayUnfolds ==
    ASSUME NEW st, NEW log, NEW k \in Nat, NEW v, IsReplay(v, st, log, k)
    PROVE  /\ v[0] = st
           /\ \A i \in 1..k : v[i] = Apply(v[i - 1], log[i])
  <1> DEFINE F(n, f) == f = [i \in 0..n |-> IF i = 0 THEN st ELSE Apply(f[i - 1], log[i])]
             Fine == {n \in Nat : \E f : F(n, f)}
  <1>0. \A n \in Nat : n \in Fine <=> \E f : F(n, f)
    OBVIOUS
  <1>1. 0 \in Fine
    <2> DEFINE f == [i \in 0..0 |-> st]
    <2>1. F(0, f)
      <3>1. \A i \in 0..0 : i = 0
        OBVIOUS
      <3> QED BY <3>1
    <2> HIDE DEF F, f, Fine
    <2> QED BY <1>0, <2>1
  <1>2. ASSUME NEW n \in 1..k, n - 1 \in Fine PROVE n \in Fine
    <2>0. n \in Nat /\ n - 1 \in Nat /\ n # 0
      OBVIOUS
    <2>1. PICK f : F(n - 1, f)
      BY <1>2
    <2>2. \A i \in 0..(n - 1) : f[i] = IF i = 0 THEN st ELSE Apply(f[i - 1], log[i])
      BY <2>1
    <2> DEFINE g == [i \in 0..n |-> IF i < n THEN f[i] ELSE Apply(f[n - 1], log[n])]
    <2>3. \A i \in 0..n : g[i] = IF i < n THEN f[i] ELSE Apply(f[n - 1], log[n])
      OBVIOUS
    <2>4. DOMAIN g = 0..n /\ g = [i \in 0..n |-> g[i]]
      OBVIOUS
    <2> HIDE DEF g
    <2>5. ASSUME NEW i \in 0..n
          PROVE  g[i] = IF i = 0 THEN st ELSE Apply(g[i - 1], log[i])
      <3>1. CASE i = 0
        <4>1. 0 \in 0..n /\ 0 < n /\ 0 \in 0..(n - 1)
          BY <2>0
        <4>2. g[0] = f[0] /\ f[0] = st
          BY <2>2, <2>3, <4>1
        <4> QED BY <3>1, <4>2
      <3>2. CASE i # 0 /\ i < n
        <4>1. i \in 0..(n - 1) /\ i - 1 \in 0..n /\ i - 1 < n
          BY <2>0, <3>2
        <4>2. g[i] = f[i] /\ g[i - 1] = f[i - 1] /\ f[i] = Apply(f[i - 1], log[i])
          BY <2>2, <2>3, <3>2, <4>1
        <4> QED BY <3>2, <4>2
      <3>3. CASE i = n
        <4>1. n - 1 \in 0..n /\ n - 1 < n /\ n \in 0..n /\ ~(n < n)
          BY <2>0
        <4>2. g[n] = Apply(f[n - 1], log[n]) /\ g[n - 1] = f[n - 1]
          BY <2>3, <4>1
        <4> QED BY <2>0, <3>3, <4>2
      <3> QED BY <2>0, <3>1, <3>2, <3>3
    <2>6. F(n, g)
      BY <2>4, <2>5
    <2> HIDE DEF F, Fine
    <2> QED BY <1>0, <2>0, <2>6
  <1>3. k \in Fine
    <2> HIDE DEF F, Fine
    <2>1. \A i \in 0..k : i \in Fine
      BY <1>1, <1>2, HandedOn
    <2> QED BY <2>1
  <1>4. \E f : F(k, f)
    BY <1>3
  <1>5. F(k, CHOOSE f : F(k, f))
    <2> HIDE DEF F
    <2> QED BY <1>4
  <1>6. F(k, v)
    <2>1. v = CHOOSE f : F(k, f)
      BY DEF IsReplay
    <2> HIDE DEF F
    <2> QED BY <1>5, <2>1
  <1>7. 0 \in 0..k /\ \A i \in 1..k : i \in 0..k /\ i # 0
    OBVIOUS
  <1>8. \A i \in 0..k : v[i] = IF i = 0 THEN st ELSE Apply(v[i - 1], log[i])
    BY <1>6
  <1> QED BY <1>7, <1>8

\* A replay goes from each view to the next by the line between them.
LEMMA ViewUnfolds ==
    ASSUME NEW st, NEW log \in Seq(Line)
    PROVE  /\ View(st, log)[0] = st
           /\ \A i \in 1..Len(log) : View(st, log)[i] = Apply(View(st, log)[i - 1], log[i])
  <1> DEFINE v == View(st, log)
             k == Len(log)
  <1>1. IsReplay(v, st, log, k) /\ k \in Nat
    BY ViewIs
  <1> HIDE DEF v, k
  <1>2. v[0] = st
    BY <1>1, ReplayUnfolds
  <1>3. ASSUME NEW i \in 1..k PROVE v[i] = Apply(v[i - 1], log[i])
    BY <1>1, ReplayUnfolds
  <1> QED BY <1>2, <1>3 DEF v, k

\* A load replays the lines one after the other on the snapshot.
LEMMA FinalFacts ==
    ASSUME NEW st, NEW log \in Seq(Line), NEW r \in Line
    PROVE  /\ Final(st, <<>>) = st
           /\ Final(st, Append(log, r)) = Apply(Final(st, log), r)
  <1>1. Final(st, <<>>) = st
    <2>1. <<>> \in Seq(Line) /\ Len(<<>>) = 0
      OBVIOUS
    <2> QED BY <2>1, ViewUnfolds DEF Final
  <1>2. Final(st, Append(log, r)) = Apply(Final(st, log), r)
    <2> DEFINE longer == Append(log, r)
               n == Len(log)
               v == View(st, log)
               w == View(st, longer)
    <2>1. /\ longer \in Seq(Line) /\ Len(longer) = n + 1 /\ n \in Nat
          /\ \A i \in 1..n : longer[i] = log[i]
          /\ longer[n + 1] = r
      OBVIOUS
    <2> HIDE DEF longer, n
    <2>2. v[0] = st /\ \A i \in 1..n : v[i] = Apply(v[i - 1], log[i])
      BY ViewUnfolds DEF n
    <2>3. w[0] = st /\ \A i \in 1..(n + 1) : w[i] = Apply(w[i - 1], longer[i])
      BY <2>1, ViewUnfolds
    <2> HIDE DEF v, w
    <2> DEFINE S == {i \in Nat : w[i] = v[i]}
    <2>4. 0 \in S
      BY <2>2, <2>3
    <2>5. ASSUME NEW i \in 1..n, i - 1 \in S PROVE i \in S
      <3>1. i \in 1..(n + 1) /\ i \in Nat /\ longer[i] = log[i]
        BY <2>1
      <3> QED BY <2>2, <2>3, <2>5, <3>1
    <2> HIDE DEF S
    <2>6. \A i \in 0..n : i \in S
      BY <2>1, <2>4, <2>5, HandedOn
    <2>7. w[n] = v[n]
      BY <2>1, <2>6 DEF S
    <2>8. w[n + 1] = Apply(w[n], r)
      <3>1. n + 1 \in 1..(n + 1) /\ (n + 1) - 1 = n
        BY <2>1
      <3> QED BY <2>1, <2>3, <3>1
    <2> QED BY <2>1, <2>7, <2>8 DEF Final, v, w, n, longer
  <1> QED BY <1>1, <1>2

-----------------------------------------------------------------------------
(* The context ring *)

\* The cut takes an id out together with every older one.
LEMMA NewestFacts ==
    ASSUME NEW ring \in [Episodes -> Nat], NEW e \in Episodes
    PROVE  /\ Newest(ring)[e] = IF Cardinality(Newer(ring, e)) >= RingSize THEN 0 ELSE ring[e]
           /\ Newest(ring)[e] > 0 => Newer(Newest(ring), e) = Newer(ring, e)
  <1> DEFINE cut == Newest(ring)
  <1>1. \A f \in Episodes :
           cut[f] = IF Cardinality(Newer(ring, f)) >= RingSize THEN 0 ELSE ring[f]
    BY DEF Newest, Without
  <1>2. ASSUME cut[e] > 0 PROVE Newer(cut, e) = Newer(ring, e)
    <2>1. cut[e] = ring[e] /\ ~(Cardinality(Newer(ring, e)) >= RingSize)
      BY <1>1, <1>2
    <2>2. ASSUME NEW f \in Newer(ring, e) PROVE cut[f] = ring[f]
      <3>1. f \in Episodes /\ ring[f] > ring[e] /\ \A g \in Episodes : ring[g] \in Nat
        BY <2>2 DEF Newer
      <3>2. Newer(ring, f) \subseteq Newer(ring, e)
        BY <3>1 DEF Newer
      <3>3. IsFiniteSet(Newer(ring, e))
        BY StoreAssumption, FS_Subset DEF Newer
      <3>4. /\ Cardinality(Newer(ring, f)) <= Cardinality(Newer(ring, e))
            /\ Cardinality(Newer(ring, f)) \in Nat /\ Cardinality(Newer(ring, e)) \in Nat
        BY <3>2, <3>3, FS_Subset, FS_CardinalityType
      <3>5. RingSize \in Nat
        BY StoreAssumption
      <3>6. ~(Cardinality(Newer(ring, f)) >= RingSize)
        BY <2>1, <3>4, <3>5
      <3> QED BY <1>1, <3>1, <3>6
    <2>3. \A f \in Episodes : cut[f] \in {ring[f], 0} /\ ring[f] \in Nat
      BY <1>1
    <2> HIDE DEF cut
    <2> QED BY <2>1, <2>2, <2>3 DEF Newer
  <1> QED BY <1>1, <1>2

\* Taking ids out leaves the others where they are.
LEMMA WithoutFacts ==
    ASSUME NEW ring \in [Episodes -> Nat], NEW gone, NEW e \in Episodes
    PROVE  /\ Without(ring, gone)[e] = IF e \in gone THEN 0 ELSE ring[e]
           /\ e \notin gone => Newer(Without(ring, gone), e) = Newer(ring, e) \ gone
  BY DEF Without, Newer

\* What one record makes of the ring.
Pushed(st, r) == [st.ring EXCEPT ![r.id] = st.seq + 1]

\* The new id is in front of all others.
LEMMA PushedFacts ==
    ASSUME NEW st \in State, NEW r \in Line
    PROVE  /\ Pushed(st, r) \in [Episodes -> Nat]
           /\ \A e \in Episodes : Pushed(st, r)[e] = IF e = r.id THEN st.seq + 1 ELSE st.ring[e]
           /\ \A e \in Episodes : st.ring[e] \in Nat
           /\ st.seq \in Nat
  <1>1. st.ring \in [Episodes -> Nat] /\ st.seq \in Nat /\ st.seq + 1 \in Nat
    BY DEF State
  <1> QED BY <1>1 DEF Pushed

\* What applyWalRecordToState does to the ring and the Map.
LEMMA AppliedRing ==
    ASSUME NEW st \in State, NEW r \in Line
    PROVE  /\ r.op = "write" => Apply(st, r).ring = Newest(Pushed(st, r))
           /\ r.op = "drop" => Apply(st, r).ring = Without(st.ring, {r.id})
           /\ r.op \notin {"write", "drop"} => Apply(st, r).ring = st.ring
           /\ Apply(st, r).seq = st.seq + 1
           /\ \A e \in Episodes :
                Apply(st, r).eps[e] = IF e = r.id THEN Changed(st.eps[e], r) ELSE st.eps[e]
  BY DEF Apply, Pushed

\* A record leaves an episode where there was one, unless it drops it.
LEMMA ChangedFacts ==
    ASSUME NEW old \in Entry \cup {Absent}, NEW r \in Line
    PROVE  /\ r.op = "write" => Changed(old, r) # Absent
           /\ r.op = "drop" => Changed(old, r) = Absent
           /\ r.op \notin {"write", "drop"} => (Changed(old, r) = Absent <=> old = Absent)
           /\ r.op = "touch" => Changed(old, r) = old
  <1>1. /\ r.exp \in Nat /\ r.rev \in Nat /\ r.lsn \in Nat
        /\ r.op \in {"write", "drop", "reinforce", "rewrite", "touch"}
    BY DEF Line, Ops
  <1>2. old # Absent => old.ver \in Nat /\ old.exp \in Nat /\ old.rev \in Nat
    BY DEF Entry
  <1>3. \A x, y, z \in Nat : [exp |-> x, rev |-> y, ver |-> z] # Absent
    BY FileAssumption DEF Entry
  <1>4. CASE r.op = "write"
    BY <1>1, <1>3, <1>4 DEF Changed
  <1>5. CASE r.op = "drop"
    BY <1>5 DEF Changed
  <1>6. CASE r.op = "reinforce"
    BY <1>1, <1>2, <1>3, <1>6 DEF Changed
  <1>7. CASE r.op = "rewrite"
    BY <1>1, <1>2, <1>3, <1>7 DEF Changed
  <1>8. CASE r.op = "touch"
    BY <1>8 DEF Changed
  <1> QED BY <1>1, <1>4, <1>5, <1>6, <1>7, <1>8

\* A fresh ring is in order, and stays so whatever is dropped or applied.
LEMMA RingOkEmpty == RingInOrder(Empty)
  BY DEF RingInOrder, Empty

LEMMA RingOkDrop ==
    ASSUME NEW st \in State, RingInOrder(st), NEW gone
    PROVE  RingInOrder(Drop(st, gone))
  <1>1. \A e \in Episodes : st.ring[e] \in Nat
    BY DEF State
  <1>2. /\ \A e \in Episodes :
             /\ Drop(st, gone).ring[e] = IF e \in gone THEN 0 ELSE st.ring[e]
             /\ Drop(st, gone).eps[e] = IF e \in gone THEN Absent ELSE st.eps[e]
        /\ Drop(st, gone).seq = st.seq
    BY DEF Drop, Without
  <1> QED BY <1>1, <1>2 DEF RingInOrder

LEMMA RingOkPrune ==
    ASSUME NEW st \in State, RingInOrder(st)
    PROVE  RingInOrder(Prune(st))
  BY RingOkDrop DEF Prune

LEMMA RingOkApply ==
    ASSUME NEW st \in State, NEW r \in Line, RingInOrder(st)
    PROVE  RingInOrder(Apply(st, r))
  <1> DEFINE next == Apply(st, r)
             pushed == Pushed(st, r)
  <1>1. /\ pushed \in [Episodes -> Nat]
        /\ \A e \in Episodes : pushed[e] = IF e = r.id THEN st.seq + 1 ELSE st.ring[e]
        /\ \A e \in Episodes : st.ring[e] \in Nat
        /\ st.seq \in Nat
    BY PushedFacts
  <1>2. /\ r.op = "write" => next.ring = Newest(pushed)
        /\ r.op = "drop" => next.ring = Without(st.ring, {r.id})
        /\ r.op \notin {"write", "drop"} => next.ring = st.ring
        /\ next.seq = st.seq + 1
        /\ \A e \in Episodes : next.eps[e] = IF e = r.id THEN Changed(st.eps[e], r) ELSE st.eps[e]
    BY AppliedRing
  <1>3. \A e \in Episodes : st.eps[e] \in Entry \cup {Absent} /\ st.ring \in [Episodes -> Nat]
    BY DEF State
  <1>4. \A e \in Episodes : st.ring[e] > 0 =>
            /\ st.ring[e] <= st.seq /\ st.eps[e] # Absent
            /\ \A f \in Episodes : st.ring[f] = st.ring[e] => f = e
    BY DEF RingInOrder
  <1>5. \A e \in Episodes : Newest(pushed)[e] \in {pushed[e], 0}
    BY <1>1, NewestFacts
  <1>6. \A e \in Episodes : Without(st.ring, {r.id})[e] = IF e = r.id THEN 0 ELSE st.ring[e]
    BY <1>3, WithoutFacts
  <1>7. \A e \in Episodes :
            /\ r.op = "write" => (e = r.id => next.eps[e] # Absent)
            /\ r.op \notin {"write", "drop"} => (next.eps[e] = Absent <=> st.eps[e] = Absent)
            /\ e # r.id => next.eps[e] = st.eps[e]
    BY <1>2, <1>3, ChangedFacts
  <1> HIDE DEF next, pushed
  <1>8. CASE r.op = "write"
    <2> SUFFICES ASSUME NEW e \in Episodes, next.ring[e] > 0
                 PROVE  /\ next.ring[e] <= next.seq /\ next.eps[e] # Absent
                        /\ \A f \in Episodes : next.ring[f] = next.ring[e] => f = e
      BY DEF RingInOrder, next
    <2>1. \A f \in Episodes : next.ring[f] \in {pushed[f], 0}
      BY <1>2, <1>5, <1>8
    <2>2. next.ring[e] = pushed[e] /\ pushed[e] > 0
      BY <2>1
    <2>3. next.ring[e] <= next.seq
      BY <1>1, <1>2, <1>4, <2>2
    <2>4. next.eps[e] # Absent
      BY <1>1, <1>4, <1>7, <1>8, <2>2
    <2>5. ASSUME NEW f \in Episodes, next.ring[f] = next.ring[e] PROVE f = e
      <3>1. pushed[f] = pushed[e]
        BY <2>1, <2>2, <2>5
      <3> QED BY <1>1, <1>4, <2>2, <3>1
    <2> QED BY <2>3, <2>4, <2>5
  <1>9. CASE r.op = "drop"
    <2> SUFFICES ASSUME NEW e \in Episodes, next.ring[e] > 0
                 PROVE  /\ next.ring[e] <= next.seq /\ next.eps[e] # Absent
                        /\ \A f \in Episodes : next.ring[f] = next.ring[e] => f = e
      BY DEF RingInOrder, next
    <2>1. \A f \in Episodes : next.ring[f] = IF f = r.id THEN 0 ELSE st.ring[f]
      BY <1>2, <1>6, <1>9
    <2> QED BY <1>1, <1>2, <1>4, <1>7, <2>1
  <1>10. CASE r.op \notin {"write", "drop"}
    <2> SUFFICES ASSUME NEW e \in Episodes, next.ring[e] > 0
                 PROVE  /\ next.ring[e] <= next.seq /\ next.eps[e] # Absent
                        /\ \A f \in Episodes : next.ring[f] = next.ring[e] => f = e
      BY DEF RingInOrder, next
    <2>1. next.ring = st.ring
      BY <1>2, <1>10
    <2> QED BY <1>1, <1>2, <1>4, <1>7, <1>10, <2>1
  <1> QED BY <1>8, <1>9, <1>10

-----------------------------------------------------------------------------
(* Views that fit *)

\* A view fits itself, and its ring has the newest of its own ids.
LEMMA FitItself ==
    ASSUME NEW m \in State, NEW log, NEW t, RingInOrder(m)
    PROVE  Fit(m, m, log, t) /\ NewestOf(m, m)
  <1>1. \A e \in Episodes : m.ring[e] \in Nat
    BY DEF State
  <1>2. \A e \in Episodes : Newer(m.ring, e) \subseteq Live(m)
    BY <1>1 DEF RingInOrder, Newer, Live
  <1> QED BY <1>2 DEF Fit, SameEpisodes, SameOrder, NewestOf, Live, Newer

\* A ring of the newest ids is in order.
LEMMA NewestIsInOrder ==
    ASSUME NEW v \in State, NEW m \in State, RingInOrder(v), RingInOrder(m), NewestOf(v, m)
    PROVE  SameOrder(v, m)
  <1>1. \A e \in Episodes : m.ring[e] \in Nat /\ v.ring[e] \in Nat
    BY DEF State
  <1>2. \A e \in Episodes : m.ring[e] > 0 => e \in Live(m)
    BY DEF RingInOrder, Live
  <1> SUFFICES ASSUME NEW e \in Episodes, NEW f \in Episodes,
                      v.ring[e] > 0, v.ring[f] > 0, m.ring[e] > 0, m.ring[f] > 0
               PROVE  v.ring[e] < v.ring[f] <=> m.ring[e] < m.ring[f]
    BY DEF SameOrder
  <1>3. e \in Live(m) /\ f \in Live(m)
    BY <1>2
  <1>4. Newer(v.ring, e) \cap Live(m) = Newer(m.ring, e)
    BY <1>3 DEF NewestOf
  <1>5. f \in Newer(v.ring, e) <=> f \in Newer(m.ring, e)
    BY <1>3, <1>4
  <1>6. v.ring[f] > v.ring[e] <=> m.ring[f] > m.ring[e]
    BY <1>5 DEF Newer
  <1> QED BY <1>1, <1>6

\* The running view may lose its expired episodes.
LEMMA FitPruned ==
    ASSUME NEW v \in State, NEW m \in State, NEW log, RingInOrder(m), Fit(v, m, log, now)
    PROVE  Fit(v, Prune(m), log, now)
  <1> DEFINE p == Prune(m)
  <1>1. /\ p.hot = m.hot
        /\ \A e \in Episodes :
             /\ p.eps[e] = IF e \in Expired(m) THEN Absent ELSE m.eps[e]
             /\ p.ring[e] = IF e \in Expired(m) THEN 0 ELSE m.ring[e]
    BY DEF Prune, Drop, Without
  <1> HIDE DEF p
  <1>2. SameEpisodes(v, p, log, now)
    BY <1>1 DEF Fit, SameEpisodes, Expired, Live
  <1>3. SameOrder(v, p)
    BY <1>1 DEF Fit, SameOrder
  <1> QED BY <1>2, <1>3 DEF Fit, p

\* So may the ring.
LEMMA NewestPruned ==
    ASSUME NEW v \in State, NEW m \in State, NewestOf(v, m)
    PROVE  NewestOf(v, Prune(m))
  <1> DEFINE p == Prune(m)
             gone == Expired(m)
  <1>1. /\ m.ring \in [Episodes -> Nat]
        /\ p.ring = Without(m.ring, gone) /\ Live(p) = Live(m) \ gone
    BY DEF State, Prune, Drop, Live
  <1> HIDE DEF p, gone
  <1> SUFFICES ASSUME NEW e \in Live(p), v.ring[e] > 0
               PROVE  /\ p.ring[e] > 0
                      /\ Newer(v.ring, e) \cap Live(p) = Newer(p.ring, e)
    BY DEF NewestOf, p
  <1>2. e \in Live(m) /\ e \notin gone /\ e \in Episodes
    BY <1>1 DEF Live
  <1>3. m.ring[e] > 0 /\ Newer(v.ring, e) \cap Live(m) = Newer(m.ring, e)
    BY <1>2 DEF NewestOf
  <1>4. p.ring[e] = m.ring[e] /\ Newer(p.ring, e) = Newer(m.ring, e) \ gone
    BY <1>1, <1>2, WithoutFacts
  <1> QED BY <1>1, <1>3, <1>4

\* As time passes more expires.
LEMMA FitLater ==
    ASSUME NEW v \in State, NEW m, NEW log, NEW t \in Nat, NEW u \in Nat, t <= u,
           Fit(v, m, log, t)
    PROVE  Fit(v, m, log, u)
  <1>1. \A e \in Episodes : v.eps[e] # Absent => v.eps[e].exp \in Nat
    BY DEF State, Entry
  <1>2. \A e \in Episodes : v.eps[e] # Absent /\ v.eps[e].exp <= t => v.eps[e].exp <= u
    BY <1>1
  <1> QED BY <1>2 DEF Fit, SameEpisodes

\* A record puts its id in front or takes it out, and moves no other id.
LEMMA RingAfter ==
    ASSUME NEW st \in State, NEW r \in Line, NEW e \in Episodes
    PROVE  /\ r.op = "write" => Apply(st, r).ring[e] \in {0, IF e = r.id THEN st.seq + 1 ELSE st.ring[e]}
           /\ r.op # "write" => Apply(st, r).ring[e] \in {0, st.ring[e]}
  <1>1. st.ring \in [Episodes -> Nat]
    BY DEF State
  <1>2. CASE r.op = "write"
    <2> DEFINE pushed == Pushed(st, r)
    <2>1. pushed \in [Episodes -> Nat] /\ pushed[e] = IF e = r.id THEN st.seq + 1 ELSE st.ring[e]
      BY PushedFacts
    <2>2. Apply(st, r).ring = Newest(pushed)
      BY <1>2, AppliedRing
    <2> HIDE DEF pushed
    <2>3. Newest(pushed)[e] = IF Cardinality(Newer(pushed, e)) >= RingSize THEN 0 ELSE pushed[e]
      BY <2>1, NewestFacts
    <2> QED BY <1>2, <2>1, <2>2, <2>3
  <1>3. CASE r.op = "drop"
    <2>1. Without(st.ring, {r.id})[e] = IF e \in {r.id} THEN 0 ELSE st.ring[e]
      BY <1>1, WithoutFacts
    <2>2. Apply(st, r).ring = Without(st.ring, {r.id})
      BY <1>3, AppliedRing
    <2> QED BY <1>3, <2>1, <2>2
  <1>4. CASE r.op \notin {"write", "drop"}
    BY <1>4, AppliedRing
  <1> QED BY <1>2, <1>3, <1>4

\* The same record applied to both.
LEMMA FitApplied ==
    ASSUME NEW v \in State, NEW m \in State, NEW log \in Seq(Line), NEW r \in Line,
           NEW t \in Nat, RingInOrder(v), RingInOrder(m), Fit(v, m, log, t)
    PROVE  Fit(Apply(v, r), Apply(m, r), Append(log, r), t)
  <1> DEFINE w == Apply(v, r)
             n == Apply(m, r)
             longer == Append(log, r)
  <1>1. /\ Len(longer) = Len(log) + 1 /\ Len(log) \in Nat
        /\ \A i \in 1..Len(log) : longer[i] = log[i]
        /\ longer[Len(log) + 1] = r
    OBVIOUS
  <1>2. /\ \E i \in 1..Len(longer) : longer[i] = r
        /\ \A i \in 1..Len(log) : i \in 1..Len(longer) /\ longer[i] = log[i]
    BY <1>1
  <1>3. /\ \A e \in Episodes : w.eps[e] = IF e = r.id THEN Changed(v.eps[e], r) ELSE v.eps[e]
        /\ \A e \in Episodes : n.eps[e] = IF e = r.id THEN Changed(m.eps[e], r) ELSE m.eps[e]
        /\ w.hot = IF r.op = "touch" THEN r.exp ELSE v.hot
        /\ n.hot = IF r.op = "touch" THEN r.exp ELSE m.hot
    BY DEF Apply
  <1> HIDE DEF w, n, longer
  <1>4. SameEpisodes(w, n, longer, t)
    <2>1. w.hot = n.hot
      BY <1>3 DEF Fit, SameEpisodes
    <2>2. ASSUME NEW e \in Episodes, w.eps[e] # n.eps[e]
          PROVE  /\ n.eps[e] = Absent
                 /\ \/ w.eps[e] # Absent /\ w.eps[e].exp <= t
                    \/ \E i \in 1..Len(longer) : longer[i].id = e /\ longer[i].op = "reinforce"
      <3>1. v.eps[e] # m.eps[e]
        BY <1>3, <2>2
      <3>2. /\ m.eps[e] = Absent
            /\ \/ v.eps[e] # Absent /\ v.eps[e].exp <= t
               \/ \E i \in 1..Len(log) : log[i].id = e /\ log[i].op = "reinforce"
        BY <3>1 DEF Fit, SameEpisodes
      <3>3. CASE e # r.id
        BY <1>2, <1>3, <3>2, <3>3
      <3>4. CASE e = r.id
        <4>1. w.eps[e] = Changed(v.eps[e], r) /\ n.eps[e] = Changed(Absent, r)
          BY <1>3, <3>2, <3>4
        <4>2. v.eps[e] # Absent
          BY <3>1, <3>2
        <4>3. r.op \notin {"write", "drop"} /\ n.eps[e] = Absent
          <5>1. r.op \in {"write", "drop", "reinforce", "rewrite", "touch"}
            BY DEF Line, Ops
          <5> QED BY <2>2, <4>1, <5>1 DEF Changed
        <4>4. CASE r.op = "reinforce"
          BY <1>2, <3>4, <4>3, <4>4
        <4>5. CASE r.op # "reinforce"
          <5>1. /\ w.eps[e] # Absent /\ w.eps[e].exp = v.eps[e].exp
            <6>1. v.eps[e] \in Entry /\ r.lsn \in Nat
              BY <4>2 DEF State, Line
            <6>2. \/ w.eps[e] = [exp |-> v.eps[e].exp, rev |-> v.eps[e].rev, ver |-> r.lsn]
                  \/ w.eps[e] = v.eps[e]
              BY <4>1, <4>2, <4>3, <4>5 DEF Changed
            <6>3. [exp |-> v.eps[e].exp, rev |-> v.eps[e].rev, ver |-> r.lsn] # Absent
              BY <6>1, FileAssumption DEF Entry
            <6> QED BY <4>2, <6>2, <6>3
          <5> QED BY <1>2, <3>2, <4>3, <5>1
        <4> QED BY <4>4, <4>5
      <3> QED BY <3>3, <3>4
    <2> QED BY <2>1, <2>2 DEF SameEpisodes
  <1>5. SameOrder(w, n)
    <2>1. /\ \A e \in Episodes : v.ring[e] \in Nat /\ m.ring[e] \in Nat
          /\ v.seq \in Nat /\ m.seq \in Nat
          /\ v.ring \in [Episodes -> Nat] /\ m.ring \in [Episodes -> Nat]
      BY DEF State
    <2>2. \A e \in Episodes :
             /\ r.op = "write" => w.ring[e] \in {0, IF e = r.id THEN v.seq + 1 ELSE v.ring[e]}
             /\ r.op # "write" => w.ring[e] \in {0, v.ring[e]}
      BY RingAfter DEF w
    <2>3. \A e \in Episodes :
             /\ r.op = "write" => n.ring[e] \in {0, IF e = r.id THEN m.seq + 1 ELSE m.ring[e]}
             /\ r.op # "write" => n.ring[e] \in {0, m.ring[e]}
      BY RingAfter DEF n
    <2>4. \A e \in Episodes : /\ v.ring[e] > 0 => v.ring[e] <= v.seq
                              /\ m.ring[e] > 0 => m.ring[e] <= m.seq
      BY DEF RingInOrder
    <2> SUFFICES ASSUME NEW e \in Episodes, NEW f \in Episodes,
                        w.ring[e] > 0, w.ring[f] > 0, n.ring[e] > 0, n.ring[f] > 0
                 PROVE  w.ring[e] < w.ring[f] <=> n.ring[e] < n.ring[f]
      BY DEF SameOrder
    <2>5. v.ring[e] > 0 /\ v.ring[f] > 0 /\ m.ring[e] > 0 /\ m.ring[f] > 0
          => (v.ring[e] < v.ring[f] <=> m.ring[e] < m.ring[f])
      BY DEF Fit, SameOrder
    <2>6. CASE r.op = "write"
      <3>1. /\ w.ring[e] = IF e = r.id THEN v.seq + 1 ELSE v.ring[e]
            /\ w.ring[f] = IF f = r.id THEN v.seq + 1 ELSE v.ring[f]
            /\ n.ring[e] = IF e = r.id THEN m.seq + 1 ELSE m.ring[e]
            /\ n.ring[f] = IF f = r.id THEN m.seq + 1 ELSE m.ring[f]
        BY <2>2, <2>3, <2>6
      <3>2. CASE e = r.id /\ f = r.id
        BY <2>1, <3>1, <3>2
      <3>3. CASE e = r.id /\ f # r.id
        BY <2>1, <2>4, <3>1, <3>3
      <3>4. CASE e # r.id /\ f = r.id
        BY <2>1, <2>4, <3>1, <3>4
      <3>5. CASE e # r.id /\ f # r.id
        BY <2>5, <3>1, <3>5
      <3> QED BY <3>2, <3>3, <3>4, <3>5
    <2>7. CASE r.op # "write"
      BY <2>1, <2>2, <2>3, <2>4, <2>5, <2>7
    <2> QED BY <2>6, <2>7
  <1> QED BY <1>4, <1>5 DEF Fit, w, n, longer

\* The newest ids stay the newest ones.
LEMMA NewestApplied ==
    ASSUME NEW v \in State, NEW m \in State, NEW r \in Line,
           RingInOrder(v), RingInOrder(m), NewestOf(v, m)
    PROVE  NewestOf(Apply(v, r), Apply(m, r))
  <1> DEFINE w == Apply(v, r)
             n == Apply(m, r)
  <1>1. /\ v.ring \in [Episodes -> Nat] /\ m.ring \in [Episodes -> Nat]
        /\ v.seq \in Nat /\ m.seq \in Nat
        /\ \A e \in Episodes : v.ring[e] \in Nat /\ m.ring[e] \in Nat
        /\ \A e \in Episodes : m.eps[e] \in Entry \cup {Absent}
    BY DEF State
  <1>2. \A e \in Episodes : n.eps[e] = IF e = r.id THEN Changed(m.eps[e], r) ELSE m.eps[e]
    BY DEF Apply
  <1>3. Live(m) \subseteq Episodes /\ Live(n) \subseteq Episodes
    BY DEF Live
  <1> HIDE DEF w, n
  <1>4. CASE r.op = "write"
    <2> DEFINE V == Pushed(v, r)
               M == Pushed(m, r)
               new == {r.id} \cap Episodes
    <2>1. /\ V \in [Episodes -> Nat] /\ M \in [Episodes -> Nat]
          /\ \A e \in Episodes : V[e] = IF e = r.id THEN v.seq + 1 ELSE v.ring[e]
          /\ \A e \in Episodes : M[e] = IF e = r.id THEN m.seq + 1 ELSE m.ring[e]
      BY PushedFacts
    <2>2. w.ring = Newest(V) /\ n.ring = Newest(M)
      BY <1>4, AppliedRing DEF w, n
    <2> HIDE DEF V, M
    <2>3. Live(n) = Live(m) \cup new
      <3>1. \A e \in Episodes : n.eps[e] # Absent <=> e = r.id \/ m.eps[e] # Absent
        BY <1>1, <1>2, <1>4, ChangedFacts
      <3> QED BY <3>1 DEF Live
    <2>4. \A e \in Episodes : /\ v.ring[e] > 0 => v.ring[e] <= v.seq
                              /\ m.ring[e] > 0 => m.ring[e] <= m.seq
      BY DEF RingInOrder
    <2> SUFFICES ASSUME NEW e \in Live(n), w.ring[e] > 0
                 PROVE  /\ n.ring[e] > 0
                        /\ Newer(w.ring, e) \cap Live(n) = Newer(n.ring, e)
      BY DEF NewestOf, w, n
    <2>5. e \in Episodes
      BY <1>3
    <2>6. /\ Newer(w.ring, e) = Newer(V, e) /\ w.ring[e] = V[e] /\ V[e] > 0
          /\ ~(Cardinality(Newer(V, e)) >= RingSize)
      BY <2>1, <2>2, <2>5, NewestFacts
    <2>7. M[e] > 0 /\ Newer(V, e) \cap Live(n) = Newer(M, e)
      <3>1. CASE e = r.id
        <4>1. \A f \in Episodes : ~(V[f] > V[e]) /\ ~(M[f] > M[e])
          BY <1>1, <2>1, <2>4, <2>5, <3>1
        <4>2. Newer(V, e) = {} /\ Newer(M, e) = {}
          BY <4>1 DEF Newer
        <4> QED BY <1>1, <2>1, <2>5, <3>1, <4>2
      <3>2. CASE e # r.id
        <4>1. e \in Live(m) /\ v.ring[e] > 0
          BY <2>1, <2>3, <2>5, <2>6, <3>2
        <4>2. m.ring[e] > 0 /\ Newer(v.ring, e) \cap Live(m) = Newer(m.ring, e)
          BY <4>1 DEF NewestOf
        <4>3. \A f \in Episodes : /\ V[f] > V[e] <=> f = r.id \/ v.ring[f] > v.ring[e]
                                  /\ M[f] > M[e] <=> f = r.id \/ m.ring[f] > m.ring[e]
          BY <1>1, <2>1, <2>4, <2>5, <3>2, <4>1, <4>2
        <4>4. Newer(V, e) = Newer(v.ring, e) \cup new /\ Newer(M, e) = Newer(m.ring, e) \cup new
          BY <4>3 DEF Newer
        <4>5. M[e] > 0
          BY <2>1, <2>5, <3>2, <4>2
        <4> QED BY <2>3, <4>2, <4>4, <4>5
      <3> QED BY <3>1, <3>2
    <2>8. ~(Cardinality(Newer(M, e)) >= RingSize)
      <3>1. Newer(M, e) \subseteq Newer(V, e)
        BY <2>7
      <3>2. IsFiniteSet(Newer(V, e))
        BY StoreAssumption, FS_Subset DEF Newer
      <3>3. /\ Cardinality(Newer(M, e)) <= Cardinality(Newer(V, e))
            /\ Cardinality(Newer(M, e)) \in Nat /\ Cardinality(Newer(V, e)) \in Nat
        BY <3>1, <3>2, FS_Subset, FS_CardinalityType
      <3> QED BY <2>6, <3>3, StoreAssumption
    <2>9. n.ring[e] = M[e]
      BY <2>1, <2>2, <2>5, <2>8, NewestFacts
    <2>10. Newer(n.ring, e) = Newer(M, e)
      BY <2>1, <2>2, <2>5, <2>7, <2>9, NewestFacts
    <2> QED BY <2>6, <2>7, <2>9, <2>10
  <1>5. CASE r.op = "drop"
    <2>1. w.ring = Without(v.ring, {r.id}) /\ n.ring = Without(m.ring, {r.id})
      BY <1>5, AppliedRing DEF w, n
    <2>2. Live(n) = Live(m) \ {r.id}
      <3>1. \A e \in Episodes : n.eps[e] # Absent <=> e # r.id /\ m.eps[e] # Absent
        BY <1>1, <1>2, <1>5, ChangedFacts
      <3> QED BY <3>1 DEF Live
    <2> SUFFICES ASSUME NEW e \in Live(n), w.ring[e] > 0
                 PROVE  /\ n.ring[e] > 0
                        /\ Newer(w.ring, e) \cap Live(n) = Newer(n.ring, e)
      BY DEF NewestOf, w, n
    <2>3. e \in Episodes /\ e \in Live(m) /\ e \notin {r.id}
      BY <1>3, <2>2
    <2>4. /\ w.ring[e] = v.ring[e] /\ Newer(w.ring, e) = Newer(v.ring, e) \ {r.id}
          /\ n.ring[e] = m.ring[e] /\ Newer(n.ring, e) = Newer(m.ring, e) \ {r.id}
      BY <1>1, <2>1, <2>3, WithoutFacts
    <2>5. m.ring[e] > 0 /\ Newer(v.ring, e) \cap Live(m) = Newer(m.ring, e)
      BY <2>3, <2>4 DEF NewestOf
    <2> QED BY <2>2, <2>4, <2>5
  <1>6. CASE r.op \notin {"write", "drop"}
    <2>1. w.ring = v.ring /\ n.ring = m.ring
      BY <1>6, AppliedRing DEF w, n
    <2>2. Live(n) = Live(m)
      <3>1. \A e \in Episodes : n.eps[e] # Absent <=> m.eps[e] # Absent
        BY <1>1, <1>2, <1>6, ChangedFacts
      <3> QED BY <3>1 DEF Live
    <2> QED BY <2>1, <2>2 DEF NewestOf, w, n
  <1> QED BY <1>4, <1>5, <1>6

\* The views of a load and of the callers, once each has dropped what expired.
LEMMA FitShows ==
    ASSUME NEW v \in State, NEW m \in State, RingInOrder(v), RingInOrder(m), Fit(v, m, wal, now)
    PROVE  /\ SameView(Prune(v), Prune(m))
           /\ NewestOf(v, m) => NewestOf(Prune(v), Prune(m))
  <1> DEFINE V == Prune(v)
             M == Prune(m)
             goneV == Expired(v)
             goneM == Expired(m)
  <1>1. /\ V.hot = v.hot /\ M.hot = m.hot
        /\ \A e \in Episodes :
             /\ V.eps[e] = IF e \in goneV THEN Absent ELSE v.eps[e]
             /\ M.eps[e] = IF e \in goneM THEN Absent ELSE m.eps[e]
             /\ V.ring[e] = IF e \in goneV THEN 0 ELSE v.ring[e]
             /\ M.ring[e] = IF e \in goneM THEN 0 ELSE m.ring[e]
        /\ V.ring = Without(v.ring, goneV) /\ M.ring = Without(m.ring, goneM)
        /\ Live(M) = Live(m) \ goneM
    BY DEF Prune, Drop, Without, Live
  <1>2. /\ \A e \in Episodes : e \in goneV <=> v.eps[e] # Absent /\ v.eps[e].exp <= now
        /\ \A e \in Episodes : e \in goneM <=> m.eps[e] # Absent /\ m.eps[e].exp <= now
    BY DEF Expired, Live
  <1>3. \A e \in Episodes : v.ring[e] \in Nat /\ m.ring[e] \in Nat
                            /\ v.ring \in [Episodes -> Nat] /\ m.ring \in [Episodes -> Nat]
    BY DEF State
  <1>4. \A e \in Episodes : v.eps[e] # m.eps[e] =>
           /\ m.eps[e] = Absent
           /\ \/ v.eps[e] # Absent /\ v.eps[e].exp <= now
              \/ \E i \in 1..Len(wal) : wal[i].id = e /\ wal[i].op = "reinforce"
    BY DEF Fit, SameEpisodes
  <1> HIDE DEF V, M, goneV, goneM
  <1>5. SameView(V, M)
    <2>1. V.hot = M.hot
      BY <1>1 DEF Fit, SameEpisodes
    <2>2. \A e \in Episodes : V.eps[e] # M.eps[e] =>
             /\ M.eps[e] = Absent
             /\ \E i \in 1..Len(wal) : wal[i].id = e /\ wal[i].op = "reinforce"
      BY <1>1, <1>2, <1>4
    <2>3. \A e, f \in Live(M) :
             /\ V.ring[e] > 0 /\ V.ring[f] > 0 /\ M.ring[e] > 0 /\ M.ring[f] > 0
             => (V.ring[e] < V.ring[f] <=> M.ring[e] < M.ring[f])
      BY <1>1, <1>3 DEF Fit, SameOrder, Live
    <2> QED BY <2>1, <2>2, <2>3 DEF SameView
  <1>6. ASSUME NewestOf(v, m) PROVE NewestOf(V, M)
    <2> SUFFICES ASSUME NEW e \in Live(M), V.ring[e] > 0
                 PROVE  /\ M.ring[e] > 0
                        /\ Newer(V.ring, e) \cap Live(M) = Newer(M.ring, e)
      BY DEF NewestOf
    <2>1. e \in Live(m) /\ e \in Episodes /\ e \notin goneM /\ e \notin goneV
      BY <1>1 DEF Live
    <2>2. m.ring[e] > 0 /\ Newer(v.ring, e) \cap Live(m) = Newer(m.ring, e)
      BY <1>1, <1>6, <2>1 DEF NewestOf
    <2>3. /\ M.ring[e] = m.ring[e]
          /\ Newer(V.ring, e) = Newer(v.ring, e) \ goneV
          /\ Newer(M.ring, e) = Newer(m.ring, e) \ goneM
      BY <1>1, <1>3, <2>1, WithoutFacts
    <2>4. \A f \in Live(m) : f \in goneV <=> f \in goneM
      BY <1>2, <1>4 DEF Live
    <2> QED BY <1>1, <2>2, <2>3, <2>4
  <1> QED BY <1>5, <1>6 DEF V, M

-----------------------------------------------------------------------------
(* The same lines on two snapshots *)

\* What the lines replayed so far have made of two views v and w, of which the second
\* started from m: the lines decided about the episodes of "told" - they wrote or dropped
\* them - and wrote those of "top" last.
EpisodesMeet(m, told, top, v, w) ==
    /\ top \subseteq told /\ told \subseteq Episodes
    /\ w.hot \in {v.hot, m.hot}
    /\ \A e \in told : w.eps[e] = v.eps[e] /\ (e \notin top => v.eps[e] = Absent)
    /\ \A e \in Episodes \ told :
         /\ w.eps[e] = Absent <=> m.eps[e] = Absent
         /\ v.eps[e] # Absent /\ m.eps[e] # Absent =>
              /\ \/ w.eps[e].exp = v.eps[e].exp /\ w.eps[e].rev = v.eps[e].rev
                 \/ w.eps[e].exp = m.eps[e].exp /\ w.eps[e].rev = m.eps[e].rev
              /\ w.eps[e].ver \in {v.eps[e].ver, m.eps[e].ver}
RingsMeet(m, told, top, v, w) ==
    /\ \A e \in top :
         /\ v.ring[e] > 0 <=> w.ring[e] > 0
         /\ v.ring[e] > 0 => Newer(v.ring, e) = Newer(w.ring, e) /\ Newer(v.ring, e) \subseteq top
    /\ \A e \in Episodes \ top :
         /\ v.ring[e] > 0 => top \subseteq Newer(v.ring, e)
         /\ w.ring[e] > 0 =>
              /\ w.ring[e] = m.ring[e] /\ top \subseteq Newer(w.ring, e)
              /\ \A f \in Episodes \ told : f \in Newer(w.ring, e) <=> f \in Newer(m.ring, e)
Meet(m, told, top, v, w) == EpisodesMeet(m, told, top, v, w) /\ RingsMeet(m, told, top, v, w)

\* Before the first line nothing is decided.
LEMMA MeetStart ==
    ASSUME NEW b \in State, NEW m \in State
    PROVE  Meet(m, {}, {}, b, m)
  BY DEF Meet, EpisodesMeet, RingsMeet

\* A write in front of a ring, before the cut.
LEMMA PushedNewer ==
    ASSUME NEW st \in State, RingInOrder(st), NEW r \in Line, NEW e \in Episodes
    PROVE  /\ e = r.id => Newer(Pushed(st, r), e) = {}
           /\ e # r.id => Newer(Pushed(st, r), e) = Newer(st.ring, e) \cup ({r.id} \cap Episodes)
                          \/ st.ring[e] = 0
  <1>1. /\ \A f \in Episodes : Pushed(st, r)[f] = IF f = r.id THEN st.seq + 1 ELSE st.ring[f]
        /\ \A f \in Episodes : st.ring[f] \in Nat
        /\ st.seq \in Nat
    BY PushedFacts
  <1>2. \A f \in Episodes : st.ring[f] > 0 => st.ring[f] <= st.seq
    BY DEF RingInOrder
  <1>3. ASSUME e = r.id PROVE Newer(Pushed(st, r), e) = {}
    <2>1. \A f \in Episodes : ~(Pushed(st, r)[f] > Pushed(st, r)[e])
      BY <1>1, <1>2, <1>3
    <2> QED BY <2>1 DEF Newer
  <1>4. ASSUME e # r.id, st.ring[e] # 0
        PROVE  Newer(Pushed(st, r), e) = Newer(st.ring, e) \cup ({r.id} \cap Episodes)
    <2>1. \A f \in Episodes : Pushed(st, r)[f] > Pushed(st, r)[e]
                                <=> f = r.id \/ st.ring[f] > st.ring[e]
      BY <1>1, <1>2, <1>4
    <2> QED BY <2>1 DEF Newer
  <1> QED BY <1>3, <1>4

\* A write: what is left of a ring, id by id.
LEMMA WrittenRing ==
    ASSUME NEW st \in State, RingInOrder(st), NEW r \in Line, r.op = "write", NEW e \in Episodes
    PROVE  /\ e = r.id => /\ Apply(st, r).ring[e] > 0 <=> ~(0 >= RingSize)
                          /\ Apply(st, r).ring[e] > 0 => Newer(Apply(st, r).ring, e) = {}
           /\ e # r.id =>
                /\ Apply(st, r).ring[e] > 0 <=>
                     /\ st.ring[e] > 0
                     /\ ~(Cardinality(Newer(st.ring, e) \cup ({r.id} \cap Episodes)) >= RingSize)
                /\ Apply(st, r).ring[e] > 0 =>
                     /\ Apply(st, r).ring[e] = st.ring[e]
                     /\ Newer(Apply(st, r).ring, e) = Newer(st.ring, e) \cup ({r.id} \cap Episodes)
  <1> DEFINE pushed == Pushed(st, r)
             next == Apply(st, r).ring
  <1>1. /\ pushed \in [Episodes -> Nat]
        /\ pushed[e] = IF e = r.id THEN st.seq + 1 ELSE st.ring[e]
        /\ st.seq \in Nat /\ st.ring[e] \in Nat
    BY PushedFacts
  <1>2. next = Newest(pushed)
    BY AppliedRing
  <1>3. /\ e = r.id => Newer(pushed, e) = {}
        /\ e # r.id => Newer(pushed, e) = Newer(st.ring, e) \cup ({r.id} \cap Episodes)
                       \/ st.ring[e] = 0
    BY PushedNewer
  <1> HIDE DEF pushed, next
  <1>4. /\ next[e] = IF Cardinality(Newer(pushed, e)) >= RingSize THEN 0 ELSE pushed[e]
        /\ next[e] > 0 => Newer(next, e) = Newer(pushed, e)
    BY <1>1, <1>2, NewestFacts
  <1>5. CASE e = r.id
    <2>1. Cardinality({}) = 0
      BY FS_EmptySet
    <2>2. Newer(pushed, e) = {}
      BY <1>3, <1>5
    <2>3. pushed[e] = st.seq + 1 /\ pushed[e] > 0
      BY <1>1, <1>5
    <2>4. next[e] = IF 0 >= RingSize THEN 0 ELSE pushed[e]
      BY <1>4, <2>1, <2>2
    <2>5. next[e] > 0 <=> ~(0 >= RingSize)
      BY <2>3, <2>4
    <2>6. next[e] > 0 => Newer(next, e) = {}
      BY <1>4, <2>2
    <2> QED BY <1>5, <2>5, <2>6 DEF next
  <1>6. CASE e # r.id
    <2>1. CASE st.ring[e] = 0
      BY <1>1, <1>4, <1>6, <2>1 DEF next
    <2>2. CASE st.ring[e] # 0
      <3>1. Newer(pushed, e) = Newer(st.ring, e) \cup ({r.id} \cap Episodes)
        BY <1>3, <1>6, <2>2
      <3> QED BY <1>1, <1>4, <1>6, <2>2, <3>1 DEF next
    <2> QED BY <2>1, <2>2
  <1> QED BY <1>5, <1>6

\* Which ids the lines have written and dropped after one more.
ToldBy(told, r) == IF r.op \in {"write", "drop"} THEN told \cup ({r.id} \cap Episodes) ELSE told
TopBy(top, r) == IF r.op = "write" THEN top \cup ({r.id} \cap Episodes)
                 ELSE IF r.op = "drop" THEN top \ {r.id} ELSE top

\* One line keeps the rings together.
LEMMA RingsMeetStep ==
    ASSUME NEW m \in State, NEW v \in State, NEW w \in State, RingInOrder(v), RingInOrder(w),
           NEW told, NEW top, NEW r \in Line,
           top \subseteq told, told \subseteq Episodes, RingsMeet(m, told, top, v, w)
    PROVE  RingsMeet(m, ToldBy(told, r), TopBy(top, r), Apply(v, r), Apply(w, r))
  <1> DEFINE V == Apply(v, r).ring
             W == Apply(w, r).ring
             told2 == ToldBy(told, r)
             top2 == TopBy(top, r)
             new == {r.id} \cap Episodes
  <1>1. /\ v.ring \in [Episodes -> Nat] /\ w.ring \in [Episodes -> Nat]
        /\ \A e \in Episodes : v.ring[e] \in Nat /\ w.ring[e] \in Nat
    BY DEF State
  <1>2. /\ \A e \in top :
             /\ v.ring[e] > 0 <=> w.ring[e] > 0
             /\ v.ring[e] > 0 => Newer(v.ring, e) = Newer(w.ring, e) /\ Newer(v.ring, e) \subseteq top
        /\ \A e \in Episodes \ top :
             /\ v.ring[e] > 0 => top \subseteq Newer(v.ring, e)
             /\ w.ring[e] > 0 =>
                  /\ w.ring[e] = m.ring[e] /\ top \subseteq Newer(w.ring, e)
                  /\ \A f \in Episodes \ told : f \in Newer(w.ring, e) <=> f \in Newer(m.ring, e)
    BY DEF RingsMeet
  <1>3. /\ r.op = "write" => told2 = told \cup new /\ top2 = top \cup new
        /\ r.op = "drop" => told2 = told \cup new /\ top2 = top \ {r.id}
        /\ r.op \notin {"write", "drop"} => told2 = told /\ top2 = top
    BY DEF ToldBy, TopBy
  <1> SUFFICES /\ \A e \in top2 :
                    /\ V[e] > 0 <=> W[e] > 0
                    /\ V[e] > 0 => Newer(V, e) = Newer(W, e) /\ Newer(V, e) \subseteq top2
               /\ \A e \in Episodes \ top2 :
                    /\ V[e] > 0 => top2 \subseteq Newer(V, e)
                    /\ W[e] > 0 =>
                         /\ W[e] = m.ring[e] /\ top2 \subseteq Newer(W, e)
                         /\ \A f \in Episodes \ told2 : f \in Newer(W, e) <=> f \in Newer(m.ring, e)
    BY DEF RingsMeet
  <1>4. CASE r.op = "write"
    <2>1. ASSUME NEW e \in Episodes
          PROVE  /\ e = r.id => /\ V[e] > 0 <=> ~(0 >= RingSize)
                                /\ V[e] > 0 => Newer(V, e) = {}
                 /\ e # r.id =>
                      /\ V[e] > 0 <=> v.ring[e] > 0 /\ ~(Cardinality(Newer(v.ring, e) \cup new) >= RingSize)
                      /\ V[e] > 0 => V[e] = v.ring[e] /\ Newer(V, e) = Newer(v.ring, e) \cup new
                 /\ e = r.id => /\ W[e] > 0 <=> ~(0 >= RingSize)
                                /\ W[e] > 0 => Newer(W, e) = {}
                 /\ e # r.id =>
                      /\ W[e] > 0 <=> w.ring[e] > 0 /\ ~(Cardinality(Newer(w.ring, e) \cup new) >= RingSize)
                      /\ W[e] > 0 => W[e] = w.ring[e] /\ Newer(W, e) = Newer(w.ring, e) \cup new
      BY <1>4, WrittenRing
    <2> HIDE DEF V, W, told2, top2
    <2>2. ASSUME NEW e \in top2
          PROVE  /\ V[e] > 0 <=> W[e] > 0
                 /\ V[e] > 0 => Newer(V, e) = Newer(W, e) /\ Newer(V, e) \subseteq top2
      <3>1. e \in Episodes
        BY <1>3, <1>4
      <3>2. CASE e = r.id
        BY <2>1, <3>1, <3>2
      <3>3. CASE e # r.id
        <4>1. e \in top
          BY <1>3, <1>4, <3>3
        <4>2. /\ v.ring[e] > 0 <=> w.ring[e] > 0
              /\ v.ring[e] > 0 => /\ Newer(v.ring, e) = Newer(w.ring, e)
                                  /\ Newer(v.ring, e) \subseteq top
          BY <1>2, <4>1
        <4>3. /\ V[e] > 0 <=> /\ v.ring[e] > 0
                              /\ ~(Cardinality(Newer(v.ring, e) \cup new) >= RingSize)
              /\ W[e] > 0 <=> /\ w.ring[e] > 0
                              /\ ~(Cardinality(Newer(w.ring, e) \cup new) >= RingSize)
              /\ V[e] > 0 => Newer(V, e) = Newer(v.ring, e) \cup new
              /\ W[e] > 0 => Newer(W, e) = Newer(w.ring, e) \cup new
          BY <2>1, <3>1, <3>3
        <4> HIDE DEF new
        <4>4. V[e] > 0 <=> W[e] > 0
          BY <4>2, <4>3
        <4>5. V[e] > 0 => Newer(V, e) = Newer(W, e) /\ Newer(V, e) \subseteq top \cup new
          BY <4>2, <4>3
        <4> QED BY <1>3, <1>4, <4>4, <4>5
      <3> QED BY <3>2, <3>3
    <2>3. ASSUME NEW e \in Episodes \ top2
          PROVE  /\ V[e] > 0 => top2 \subseteq Newer(V, e)
                 /\ W[e] > 0 =>
                      /\ W[e] = m.ring[e] /\ top2 \subseteq Newer(W, e)
                      /\ \A f \in Episodes \ told2 : f \in Newer(W, e) <=> f \in Newer(m.ring, e)
      <3>1. e # r.id /\ e \in Episodes \ top
        BY <1>3, <1>4
      <3>2. /\ V[e] > 0 => v.ring[e] > 0 /\ Newer(V, e) = Newer(v.ring, e) \cup new
            /\ W[e] > 0 => w.ring[e] > 0 /\ W[e] = w.ring[e] /\ Newer(W, e) = Newer(w.ring, e) \cup new
        BY <2>1, <3>1
      <3> HIDE DEF new
      <3>3. V[e] > 0 => top2 \subseteq Newer(V, e)
        BY <1>2, <1>3, <1>4, <3>1, <3>2
      <3>4. W[e] > 0 => W[e] = m.ring[e] /\ top2 \subseteq Newer(W, e)
        BY <1>2, <1>3, <1>4, <3>1, <3>2
      <3>5. ASSUME W[e] > 0, NEW f \in Episodes \ told2
            PROVE  f \in Newer(W, e) <=> f \in Newer(m.ring, e)
        <4>1. f \notin new /\ f \in Episodes \ told
          BY <1>3, <1>4
        <4> QED BY <1>2, <3>1, <3>2, <3>5, <4>1
      <3> QED BY <3>3, <3>4, <3>5
    <2> QED BY <2>2, <2>3
  <1>5. CASE r.op = "drop"
    <2>1. V = Without(v.ring, {r.id}) /\ W = Without(w.ring, {r.id})
      BY <1>5, AppliedRing
    <2> HIDE DEF V, W, told2, top2
    <2>2. ASSUME NEW e \in Episodes
          PROVE  /\ e = r.id => V[e] = 0 /\ W[e] = 0
                 /\ e # r.id => /\ V[e] = v.ring[e] /\ Newer(V, e) = Newer(v.ring, e) \ {r.id}
                                /\ W[e] = w.ring[e] /\ Newer(W, e) = Newer(w.ring, e) \ {r.id}
      BY <1>1, <2>1, WithoutFacts
    <2>3. ASSUME NEW e \in top2
          PROVE  /\ V[e] > 0 <=> W[e] > 0
                 /\ V[e] > 0 => Newer(V, e) = Newer(W, e) /\ Newer(V, e) \subseteq top2
      <3>1. e \in top /\ e # r.id /\ e \in Episodes
        BY <1>3, <1>5
      <3>2. /\ v.ring[e] > 0 <=> w.ring[e] > 0
            /\ v.ring[e] > 0 => Newer(v.ring, e) = Newer(w.ring, e) /\ Newer(v.ring, e) \subseteq top
        BY <1>2, <3>1
      <3>3. /\ V[e] = v.ring[e] /\ Newer(V, e) = Newer(v.ring, e) \ {r.id}
            /\ W[e] = w.ring[e] /\ Newer(W, e) = Newer(w.ring, e) \ {r.id}
        BY <2>2, <3>1
      <3>4. top2 = top \ {r.id}
        BY <1>3, <1>5
      <3> QED BY <3>2, <3>3, <3>4
    <2>4. ASSUME NEW e \in Episodes \ top2
          PROVE  /\ V[e] > 0 => top2 \subseteq Newer(V, e)
                 /\ W[e] > 0 =>
                      /\ W[e] = m.ring[e] /\ top2 \subseteq Newer(W, e)
                      /\ \A f \in Episodes \ told2 : f \in Newer(W, e) <=> f \in Newer(m.ring, e)
      <3>1. CASE e = r.id
        BY <2>2, <3>1
      <3>2. CASE e # r.id
        <4>1. e \in Episodes \ top
          BY <1>3, <1>5, <3>2
        <4>2. /\ V[e] = v.ring[e] /\ Newer(V, e) = Newer(v.ring, e) \ {r.id}
              /\ W[e] = w.ring[e] /\ Newer(W, e) = Newer(w.ring, e) \ {r.id}
          BY <2>2, <3>2
        <4>3. V[e] > 0 => top2 \subseteq Newer(V, e)
          BY <1>2, <1>3, <1>5, <4>1, <4>2
        <4>4. W[e] > 0 => W[e] = m.ring[e] /\ top2 \subseteq Newer(W, e)
          BY <1>2, <1>3, <1>5, <4>1, <4>2
        <4>5. ASSUME W[e] > 0, NEW f \in Episodes \ told2
              PROVE  f \in Newer(W, e) <=> f \in Newer(m.ring, e)
          <5>1. f # r.id /\ f \in Episodes \ told
            BY <1>3, <1>5
          <5> QED BY <1>2, <4>1, <4>2, <4>5, <5>1
        <4> QED BY <4>3, <4>4, <4>5
      <3> QED BY <3>1, <3>2
    <2> QED BY <2>3, <2>4
  <1>6. CASE r.op \notin {"write", "drop"}
    <2>1. V = v.ring /\ W = w.ring
      BY <1>6, AppliedRing
    <2> HIDE DEF V, W, told2, top2
    <2> QED BY <1>2, <1>3, <1>6, <2>1
  <1> QED BY <1>4, <1>5, <1>6

\* One line keeps the episodes together.
LEMMA EpisodesMeetStep ==
    ASSUME NEW m \in State, NEW v \in State, NEW w \in State,
           NEW told, NEW top, NEW r \in Line, EpisodesMeet(m, told, top, v, w)
    PROVE  EpisodesMeet(m, ToldBy(told, r), TopBy(top, r), Apply(v, r), Apply(w, r))
  <1> DEFINE V == Apply(v, r)
             W == Apply(w, r)
             told2 == ToldBy(told, r)
             top2 == TopBy(top, r)
             new == {r.id} \cap Episodes
  <1>1. /\ r.op = "write" => told2 = told \cup new /\ top2 = top \cup new
        /\ r.op = "drop" => told2 = told \cup new /\ top2 = top \ {r.id}
        /\ r.op \notin {"write", "drop"} => told2 = told /\ top2 = top
    BY DEF ToldBy, TopBy
  <1>2. /\ \A e \in Episodes : V.eps[e] = IF e = r.id THEN Changed(v.eps[e], r) ELSE v.eps[e]
        /\ \A e \in Episodes : W.eps[e] = IF e = r.id THEN Changed(w.eps[e], r) ELSE w.eps[e]
        /\ V.hot = IF r.op = "touch" THEN r.exp ELSE v.hot
        /\ W.hot = IF r.op = "touch" THEN r.exp ELSE w.hot
    BY DEF Apply
  <1>3. /\ \A e \in Episodes : /\ v.eps[e] \in Entry \cup {Absent}
                               /\ w.eps[e] \in Entry \cup {Absent}
                               /\ m.eps[e] \in Entry \cup {Absent}
        /\ r.op \in {"write", "drop", "reinforce", "rewrite", "touch"}
    BY DEF State, Line, Ops
  <1>4. /\ top \subseteq told /\ told \subseteq Episodes
        /\ w.hot \in {v.hot, m.hot}
        /\ \A e \in told : w.eps[e] = v.eps[e] /\ (e \notin top => v.eps[e] = Absent)
        /\ \A e \in Episodes \ told :
             /\ w.eps[e] = Absent <=> m.eps[e] = Absent
             /\ v.eps[e] # Absent /\ m.eps[e] # Absent =>
                  /\ \/ w.eps[e].exp = v.eps[e].exp /\ w.eps[e].rev = v.eps[e].rev
                     \/ w.eps[e].exp = m.eps[e].exp /\ w.eps[e].rev = m.eps[e].rev
                  /\ w.eps[e].ver \in {v.eps[e].ver, m.eps[e].ver}
    BY DEF EpisodesMeet
  <1> HIDE DEF V, W, told2, top2
  <1>5. top2 \subseteq told2 /\ told2 \subseteq Episodes
    BY <1>1, <1>3, <1>4
  <1>6. W.hot \in {V.hot, m.hot}
    BY <1>2, <1>4
  <1>7. ASSUME NEW e \in told2
        PROVE  W.eps[e] = V.eps[e] /\ (e \notin top2 => V.eps[e] = Absent)
    <2>1. e \in Episodes
      BY <1>5
    <2>2. CASE e \in told
      BY <1>1, <1>2, <1>3, <1>4, <2>1, <2>2, ChangedFacts
    <2>3. CASE e \notin told
      <3>1. e = r.id /\ r.op \in {"write", "drop"}
        BY <1>1, <2>3
      <3>2. W.eps[e] = Changed(w.eps[e], r) /\ V.eps[e] = Changed(v.eps[e], r)
        BY <1>2, <2>1, <3>1
      <3>3. CASE r.op = "write"
        BY <1>1, <2>1, <3>1, <3>2, <3>3 DEF Changed
      <3>4. CASE r.op = "drop"
        BY <1>1, <2>1, <3>1, <3>2, <3>4 DEF Changed
      <3> QED BY <3>1, <3>3, <3>4
    <2> QED BY <2>2, <2>3
  <1>8. ASSUME NEW e \in Episodes \ told2
        PROVE  /\ W.eps[e] = Absent <=> m.eps[e] = Absent
               /\ V.eps[e] # Absent /\ m.eps[e] # Absent =>
                    /\ \/ W.eps[e].exp = V.eps[e].exp /\ W.eps[e].rev = V.eps[e].rev
                       \/ W.eps[e].exp = m.eps[e].exp /\ W.eps[e].rev = m.eps[e].rev
                    /\ W.eps[e].ver \in {V.eps[e].ver, m.eps[e].ver}
    <2>1. e \in Episodes \ told
      BY <1>1
    <2>2. CASE e # r.id
      BY <1>2, <1>4, <2>1, <2>2
    <2>3. CASE e = r.id
      <3>1. r.op \in {"reinforce", "rewrite", "touch"}
        BY <1>1, <1>3, <2>3
      <3>2. W.eps[e] = Changed(w.eps[e], r) /\ V.eps[e] = Changed(v.eps[e], r)
        BY <1>2, <2>3
      <3>3. /\ W.eps[e] = Absent <=> w.eps[e] = Absent
            /\ V.eps[e] = Absent <=> v.eps[e] = Absent
        BY <1>3, <3>1, <3>2, ChangedFacts
      <3>4. ASSUME V.eps[e] # Absent, m.eps[e] # Absent
            PROVE  /\ \/ W.eps[e].exp = V.eps[e].exp /\ W.eps[e].rev = V.eps[e].rev
                      \/ W.eps[e].exp = m.eps[e].exp /\ W.eps[e].rev = m.eps[e].rev
                   /\ W.eps[e].ver \in {V.eps[e].ver, m.eps[e].ver}
        <4>1. v.eps[e] # Absent /\ w.eps[e] # Absent
          BY <1>4, <2>1, <3>3, <3>4
        <4>2. /\ \/ w.eps[e].exp = v.eps[e].exp /\ w.eps[e].rev = v.eps[e].rev
                 \/ w.eps[e].exp = m.eps[e].exp /\ w.eps[e].rev = m.eps[e].rev
              /\ w.eps[e].ver \in {v.eps[e].ver, m.eps[e].ver}
          BY <1>4, <2>1, <3>4, <4>1
        <4>3. CASE r.op = "reinforce"
          <5>1. /\ W.eps[e] = [exp |-> r.exp, rev |-> r.rev, ver |-> w.eps[e].ver]
                /\ V.eps[e] = [exp |-> r.exp, rev |-> r.rev, ver |-> v.eps[e].ver]
            BY <3>2, <4>1, <4>3 DEF Changed
          <5> QED BY <4>2, <5>1
        <4>4. CASE r.op = "rewrite"
          <5>1. /\ W.eps[e] = [exp |-> w.eps[e].exp, rev |-> w.eps[e].rev, ver |-> r.lsn]
                /\ V.eps[e] = [exp |-> v.eps[e].exp, rev |-> v.eps[e].rev, ver |-> r.lsn]
            BY <3>2, <4>1, <4>4 DEF Changed
          <5> QED BY <4>2, <5>1
        <4>5. CASE r.op = "touch"
          BY <1>3, <3>2, <4>2, <4>5, ChangedFacts
        <4> QED BY <3>1, <4>3, <4>4, <4>5
      <3> QED BY <1>4, <2>1, <3>3, <3>4
    <2> QED BY <2>2, <2>3
  <1> QED BY <1>5, <1>6, <1>7, <1>8 DEF EpisodesMeet, V, W, told2, top2

\* A replay ends with a view whose ring is in order.
LEMMA FinalIsSound ==
    ASSUME NEW st \in State, RingInOrder(st), NEW log \in Seq(Line)
    PROVE  /\ Final(st, log) \in State /\ RingInOrder(Final(st, log))
           /\ \A i \in 0..Len(log) : View(st, log)[i] \in State /\ RingInOrder(View(st, log)[i])
  <1> DEFINE v == View(st, log)
             n == Len(log)
             S == {i \in 0..n : v[i] \in State /\ RingInOrder(v[i])}
  <1>1. n \in Nat /\ \A i \in 1..n : log[i] \in Line
    OBVIOUS
  <1>2. v[0] = st /\ \A i \in 1..n : v[i] = Apply(v[i - 1], log[i])
    BY ViewUnfolds
  <1> HIDE DEF v, n
  <1>3. 0 \in S
    BY <1>1, <1>2
  <1>4. ASSUME NEW i \in 1..n, i - 1 \in S PROVE i \in S
    <2>1. v[i - 1] \in State /\ RingInOrder(v[i - 1]) /\ log[i] \in Line
      BY <1>1, <1>4
    <2>2. Apply(v[i - 1], log[i]) \in State /\ RingInOrder(Apply(v[i - 1], log[i]))
      BY <2>1, ApplyFacts, RingOkApply
    <2> QED BY <1>2, <2>2
  <1>5. \A i \in 0..n : i \in S
    <2> HIDE DEF S
    <2> QED BY <1>1, <1>3, <1>4, HandedOn
  <1>6. \A i \in 0..n : v[i] \in State /\ RingInOrder(v[i])
    BY <1>5
  <1> QED BY <1>1, <1>6 DEF Final, v, n

\* The same lines replayed on two views make them meet.
LEMMA ReplaysMeet ==
    ASSUME NEW b \in State, RingInOrder(b), NEW m \in State, RingInOrder(m), NEW log \in Seq(Line)
    PROVE  \E told, top \in SUBSET Episodes : Meet(m, told, top, Final(b, log), Final(m, log))
  <1> DEFINE v == View(b, log)
             w == View(m, log)
             n == Len(log)
             S == {i \in 0..n : \E told, top \in SUBSET Episodes : Meet(m, told, top, v[i], w[i])}
  <1>1. n \in Nat /\ \A i \in 1..n : log[i] \in Line
    OBVIOUS
  <1>2. /\ v[0] = b /\ \A i \in 1..n : v[i] = Apply(v[i - 1], log[i])
        /\ w[0] = m /\ \A i \in 1..n : w[i] = Apply(w[i - 1], log[i])
    BY ViewUnfolds
  <1>3. \A i \in 0..n : v[i] \in State /\ RingInOrder(v[i]) /\ w[i] \in State /\ RingInOrder(w[i])
    BY FinalIsSound
  <1> HIDE DEF v, w, n
  <1>4. 0 \in S
    <2>1. Meet(m, {}, {}, v[0], w[0])
      BY <1>2, MeetStart
    <2> QED BY <1>1, <2>1
  <1>5. ASSUME NEW i \in 1..n, i - 1 \in S PROVE i \in S
    <2>1. i - 1 \in 0..n /\ i \in 0..n
      BY <1>1
    <2> DEFINE x == v[i - 1]
               y == w[i - 1]
               r == log[i]
    <2>2. x \in State /\ RingInOrder(x) /\ y \in State /\ RingInOrder(y) /\ r \in Line
      BY <1>1, <1>3, <2>1
    <2>3. PICK told, top \in SUBSET Episodes : Meet(m, told, top, x, y)
      BY <1>5
    <2>4. v[i] = Apply(x, r) /\ w[i] = Apply(y, r)
      BY <1>2
    <2> HIDE DEF x, y, r
    <2>5. Meet(m, ToldBy(told, r), TopBy(top, r), Apply(x, r), Apply(y, r))
      <3>1. /\ EpisodesMeet(m, told, top, x, y) /\ RingsMeet(m, told, top, x, y)
            /\ top \subseteq told /\ told \subseteq Episodes
        BY <2>3 DEF Meet, EpisodesMeet
      <3>2. EpisodesMeet(m, ToldBy(told, r), TopBy(top, r), Apply(x, r), Apply(y, r))
        BY <2>2, <3>1, EpisodesMeetStep
      <3>3. RingsMeet(m, ToldBy(told, r), TopBy(top, r), Apply(x, r), Apply(y, r))
        BY <2>2, <3>1, RingsMeetStep
      <3> QED BY <3>2, <3>3 DEF Meet
    <2>6. ToldBy(told, r) \in SUBSET Episodes /\ TopBy(top, r) \in SUBSET Episodes
      BY DEF ToldBy, TopBy
    <2> QED BY <2>1, <2>4, <2>5, <2>6
  <1>6. \A i \in 0..n : i \in S
    <2> HIDE DEF S
    <2> QED BY <1>1, <1>4, <1>5, HandedOn
  <1>7. n \in S
    BY <1>1, <1>6
  <1> QED BY <1>7 DEF Final, v, w, n

\* A view that fits the running one, and the running one with the log replayed on it once
\* more, fit each other.
LEMMA MeetFits ==
    ASSUME NEW m \in State, NEW v \in State, NEW w \in State, RingInOrder(m), RingInOrder(v), RingInOrder(w),
           NEW told \in SUBSET Episodes, NEW top \in SUBSET Episodes, Meet(m, told, top, v, w),
           NEW log, NEW t, Fit(v, m, log, t)
    PROVE  /\ Fit(v, w, log, t)
           /\ SameEpisodes(w, m, log, t)
  <1>1. /\ top \subseteq told /\ told \subseteq Episodes
        /\ w.hot \in {v.hot, m.hot}
        /\ \A e \in told : w.eps[e] = v.eps[e] /\ (e \notin top => v.eps[e] = Absent)
        /\ \A e \in Episodes \ told :
             /\ w.eps[e] = Absent <=> m.eps[e] = Absent
             /\ v.eps[e] # Absent /\ m.eps[e] # Absent =>
                  /\ \/ w.eps[e].exp = v.eps[e].exp /\ w.eps[e].rev = v.eps[e].rev
                     \/ w.eps[e].exp = m.eps[e].exp /\ w.eps[e].rev = m.eps[e].rev
                  /\ w.eps[e].ver \in {v.eps[e].ver, m.eps[e].ver}
    BY DEF Meet, EpisodesMeet
  <1>2. /\ v.hot = m.hot
        /\ \A e \in Episodes : v.eps[e] # m.eps[e] =>
             /\ m.eps[e] = Absent
             /\ \/ v.eps[e] # Absent /\ v.eps[e].exp <= t
                \/ \E i \in 1..Len(log) : log[i].id = e /\ log[i].op = "reinforce"
    BY DEF Fit, SameEpisodes
  <1>3. \A e \in Episodes : /\ v.eps[e] \in Entry \cup {Absent}
                            /\ w.eps[e] \in Entry \cup {Absent}
                            /\ v.ring[e] \in Nat /\ w.ring[e] \in Nat /\ m.ring[e] \in Nat
    BY DEF State
  <1>4. w.hot = v.hot /\ w.hot = m.hot
    BY <1>1, <1>2
  <1>5. ASSUME NEW e \in Episodes
        PROVE  w.eps[e] = v.eps[e] \/ (e \notin told /\ w.eps[e] = Absent /\ m.eps[e] = Absent)
    <2>1. CASE e \in told
      BY <1>1, <2>1
    <2>2. CASE e \notin told /\ m.eps[e] = Absent
      BY <1>1, <2>2
    <2>3. CASE e \notin told /\ m.eps[e] # Absent
      <3>1. v.eps[e] = m.eps[e]
        BY <1>2, <2>3
      <3>2. w.eps[e] # Absent /\ v.eps[e] # Absent
        BY <1>1, <2>3, <3>1
      <3>3. /\ w.eps[e].exp = v.eps[e].exp /\ w.eps[e].rev = v.eps[e].rev
            /\ w.eps[e].ver = v.eps[e].ver
        BY <1>1, <2>3, <3>1, <3>2
      <3>4. w.eps[e] \in Entry /\ v.eps[e] \in Entry
        BY <1>3, <3>2
      <3>5. w.eps[e] = v.eps[e]
        BY <3>3, <3>4 DEF Entry
      <3> QED BY <3>5
    <2> QED BY <2>1, <2>2, <2>3
  <1>6. SameEpisodes(v, w, log, t)
    BY <1>2, <1>4, <1>5 DEF SameEpisodes
  <1>7. SameEpisodes(w, m, log, t)
    BY <1>2, <1>4, <1>5 DEF SameEpisodes
  <1>8. SameOrder(v, w)
    <2>1. /\ \A e \in top :
               /\ v.ring[e] > 0 => Newer(v.ring, e) = Newer(w.ring, e)
          /\ \A e \in Episodes \ top :
               /\ v.ring[e] > 0 => top \subseteq Newer(v.ring, e)
               /\ w.ring[e] > 0 => w.ring[e] = m.ring[e] /\ top \subseteq Newer(w.ring, e)
      BY DEF Meet, RingsMeet
    <2> SUFFICES ASSUME NEW e \in Episodes, NEW f \in Episodes,
                        v.ring[e] > 0, v.ring[f] > 0, w.ring[e] > 0, w.ring[f] > 0
                 PROVE  v.ring[e] < v.ring[f] <=> w.ring[e] < w.ring[f]
      BY DEF SameOrder
    <2>2. CASE e \in top
      <3>1. f \in Newer(v.ring, e) <=> f \in Newer(w.ring, e)
        BY <2>1, <2>2
      <3> QED BY <3>1 DEF Newer
    <2>3. CASE e \notin top /\ f \in top
      <3>1. f \in Newer(v.ring, e) /\ f \in Newer(w.ring, e)
        BY <2>1, <2>3
      <3> QED BY <3>1 DEF Newer
    <2>4. CASE e \notin top /\ f \notin top
      <3>1. w.ring[e] = m.ring[e] /\ w.ring[f] = m.ring[f]
        BY <2>1, <2>4
      <3> QED BY <3>1 DEF Fit, SameOrder
    <2> QED BY <2>2, <2>3, <2>4
  <1> QED BY <1>6, <1>7, <1>8 DEF Fit

\* If the first replay names the newest ids, so does the second.
LEMMA MeetNewest ==
    ASSUME NEW m \in State, NEW v \in State, NEW w \in State, RingInOrder(m), RingInOrder(v), RingInOrder(w),
           NEW told \in SUBSET Episodes, NEW top \in SUBSET Episodes, Meet(m, told, top, v, w),
           NEW log, NEW t, Fit(v, m, log, t), NewestOf(v, m)
    PROVE  NewestOf(w, m)
  <1>1. /\ top \subseteq told
        /\ \A e \in told : e \notin top => v.eps[e] = Absent /\ w.eps[e] = Absent
        /\ \A e \in top :
             /\ v.ring[e] > 0 <=> w.ring[e] > 0
             /\ v.ring[e] > 0 => Newer(v.ring, e) = Newer(w.ring, e) /\ Newer(v.ring, e) \subseteq top
        /\ \A e \in Episodes \ top : w.ring[e] > 0 =>
             /\ w.ring[e] = m.ring[e] /\ top \subseteq Newer(w.ring, e)
             /\ \A f \in Episodes \ told : f \in Newer(w.ring, e) <=> f \in Newer(m.ring, e)
    BY DEF Meet, RingsMeet, EpisodesMeet
  <1>2. \A e \in Live(m) : v.ring[e] > 0 =>
           m.ring[e] > 0 /\ Newer(v.ring, e) \cap Live(m) = Newer(m.ring, e)
    BY DEF NewestOf
  <1>3. /\ \A e \in Episodes : v.ring[e] \in Nat /\ w.ring[e] \in Nat /\ m.ring[e] \in Nat
        /\ Live(m) \subseteq Episodes
    BY DEF State, Live
  <1>4. \A e \in Episodes : m.ring[e] > 0 =>
           /\ e \in Live(m)
           /\ \A f \in Episodes : m.ring[f] = m.ring[e] => f = e
    BY DEF RingInOrder, Live
  <1>5. \A e \in Episodes : w.ring[e] > 0 => w.eps[e] # Absent
    BY DEF RingInOrder
  <1>6. \A e \in Live(m) : v.eps[e] # Absent
    BY DEF Fit, SameEpisodes, Live
  <1> SUFFICES ASSUME NEW e \in Live(m), w.ring[e] > 0
               PROVE  m.ring[e] > 0 /\ Newer(w.ring, e) \cap Live(m) = Newer(m.ring, e)
    BY DEF NewestOf
  <1>7. e \in Episodes
    BY <1>3
  <1>8. CASE e \in top
    BY <1>1, <1>2, <1>8
  <1>9. CASE e \notin top
    <2>1. /\ w.ring[e] = m.ring[e] /\ top \subseteq Newer(w.ring, e)
          /\ \A f \in Episodes \ told : f \in Newer(w.ring, e) <=> f \in Newer(m.ring, e)
      BY <1>1, <1>7, <1>9
    <2>2. ASSUME NEW f \in Live(m), f \notin top, f \in told PROVE FALSE
      BY <1>1, <1>6, <2>2
    <2>3. ASSUME NEW f \in Newer(m.ring, e) PROVE f \in Newer(w.ring, e) /\ f \in Live(m)
      <3>1. f \in Episodes /\ m.ring[f] > 0
        BY <1>3, <1>7, <2>3 DEF Newer
      <3>2. f \in Live(m)
        BY <1>4, <3>1
      <3> QED BY <2>1, <2>2, <2>3, <3>1, <3>2
    <2>4. ASSUME NEW f \in Live(m), f \in Newer(w.ring, e) PROVE f \in Newer(m.ring, e)
      <3>0. f \in Episodes
        BY <1>3
      <3>1. CASE f \notin told
        BY <2>1, <2>4, <3>0, <3>1
      <3>2. CASE f \in top
        <4>1. w.ring[f] > w.ring[e]
          BY <2>4 DEF Newer
        <4>2. w.ring[f] > 0
          BY <1>3, <1>7, <3>0, <4>1
        <4>3. /\ v.ring[f] > 0
              /\ Newer(v.ring, f) \subseteq top
          BY <1>1, <3>2, <4>2
        <4>4. m.ring[f] > 0 /\ Newer(v.ring, f) \cap Live(m) = Newer(m.ring, f)
          BY <1>2, <4>3
        <4>5. e \notin Newer(m.ring, f)
          BY <1>9, <4>3, <4>4
        <4>6. ~(m.ring[e] > m.ring[f])
          BY <1>7, <4>5 DEF Newer
        <4>7. m.ring[e] # m.ring[f]
          BY <1>4, <1>7, <1>9, <3>0, <3>2, <4>4
        <4>8. m.ring[f] > m.ring[e]
          BY <1>3, <1>7, <3>0, <4>6, <4>7
        <4> QED BY <3>0, <4>8 DEF Newer
      <3> QED BY <2>2, <3>1, <3>2
    <2>5. Newer(w.ring, e) \cap Live(m) = Newer(m.ring, e)
      BY <2>3, <2>4
    <2> QED BY <2>1, <2>5
  <1> QED BY <1>8, <1>9

\* What a compaction changes: the running view takes the place of a snapshot whose replay
\* fits it, and the log that is still there is replayed on it instead.
LEMMA SnapshotReplaced ==
    ASSUME NEW b \in State, NEW m \in State, RingInOrder(b), RingInOrder(m), NEW log \in Seq(Line),
           NEW t, Fit(Final(b, log), m, log, t)
    PROVE  /\ Fit(Final(b, log), Final(m, log), log, t)
           /\ NewestOf(Final(b, log), m) =>
                /\ Fit(Final(m, log), m, log, t)
                /\ NewestOf(Final(m, log), m)
  <1> DEFINE v == Final(b, log)
             w == Final(m, log)
  <1>1. v \in State /\ RingInOrder(v) /\ w \in State /\ RingInOrder(w)
    BY FinalIsSound
  <1>2. PICK told \in SUBSET Episodes, top \in SUBSET Episodes : Meet(m, told, top, v, w)
    BY ReplaysMeet
  <1> HIDE DEF v, w
  <1>3. Fit(v, m, log, t)
    BY DEF v
  <1>4. Fit(v, w, log, t) /\ SameEpisodes(w, m, log, t)
    BY <1>1, <1>2, <1>3, MeetFits
  <1>5. ASSUME NewestOf(v, m) PROVE Fit(w, m, log, t) /\ NewestOf(w, m)
    <2>1. NewestOf(w, m)
      BY <1>1, <1>2, <1>3, <1>5, MeetNewest
    <2>2. SameOrder(w, m)
      BY <1>1, <2>1, NewestIsInOrder
    <2> QED BY <1>4, <2>1, <2>2 DEF Fit
  <1> QED BY <1>4, <1>5 DEF v, w

\* The view the property speaks of is that of the replay.
LEMMA RecoveredIs ==
    ASSUME NEW file, wal \in Seq(Line)
    PROVE  Recovered(file) = Prune(Final(Base(file), wal))
  <1> DEFINE n == Cardinality(Reached(wal))
             b == Base(file)
             v == CHOOSE f : f = [i \in 0..n |-> IF i = 0 THEN b ELSE Apply(f[i - 1], wal[i])]
             u == View(b, wal)
  <1>1. Reached(wal) = 1..Len(wal) /\ Len(wal) \in Nat
    BY FileAssumption DEF Reached
  <1>2. n = Len(wal) /\ n \in Nat
    <2>1. Cardinality(1..Len(wal)) = Len(wal)
      BY <1>1, FS_Interval
    <2> QED BY <1>1, <2>1
  <1>3. IsReplay(v, b, wal, n)
    <2> HIDE DEF n, b
    <2> QED BY Zenon DEF IsReplay
  <1>4. Recovered(file) = Prune(v[n])
    BY Zenon DEF Recovered, Base
  <1> HIDE DEF v, b, n, u
  <1>5. v[0] = b
    BY <1>2, <1>3, ReplayUnfolds
  <1>6. ASSUME NEW i \in 1..n PROVE v[i] = Apply(v[i - 1], wal[i])
    BY <1>2, <1>3, ReplayUnfolds
  <1>7. u[0] = b /\ \A i \in 1..n : u[i] = Apply(u[i - 1], wal[i])
    BY <1>2, ViewUnfolds DEF u
  <1> DEFINE S == {i \in 0..n : v[i] = u[i]}
  <1>8. 0 \in S
    BY <1>2, <1>5, <1>7
  <1>9. ASSUME NEW i \in 1..n, i - 1 \in S PROVE i \in S
    BY <1>6, <1>7, <1>9
  <1>10. \A i \in 0..n : i \in S
    <2> HIDE DEF S
    <2> QED BY <1>2, <1>8, <1>9, HandedOn
  <1>11. v[n] = u[n]
    BY <1>2, <1>10
  <1> QED BY <1>2, <1>4, <1>11 DEF Final, u, b

-----------------------------------------------------------------------------
(* One caller: the running view against the two files *)

\* The records of the log that the Maps show.
Shown(c) == IF pc[c] = "apply" THEN SubSeq(wal, 1, Len(wal) - 1) ELSE wal

\* The parts of the invariant of a store with one caller.
RingsInOrder ==
    /\ RingInOrder(mem) /\ RingInOrder(replay.st)
    /\ \A c \in Clients : RingInOrder(payload[c])
    /\ Usable(primary) => RingInOrder(primary)
    /\ Usable(backup) => RingInOrder(backup)
\* The primary is the first file to be written, and only one is ever unreadable.
FilesReadable ==
    /\ primary = Missing => backup = Missing
    /\ primary = Corrupt => backup # Corrupt
\* How far a compaction has come.  Its snapshot is the running view, expiry apart.
CompactionMarks(c) ==
    /\ pc[c] = "rename" => tmp = payload[c]
    /\ pc[c] \in {"backup", "truncate"} => primary = payload[c]
    /\ pc[c] = "truncate" => backup = payload[c]
    /\ Compacting(c) => Fit(payload[c], mem, <<>>, now) /\ NewestOf(payload[c], mem)
    /\ pc[c] = "apply" =>
         (wal \in Seq(Line) => Len(wal) > 0 /\ wal[Len(wal)] = Head(todo[c]))
\* Replayed on either file, the log gives the view the callers see.
MapsFit(c) ==
    loaded /\ drift = "none" =>
        /\ \A file \in {primary, backup} \ {Corrupt} : Fit(Final(Base(file), Shown(c)), mem, Shown(c), now)
        /\ NewestOf(Final(Base(Chosen), Shown(c)), mem)
\* The backup's replay fits the primary's: a load takes the primary, and may find it gone
\* the next time.
FilesFit ==
    primary # Corrupt /\ backup # Corrupt /\ drift # "files" =>
        Fit(Final(Base(backup), wal), Final(Base(primary), wal), wal, now)
\* A load that can read the files is on its way from the one it chose to that file's last view.
ReplayFits(c) ==
    pc[c] = "load" /\ ~replay.unread =>
        /\ replay.next \in 1..(Len(wal) + 1)
        /\ replay.st = View(Base(Chosen), wal)[replay.next - 1]
\* The log may be replayed on the new snapshot as well, and the backup's replay fits that.
SnapshotFits(c) ==
    Compacting(c) /\ drift = "none" =>
        /\ Fit(Final(payload[c], wal), mem, wal, now)
        /\ NewestOf(Final(payload[c], wal), mem)
        /\ backup # Corrupt => Fit(Final(Base(backup), wal), Final(payload[c], wal), wal, now)
\* The inductive invariant of RestartShowsTheSameView.
RestartInv(c) ==
    /\ RingsInOrder /\ FilesReadable /\ CompactionMarks(c)
    /\ wal \in Seq(Line) => MapsFit(c) /\ FilesFit /\ ReplayFits(c) /\ SnapshotFits(c)

\* What a load starts from is a view, its ring in order.
LEMMA BasesAreSound ==
    ASSUME TypeOK, RingsInOrder
    PROVE  /\ Base(primary) \in State /\ RingInOrder(Base(primary))
           /\ Base(backup) \in State /\ RingInOrder(Base(backup))
  BY EmptyFacts, RingOkEmpty DEF TypeOK, RingsInOrder, Base, Usable, Files

\* A load finds a file it can read.
LEMMA ChosenIsReadable ==
    ASSUME FilesReadable
    PROVE  Chosen \in {primary, backup} \ {Corrupt}
  BY FileAssumption DEF FilesReadable, Chosen, Usable

\* A view is no file that is missing or unreadable.
LEMMA ViewsAreUsable == \A st \in State : Usable(st) /\ Base(st) = st
  BY FileAssumption DEF Usable, Base

\* A log with a torn line is no log of records.
LEMMA TornLog ==
    ASSUME NEW log \in Seq(Line \cup {Torn})
    PROVE  Append(log, Torn) \notin Seq(Line)
  <1>1. Len(Append(log, Torn)) = Len(log) + 1 /\ Append(log, Torn)[Len(log) + 1] = Torn
        /\ Len(log) \in Nat
    OBVIOUS
  <1> SUFFICES ASSUME Append(log, Torn) \in Seq(Line) PROVE FALSE
    OBVIOUS
  <1>2. Append(log, Torn)[Len(log) + 1] \in Line
    BY <1>1, ElementOfSeq
  <1> QED BY <1>1, <1>2, FileAssumption

\* Steps after which no record is in the log and not in the Maps, no compaction and no load is
\* in progress: they leave the files as they are, spoil a backup that is being written, or
\* tear the log.
LEMMA SettledStep ==
    ASSUME NEW c, Clients = {c}, TypeOK, RestartInv(c),
           primary' = primary, backup' = backup \/ (backup' = Corrupt /\ Usable(primary)),
           wal' = wal \/ wal' \notin Seq(Line),
           loaded' => loaded /\ mem' = mem /\ now' = now /\ pc[c] # "apply" /\ drift' = drift,
           drift = "files" => drift' = "files",
           now' = now,
           RingInOrder(mem'), RingInOrder(replay'.st), RingInOrder(payload'[c]),
           pc'[c] \notin {"apply", "load"} \cup Persisting
    PROVE  RestartInv(c)'
  <1>1. RingsInOrder'
    BY DEF RestartInv, RingsInOrder, Usable
  <1>2. FilesReadable'
    BY FileAssumption DEF RestartInv, FilesReadable, Usable
  <1>3. CompactionMarks(c)'
    BY DEF CompactionMarks, Compacting, Persisting
  <1>4. ASSUME wal' \in Seq(Line) PROVE MapsFit(c)' /\ FilesFit' /\ ReplayFits(c)' /\ SnapshotFits(c)'
    <2>1. wal' = wal
      BY <1>4
    <2>2. MapsFit(c) /\ FilesFit
      BY <1>4, <2>1 DEF RestartInv
    <2>3. Chosen' = Chosen
      BY DEF Chosen, Usable
    <2>4. MapsFit(c)'
      <3> SUFFICES ASSUME loaded', drift' = "none"
                   PROVE  /\ \A file \in {primary', backup'} \ {Corrupt} :
                               Fit(Final(Base(file), Shown(c)'), mem', Shown(c)', now')
                          /\ NewestOf(Final(Base(Chosen'), Shown(c)'), mem')
        BY DEF MapsFit
      <3>1. Shown(c)' = Shown(c)
        BY <2>1 DEF Shown
      <3>2. {primary', backup'} \ {Corrupt} \subseteq {primary, backup} \ {Corrupt}
        OBVIOUS
      <3> QED BY <2>2, <2>3, <3>1, <3>2 DEF MapsFit
    <2>5. FilesFit'
      BY <2>1, <2>2 DEF FilesFit
    <2>6. ReplayFits(c)' /\ SnapshotFits(c)'
      BY DEF ReplayFits, SnapshotFits, Compacting, Persisting
    <2> QED BY <2>4, <2>5, <2>6
  <1> QED BY <1>1, <1>2, <1>3, <1>4 DEF RestartInv

\* A call that returns is not in the middle of anything.
LEMMA FinishSettles ==
    ASSUME NEW c, Clients = {c}, TypeOK, (\E ok : Finish(c, ok)) \/ Continue(c)
    PROVE  pc'[c] \notin {"apply", "load"} \cup Persisting
  BY DEF Finish, Continue, TypeOK, Persisting

\* A call up to its first append.
LEMMA CallRestarts ==
    ASSUME NEW c, Clients = {c}, TypeOK, RestartInv(c), Call(c)
    PROVE  RestartInv(c)'
  <1>1. PICK records : Start(c, records)
    BY DEF Call, WriteEpisode, ReinforceEpisode, DropEpisode, RewriteEpisode, TouchConcepts
  <1>2. /\ pc[c] = "idle" /\ pc' = [pc EXCEPT ![c] = "append"]
        /\ UNCHANGED <<primary, backup, wal, mem, loaded, now, replay, payload, drift>>
    BY <1>1 DEF Start, disk, memory
  <1>3. pc'[c] \notin {"apply", "load"} \cup Persisting
    BY <1>2 DEF TypeOK, Persisting
  <1>4. RingInOrder(mem) /\ RingInOrder(replay.st) /\ RingInOrder(payload[c])
    BY DEF RestartInv, RingsInOrder
  <1> QED BY <1>2, <1>3, <1>4, SettledStep

\* The record reaches the log, for both files.
LEMMA AppendRestarts ==
    ASSUME NEW c, Clients = {c}, TypeOK, DurabilityInv, RestartInv(c), AppendWal(c)
    PROVE  RestartInv(c)'
  <1> DEFINE r == [Head(todo[c]) EXCEPT !.lsn = lsn + 1]
  <1>1. /\ pc[c] = "append"
        /\ wal' = Append(wal, r) /\ todo' = [todo EXCEPT ![c] = <<r>> \o Tail(@)]
        /\ pc' = [pc EXCEPT ![c] = "apply"]
        /\ UNCHANGED <<primary, backup, tmp, mem, loaded, payload, replay, now, drift>>
    BY DEF AppendWal, memory
  <1>2. r \in Line /\ Head(todo'[c]) = r
    <2>1. todo[c] \in Seq(Line) /\ todo[c] # <<>>
      BY <1>1 DEF TypeOK
    <2>2. Head(todo[c]) \in Line /\ Tail(todo[c]) \in Seq(Line)
      BY <2>1
    <2>3. r \in Line
      <3>1. lsn + 1 \in Nat
        BY DEF TypeOK
      <3> QED BY <2>2, <3>1, LineFacts
    <2> HIDE DEF r
    <2>4. Head(<<r>> \o Tail(todo[c])) = r
      BY <2>2, <2>3
    <2> QED BY <1>1, <2>3, <2>4 DEF TypeOK
  <1> HIDE DEF r
  <1>3. pc'[c] = "apply" /\ c \in Clients
    BY <1>1 DEF TypeOK
  <1>4. RingsInOrder' /\ FilesReadable'
    BY <1>1 DEF RestartInv, RingsInOrder, FilesReadable, Usable
  <1>5. wal \in Seq(Line \cup {Torn}) /\ Len(wal) \in Nat
    BY DEF TypeOK
  <1>6. /\ Len(wal') = Len(wal) + 1 /\ wal'[Len(wal')] = r
        /\ SubSeq(wal', 1, Len(wal') - 1) = wal
        /\ wal' \in Seq(Line) => wal \in Seq(Line)
    <2>1. Len(wal') = Len(wal) + 1 /\ wal'[Len(wal')] = r
      BY <1>1, <1>2, <1>5
    <2>2. SubSeq(wal', 1, Len(wal') - 1) = wal
      BY <1>1, <1>2, <1>5, <2>1, AppendProperties
    <2>3. wal' \in Seq(Line) => SubSeq(wal', 1, Len(wal') - 1) \in Seq(Line)
      BY <1>5, <2>1
    <2> QED BY <2>1, <2>2, <2>3
  <1>7. CompactionMarks(c)'
    BY <1>2, <1>3, <1>5, <1>6 DEF CompactionMarks, Compacting, Persisting
  <1>8. ASSUME wal' \in Seq(Line) PROVE MapsFit(c)' /\ FilesFit' /\ ReplayFits(c)' /\ SnapshotFits(c)'
    <2>1. wal \in Seq(Line) /\ MapsFit(c) /\ FilesFit
      BY <1>6, <1>8 DEF RestartInv
    <2>2. Shown(c) = wal /\ Shown(c)' = wal
      BY <1>1, <1>3, <1>6 DEF Shown
    <2>3. MapsFit(c)'
      BY <1>1, <2>1, <2>2 DEF MapsFit, Chosen, Usable
    <2>4. FilesFit'
      <3> SUFFICES ASSUME primary # Corrupt, backup # Corrupt, drift # "files"
                   PROVE  Fit(Final(Base(backup), wal'), Final(Base(primary), wal'), wal', now)
        BY <1>1 DEF FilesFit
      <3> DEFINE v == Final(Base(backup), wal)
                 m == Final(Base(primary), wal)
      <3>1. v \in State /\ RingInOrder(v) /\ m \in State /\ RingInOrder(m)
        BY <2>1, BasesAreSound, FinalIsSound DEF RestartInv
      <3>2. Fit(v, m, wal, now) /\ now \in Nat
        BY <2>1 DEF FilesFit, TypeOK
      <3>3. Final(Base(backup), wal') = Apply(v, r) /\ Final(Base(primary), wal') = Apply(m, r)
        BY <1>1, <1>2, <2>1, FinalFacts
      <3> HIDE DEF v, m
      <3> QED BY <1>1, <1>2, <2>1, <3>1, <3>2, <3>3, FitApplied
    <2>5. ReplayFits(c)' /\ SnapshotFits(c)'
      BY <1>3 DEF ReplayFits, SnapshotFits, Compacting, Persisting
    <2> QED BY <2>3, <2>4, <2>5
  <1> QED BY <1>4, <1>7, <1>8 DEF RestartInv

\* The Maps take the record the log already has.
LEMMA ApplyRestarts ==
    ASSUME NEW c, Clients = {c}, TypeOK, RestartInv(c), ApplyRecord(c)
    PROVE  RestartInv(c)'
  <1> DEFINE r == Head(todo[c])
  <1>1. /\ pc[c] = "apply" /\ mem' = Apply(mem, r)
        /\ pc' = [pc EXCEPT ![c] = "stat"]
        /\ UNCHANGED <<primary, backup, tmp, wal, loaded, payload, replay, now, drift>>
    BY DEF ApplyRecord, disk, ghosts
  <1>2. r \in Line /\ mem \in State /\ c \in Clients /\ now \in Nat
    <2>1. todo[c] \in Seq(Line) /\ todo[c] # <<>>
      BY <1>1 DEF TypeOK
    <2> QED BY <2>1 DEF TypeOK
  <1> HIDE DEF r
  <1>3. pc'[c] = "stat"
    BY <1>1, <1>2 DEF TypeOK
  <1>4. RingInOrder(mem) /\ RingInOrder(mem')
    BY <1>1, <1>2, RingOkApply DEF RestartInv, RingsInOrder
  <1>5. RingsInOrder' /\ FilesReadable'
    BY <1>1, <1>4 DEF RestartInv, RingsInOrder, FilesReadable, Usable
  <1>6. CompactionMarks(c)'
    BY <1>3 DEF CompactionMarks, Compacting, Persisting
  <1>7. ASSUME wal' \in Seq(Line) PROVE MapsFit(c)' /\ FilesFit' /\ ReplayFits(c)' /\ SnapshotFits(c)'
    <2>1. wal \in Seq(Line) /\ MapsFit(c) /\ FilesFit /\ Len(wal) > 0 /\ wal[Len(wal)] = r
      BY <1>1, <1>7 DEF RestartInv, CompactionMarks, r
    <2> DEFINE front == Shown(c)
    <2>2. front \in Seq(Line) /\ Append(front, r) = wal
      <3>1. front = SubSeq(wal, 1, Len(wal) - 1)
        BY <1>1 DEF Shown
      <3>2. wal # <<>>
        BY <2>1
      <3> HIDE DEF front
      <3>3. front \in Seq(Line) /\ wal = Append(front, wal[Len(wal)])
        BY <2>1, <3>1, <3>2
      <3> QED BY <2>1, <3>3
    <2>3. Shown(c)' = wal
      BY <1>1, <1>3 DEF Shown
    <2>4. ASSUME NEW file \in {primary, backup}
          PROVE  /\ Final(Base(file), front) \in State /\ RingInOrder(Final(Base(file), front))
                 /\ Final(Base(file), wal) = Apply(Final(Base(file), front), r)
      <3>1. Base(file) \in State /\ RingInOrder(Base(file))
        BY BasesAreSound DEF RestartInv
      <3> HIDE DEF front
      <3> QED BY <1>2, <2>2, <3>1, FinalIsSound, FinalFacts
    <2>5. MapsFit(c)'
      <3> SUFFICES ASSUME loaded, drift = "none"
                   PROVE  /\ \A file \in {primary, backup} \ {Corrupt} :
                               Fit(Final(Base(file), wal), Apply(mem, r), wal, now)
                          /\ NewestOf(Final(Base(Chosen), wal), Apply(mem, r))
        BY <1>1, <2>3 DEF MapsFit, Chosen, Usable
      <3>1. ASSUME NEW file \in {primary, backup} \ {Corrupt}
            PROVE  Fit(Final(Base(file), wal), Apply(mem, r), wal, now)
        <4>1. Fit(Final(Base(file), front), mem, front, now)
          BY <2>1 DEF MapsFit
        <4> HIDE DEF front
        <4>2. Fit(Apply(Final(Base(file), front), r), Apply(mem, r), Append(front, r), now)
          BY <1>2, <1>4, <2>2, <2>4, <4>1, FitApplied
        <4> QED BY <2>2, <2>4, <4>2
      <3>2. NewestOf(Final(Base(Chosen), wal), Apply(mem, r))
        <4>1. NewestOf(Final(Base(Chosen), front), mem)
          BY <2>1 DEF MapsFit
        <4>2. Chosen \in {primary, backup}
          BY DEF Chosen
        <4> HIDE DEF front
        <4> QED BY <1>2, <1>4, <2>4, <4>1, <4>2, NewestApplied
      <3> QED BY <3>1, <3>2
    <2>6. FilesFit'
      BY <1>1, <2>1 DEF FilesFit
    <2>7. ReplayFits(c)' /\ SnapshotFits(c)'
      BY <1>3 DEF ReplayFits, SnapshotFits, Compacting, Persisting
    <2> QED BY <2>5, <2>6, <2>7
  <1> QED BY <1>5, <1>6, <1>7 DEF RestartInv

LEMMA DurablyRestarts ==
    ASSUME NEW c, Clients = {c}, TypeOK, DurabilityInv, RestartInv(c), Durably(c)
    PROVE  RestartInv(c)'
  <1>1. CASE AppendWal(c)
    BY <1>1, AppendRestarts
  <1>2. CASE ApplyRecord(c)
    BY <1>2, ApplyRestarts
  <1>3. CASE AppendFails(c) \/ AppendRefused(c) \/ StatWal(c) \/ StatFails(c)
    <2>1. /\ pc[c] \in {"append", "stat"}
          /\ (\E ok : Finish(c, ok)) \/ Continue(c)
          /\ wal' = wal \/ wal' = Append(wal, Torn)
          /\ UNCHANGED <<primary, backup, mem, loaded, now, replay, payload, drift>>
      BY <1>3 DEF AppendFails, AppendRefused, StatWal, StatFails, disk, memory
    <2>2. wal' = wal \/ wal' \notin Seq(Line)
      BY <2>1, TornLog DEF TypeOK
    <2>3. RingInOrder(mem) /\ RingInOrder(replay.st) /\ RingInOrder(payload[c])
      BY DEF RestartInv, RingsInOrder
    <2>4. pc'[c] \notin {"apply", "load"} \cup Persisting
      BY <2>1, FinishSettles
    <2> QED BY <2>1, <2>2, <2>3, <2>4, SettledStep
  <1> QED BY <1>1, <1>2, <1>3 DEF Durably

\* connect(): what is replayed becomes the running view.
LEMMA LoadRestarts ==
    ASSUME NEW c, Clients = {c}, TypeOK, DurabilityInv, RestartInv(c), Load(c)
    PROVE  RestartInv(c)'
  <1>0. c \in Clients /\ ~loaded
    BY DEF Load, BeginLoad, LogUnread, ReplayLine, InstallLoaded, LoadFails, DurabilityInv, LoadingAlone
  <1>1. /\ Base(primary) \in State /\ RingInOrder(Base(primary))
        /\ Base(backup) \in State /\ RingInOrder(Base(backup))
        /\ Chosen \in {primary, backup} \ {Corrupt}
    BY BasesAreSound, ChosenIsReadable DEF RestartInv
  <1>2. Base(Chosen) \in State /\ RingInOrder(Base(Chosen))
    BY <1>1
  <1>3. CASE BeginLoad(c)
    <2>1. PICK first \in {primary, Corrupt}, second \in {backup, Corrupt},
               failing \in SUBSET {"primary", "backup"} : BeginsWith(c, first, second, failing)
      BY <1>3, LoadBegins
    <2>2. /\ replay'.next = 1 /\ replay'.unread = (failing # {})
          /\ replay'.st = IF Usable(first) THEN first
                          ELSE IF Usable(second) THEN second ELSE Empty
          /\ pc' = [pc EXCEPT ![c] = "load"]
          /\ UNCHANGED <<primary, backup, tmp, wal, mem, loaded, payload, now, drift>>
      BY <2>1 DEF BeginsWith, disk, memory
    <2>3. pc'[c] = "load"
      BY <1>0, <2>2 DEF TypeOK
    <2>4. RingInOrder(replay'.st)
      BY <2>2, RingOkEmpty DEF RestartInv, RingsInOrder, Usable
    <2>5. RingsInOrder' /\ FilesReadable'
      BY <2>2, <2>4 DEF RestartInv, RingsInOrder, FilesReadable, Usable
    <2>6. CompactionMarks(c)' /\ SnapshotFits(c)' /\ MapsFit(c)'
      BY <1>0, <2>2, <2>3 DEF CompactionMarks, SnapshotFits, MapsFit, Compacting, Persisting
    <2>7. ASSUME wal' \in Seq(Line) PROVE FilesFit' /\ ReplayFits(c)'
      <3>1. wal \in Seq(Line) /\ FilesFit
        BY <2>2, <2>7 DEF RestartInv
      <3>2. Len(wal) \in Nat /\ View(Base(Chosen), wal)[0] = Base(Chosen)
        BY <1>2, <3>1, ViewUnfolds
      <3>3. Chosen' = Chosen
        BY <2>2 DEF Chosen, Usable
      <3>4. 1 \in 1..(Len(wal) + 1) /\ 1 - 1 = 0
        BY <3>2
      <3>5. Base(Chosen)' = Base(Chosen)
        BY <3>3 DEF Base, Usable
      <3>6. failing = {} => replay'.st = Base(Chosen)
        BY <2>1, <2>2 DEF BeginsWith, Base, Chosen
      <3>7. ReplayFits(c)'
        BY <2>2, <3>2, <3>4, <3>5, <3>6 DEF ReplayFits
      <3> QED BY <2>2, <3>1, <3>7 DEF FilesFit
    <2> QED BY <2>5, <2>6, <2>7 DEF RestartInv
  <1>7. CASE LogUnread(c)
    <2>1. /\ pc[c] = "load" /\ replay'.st = replay.st /\ replay'.unread
          /\ UNCHANGED <<primary, backup, tmp, wal, mem, loaded, pc, payload, now, drift>>
      BY <1>7 DEF LogUnread, disk, memory, TypeOK, Replays
    <2>2. RingsInOrder' /\ FilesReadable'
      BY <2>1 DEF RestartInv, RingsInOrder, FilesReadable, Usable
    <2>3. CompactionMarks(c)' /\ SnapshotFits(c)' /\ MapsFit(c)' /\ ReplayFits(c)'
      BY <1>0, <2>1
         DEF CompactionMarks, SnapshotFits, MapsFit, ReplayFits, Compacting, Persisting
    <2>4. wal' \in Seq(Line) => FilesFit'
      BY <2>1 DEF RestartInv, FilesFit
    <2> QED BY <2>2, <2>3, <2>4 DEF RestartInv
  <1>4. CASE ReplayLine(c)
    <2> DEFINE k == replay.next
    <2>1. /\ pc[c] = "load" /\ k \in Reached(wal)
          /\ replay'.st = Apply(replay.st, wal[k]) /\ replay'.next = k + 1
          /\ replay'.unread = replay.unread
          /\ UNCHANGED <<primary, backup, tmp, wal, mem, loaded, pc, payload, now, drift>>
      BY <1>4 DEF ReplayLine, disk, memory, ghosts, TypeOK, Replays
    <2>2. k \in 1..Len(wal) /\ wal[k] \in Line /\ replay.st \in State
      BY <2>1 DEF Reached, TypeOK, Replays
    <2> HIDE DEF k
    <2>3. RingInOrder(replay'.st)
      BY <2>1, <2>2, RingOkApply DEF RestartInv, RingsInOrder
    <2>4. RingsInOrder' /\ FilesReadable'
      BY <2>1, <2>3 DEF RestartInv, RingsInOrder, FilesReadable, Usable
    <2>5. CompactionMarks(c)' /\ SnapshotFits(c)' /\ MapsFit(c)'
      BY <1>0, <2>1 DEF CompactionMarks, SnapshotFits, MapsFit, Compacting, Persisting
    <2>6. ASSUME wal' \in Seq(Line) PROVE FilesFit' /\ ReplayFits(c)'
      <3>1. wal \in Seq(Line) /\ FilesFit /\ ReplayFits(c)
        BY <2>1, <2>6 DEF RestartInv
      <3>2. Base(Chosen)' = Base(Chosen)
        BY <2>1 DEF Chosen, Base, Usable
      <3>3. View(Base(Chosen), wal)[k] = Apply(View(Base(Chosen), wal)[k - 1], wal[k])
        BY <2>2, <3>1, ViewUnfolds
      <3>4. ~replay.unread => replay'.st = View(Base(Chosen), wal)[k]
        BY <2>1, <3>1, <3>3 DEF ReplayFits, k
      <3>5. k + 1 \in 1..(Len(wal) + 1) /\ (k + 1) - 1 = k
        BY <2>2, <3>1
      <3>6. ReplayFits(c)'
        BY <2>1, <3>2, <3>4, <3>5 DEF ReplayFits
      <3> QED BY <2>1, <3>1, <3>6 DEF FilesFit
    <2> QED BY <2>4, <2>5, <2>6 DEF RestartInv
  <1>5. CASE InstallLoaded(c)
    <2>1. /\ pc[c] = "load" /\ ReplayDone
          /\ mem' = Prune(replay.st) /\ replay' = NoReplay
          /\ pc' = [pc EXCEPT ![c] = "idle"]
          /\ drift' = IF replay.unread /\ drift = "none" THEN "maps" ELSE drift
          /\ UNCHANGED <<primary, backup, tmp, wal, payload, now>>
      BY <1>5 DEF InstallLoaded, disk
    <2>2. pc'[c] = "idle"
      BY <1>0, <2>1 DEF TypeOK
    <2>3. replay.st \in State /\ RingInOrder(replay.st)
      BY DEF TypeOK, Replays, RestartInv, RingsInOrder
    <2>4. RingInOrder(mem') /\ RingInOrder(replay'.st)
      BY <2>1, <2>3, RingOkPrune, RingOkEmpty DEF NoReplay
    <2>5. RingsInOrder' /\ FilesReadable'
      BY <2>1, <2>4 DEF RestartInv, RingsInOrder, FilesReadable, Usable
    <2>6. CompactionMarks(c)' /\ SnapshotFits(c)' /\ ReplayFits(c)'
      BY <2>2 DEF CompactionMarks, SnapshotFits, ReplayFits, Compacting, Persisting
    <2>7. ASSUME wal' \in Seq(Line) PROVE FilesFit' /\ MapsFit(c)'
      <3>0. wal \in Seq(Line) /\ FilesFit' /\ ReplayFits(c) /\ FilesFit /\ Len(wal) \in Nat
        BY <2>1, <2>7 DEF RestartInv, FilesFit
      <3> SUFFICES ASSUME ~replay.unread, drift = "none" PROVE MapsFit(c)'
        BY <2>1, <3>0 DEF MapsFit
      <3>1. wal \in Seq(Line) /\ FilesFit /\ ReplayFits(c) /\ Len(wal) \in Nat
        BY <3>0
      <3>2. replay.next = Len(wal) + 1
        <4>1. Reached(wal) = 1..Len(wal)
          BY <3>1, FileAssumption DEF Reached
        <4>2. replay.next \in 1..(Len(wal) + 1) /\ replay.next \notin 1..Len(wal)
          BY <2>1, <3>1, <4>1 DEF ReplayFits, ReplayDone
        <4> QED BY <3>1, <4>2
      <3> DEFINE m == replay.st
      <3>3. m = Final(Base(Chosen), wal)
        <4>1. (Len(wal) + 1) - 1 = Len(wal)
          BY <3>1
        <4> QED BY <2>1, <3>1, <3>2, <4>1 DEF ReplayFits, Final
      <3>4. m \in State /\ RingInOrder(m)
        BY <2>3
      <3> HIDE DEF m
      <3>5. ASSUME NEW file \in {primary, backup} \ {Corrupt}
            PROVE  Fit(Final(Base(file), wal), m, wal, now)
        <4>1. CASE Base(file) = Base(Chosen)
          BY <3>3, <3>4, <4>1, FitItself
        <4>2. CASE Base(file) # Base(Chosen)
          <5>1. Usable(primary) /\ file = backup
            <6>1. CASE ~Usable(primary)
              <7>1. Chosen = backup /\ file = primary
                BY <4>2, <6>1 DEF Chosen
              <7>2. primary = Missing
                BY <6>1, <7>1 DEF Usable
              <7>3. backup = Missing
                BY <7>2 DEF RestartInv, FilesReadable
              <7> QED BY <4>2, <7>1, <7>2, <7>3
            <6>2. CASE Usable(primary)
              BY <4>2, <6>2 DEF Chosen
            <6> QED BY <6>1, <6>2
          <5>2. primary # Corrupt /\ backup # Corrupt /\ Chosen = primary
            BY <5>1 DEF Usable, Chosen
          <5> QED BY <3>1, <3>3, <5>1, <5>2 DEF FilesFit
        <4> QED BY <4>1, <4>2
      <3>6. ASSUME NEW file \in {primary, backup} \ {Corrupt}
            PROVE  Fit(Final(Base(file), wal), Prune(m), wal, now)
        <4>1. Final(Base(file), wal) \in State
          BY <1>1, <3>1, FinalIsSound
        <4> QED BY <3>4, <3>5, <4>1, FitPruned
      <3>7. NewestOf(m, Prune(m))
        BY <3>4, FitItself, NewestPruned
      <3>8. Shown(c)' = wal /\ Chosen' = Chosen /\ Base(Chosen)' = Base(Chosen)
        BY <2>1, <2>2 DEF Shown, Chosen, Base, Usable
      <3>9. MapsFit(c)'
        <4>1. mem' = Prune(m)
          BY <2>1 DEF m
        <4> QED BY <2>1, <3>3, <3>6, <3>7, <3>8, <4>1 DEF MapsFit
      <3> QED BY <3>9
    <2> QED BY <2>5, <2>6, <2>7 DEF RestartInv
  <1>6. CASE LoadFails(c)
    <2>1. /\ pc' = [pc EXCEPT ![c] = "idle"] /\ replay' = NoReplay
          /\ UNCHANGED <<primary, backup, wal, mem, loaded, payload, now, drift>>
      BY <1>6 DEF LoadFails, disk
    <2>2. pc'[c] \notin {"apply", "load"} \cup Persisting
      BY <1>0, <2>1 DEF TypeOK, Persisting
    <2>3. RingInOrder(mem) /\ RingInOrder(replay'.st) /\ RingInOrder(payload[c])
      BY <2>1, RingOkEmpty DEF RestartInv, RingsInOrder, NoReplay
    <2> QED BY <1>0, <2>1, <2>2, <2>3, SettledStep
  <1> QED BY <1>3, <1>4, <1>5, <1>6, <1>7 DEF Load

\* The running view becomes a snapshot to be.
LEMMA CaptureRestarts ==
    ASSUME NEW c, Clients = {c}, TypeOK, DurabilityInv, RestartInv(c), Capture(c)
    PROVE  RestartInv(c)'
  <1> DEFINE p == Prune(mem)
  <1>1. /\ pc[c] = "mkdir" /\ mem' = p
        /\ payload' = [payload EXCEPT ![c] = p]
        /\ pc' = [pc EXCEPT ![c] = "tmp"]
        /\ UNCHANGED <<primary, backup, tmp, wal, loaded, replay, now, drift>>
    BY DEF Capture, disk
  <1>2. pc'[c] = "tmp" /\ payload'[c] = p /\ c \in Clients /\ loaded
    BY <1>1 DEF TypeOK, DurabilityInv, LoadingAlone
  <1>3. mem \in State /\ RingInOrder(mem) /\ p \in State /\ RingInOrder(p) /\ now \in Nat
    BY PruneFacts, RingOkPrune DEF TypeOK, RestartInv, RingsInOrder
  <1>4. RingsInOrder' /\ FilesReadable'
    BY <1>1, <1>2, <1>3 DEF RestartInv, RingsInOrder, FilesReadable, Usable
  <1>5. CompactionMarks(c)'
    <2>1. Fit(p, p, <<>>, now) /\ NewestOf(p, p)
      BY <1>3, FitItself
    <2> QED BY <1>1, <1>2, <2>1 DEF CompactionMarks
  <1>6. ASSUME wal' \in Seq(Line) PROVE MapsFit(c)' /\ FilesFit' /\ ReplayFits(c)' /\ SnapshotFits(c)'
    <2>1. wal \in Seq(Line) /\ MapsFit(c) /\ FilesFit
      BY <1>1, <1>6 DEF RestartInv
    <2>2. Shown(c) = wal /\ Shown(c)' = wal /\ Chosen' = Chosen /\ Base(Chosen)' = Base(Chosen)
      BY <1>1, <1>2 DEF Shown, Chosen, Base, Usable
    <2>3. /\ Base(primary) \in State /\ RingInOrder(Base(primary))
          /\ Base(backup) \in State /\ RingInOrder(Base(backup))
          /\ Chosen \in {primary, backup} \ {Corrupt}
      BY BasesAreSound, ChosenIsReadable DEF RestartInv
    <2>4. ASSUME NEW file \in {primary, backup} \ {Corrupt}, drift = "none"
          PROVE  Fit(Final(Base(file), wal), p, wal, now)
      <3>1. Fit(Final(Base(file), wal), mem, wal, now)
        BY <1>2, <2>1, <2>2, <2>4 DEF MapsFit
      <3>2. Final(Base(file), wal) \in State
        BY <2>1, <2>3, FinalIsSound
      <3> QED BY <1>3, <3>1, <3>2, FitPruned
    <2>5. ASSUME drift = "none" PROVE NewestOf(Final(Base(Chosen), wal), p)
      <3>1. NewestOf(Final(Base(Chosen), wal), mem)
        BY <1>2, <2>1, <2>2, <2>5 DEF MapsFit
      <3>2. Final(Base(Chosen), wal) \in State
        BY <2>1, <2>3, FinalIsSound
      <3> QED BY <1>3, <3>1, <3>2, NewestPruned
    <2> HIDE DEF p
    <2>6. MapsFit(c)'
      BY <1>1, <2>2, <2>4, <2>5 DEF MapsFit
    <2>7. SnapshotFits(c)'
      <3> SUFFICES ASSUME drift = "none" PROVE SnapshotFits(c)'
        BY <1>1 DEF SnapshotFits
      <3>1. Fit(Final(Base(Chosen), wal), p, wal, now)
        BY <2>3, <2>4
      <3>2. Fit(Final(p, wal), p, wal, now) /\ NewestOf(Final(p, wal), p)
        BY <1>3, <2>1, <2>3, <2>5, <3>1, SnapshotReplaced
      <3>3. backup # Corrupt => Fit(Final(Base(backup), wal), Final(p, wal), wal, now)
        BY <1>3, <2>1, <2>3, <2>4, SnapshotReplaced
      <3>4. Base(backup)' = Base(backup)
        BY <1>1 DEF Base, Usable
      <3> QED BY <1>1, <1>2, <3>2, <3>3, <3>4 DEF SnapshotFits
    <2>8. FilesFit'
      BY <1>1, <2>1 DEF FilesFit
    <2>9. ReplayFits(c)'
      BY <1>2 DEF ReplayFits
    <2> QED BY <2>6, <2>7, <2>8, <2>9
  <1> QED BY <1>4, <1>5, <1>6 DEF RestartInv

LEMMA TmpRestarts ==
    ASSUME NEW c, Clients = {c}, TypeOK, RestartInv(c), WriteTmp(c)
    PROVE  RestartInv(c)'
  <1>1. /\ pc[c] = "tmp" /\ tmp' = payload[c] /\ pc' = [pc EXCEPT ![c] = "rename"]
        /\ UNCHANGED <<primary, backup, wal, mem, loaded, payload, replay, now, drift>>
    BY DEF WriteTmp, memory, ghosts
  <1>2. pc'[c] = "rename" /\ c \in Clients
    BY <1>1 DEF TypeOK
  <1>3. RingsInOrder' /\ FilesReadable'
    BY <1>1 DEF RestartInv, RingsInOrder, FilesReadable, Usable
  <1>4. Compacting(c)
    BY <1>1 DEF Compacting, Persisting
  <1>5. CompactionMarks(c)'
    BY <1>1, <1>2, <1>4 DEF RestartInv, CompactionMarks
  <1>6. ASSUME wal' \in Seq(Line) PROVE MapsFit(c)' /\ FilesFit' /\ ReplayFits(c)' /\ SnapshotFits(c)'
    <2>1. wal \in Seq(Line) /\ MapsFit(c) /\ FilesFit /\ SnapshotFits(c)
      BY <1>1, <1>6 DEF RestartInv
    <2>2. Shown(c)' = Shown(c) /\ Chosen' = Chosen
      BY <1>1, <1>2 DEF Shown, Chosen, Usable
    <2> QED BY <1>1, <1>2, <1>4, <2>1, <2>2 DEF MapsFit, FilesFit, ReplayFits, SnapshotFits
  <1> QED BY <1>3, <1>5, <1>6 DEF RestartInv

\* The snapshot takes the place of the primary while the log still holds its records.
LEMMA RenameRestarts ==
    ASSUME NEW c, Clients = {c}, TypeOK, RestartInv(c), RenameTmp(c)
    PROVE  RestartInv(c)'
  <1> DEFINE p == payload[c]
  <1>1. /\ pc[c] = "rename" /\ primary' = tmp /\ pc' = [pc EXCEPT ![c] = "backup"]
        /\ drift' = IF drift = "maps" THEN "files" ELSE drift
        /\ UNCHANGED <<backup, wal, mem, loaded, payload, replay, now>>
    BY DEF RenameTmp, memory
  <1>2. pc'[c] = "backup" /\ c \in Clients /\ Compacting(c)
    BY <1>1 DEF TypeOK, Compacting, Persisting
  <1>3. primary' = p /\ p \in State /\ RingInOrder(p) /\ Usable(p) /\ Base(p) = p
    BY <1>1, <1>2, ViewsAreUsable DEF RestartInv, CompactionMarks, RingsInOrder, TypeOK
  <1>4. RingsInOrder' /\ FilesReadable'
    BY <1>1, <1>3 DEF RestartInv, RingsInOrder, FilesReadable, Usable
  <1>5. CompactionMarks(c)'
    BY <1>1, <1>2, <1>3 DEF RestartInv, CompactionMarks
  <1>6. ASSUME wal' \in Seq(Line) PROVE MapsFit(c)' /\ FilesFit' /\ ReplayFits(c)' /\ SnapshotFits(c)'
    <2> SUFFICES ASSUME drift = "none"
                 PROVE  MapsFit(c)' /\ FilesFit' /\ ReplayFits(c)' /\ SnapshotFits(c)'
      <3>1. drift' \in {"none", "files"} /\ (drift' = "none" => drift = "none")
        BY <1>1 DEF TypeOK
      <3>2. drift' = "files" => MapsFit(c)' /\ FilesFit' /\ ReplayFits(c)' /\ SnapshotFits(c)'
        BY <1>2 DEF MapsFit, FilesFit, ReplayFits, SnapshotFits
      <3> QED BY <3>1, <3>2
    <2>1. wal \in Seq(Line) /\ MapsFit(c) /\ SnapshotFits(c)
      BY <1>1, <1>6 DEF RestartInv
    <2>2. /\ Fit(Final(p, wal), mem, wal, now) /\ NewestOf(Final(p, wal), mem)
          /\ backup # Corrupt => Fit(Final(Base(backup), wal), Final(p, wal), wal, now)
      BY <1>2, <2>1 DEF SnapshotFits
    <2>3. Shown(c) = wal /\ Shown(c)' = wal
      BY <1>1, <1>2 DEF Shown
    <2>4. Chosen' = p /\ Base(primary') = p /\ Base(primary)' = p /\ Base(Chosen)' = p
      BY <1>3 DEF Chosen, Base, Usable
    <2>5. Base(backup)' = Base(backup)
      BY <1>1 DEF Base, Usable
    <2> HIDE DEF p
    <2>6. MapsFit(c)'
      <3> SUFFICES ASSUME loaded
                   PROVE  /\ \A file \in {primary', backup'} \ {Corrupt} :
                               Fit(Final(Base(file), wal), mem, wal, now)
                          /\ NewestOf(Final(Base(Chosen)', wal), mem)
        BY <1>1, <2>3 DEF MapsFit
      <3>1. backup # Corrupt => Fit(Final(Base(backup), wal), mem, wal, now)
        BY <2>1, <2>3 DEF MapsFit
      <3> QED BY <1>1, <1>3, <2>2, <2>4, <3>1
    <2>7. FilesFit'
      BY <1>1, <2>2, <2>4, <2>5 DEF FilesFit
    <2>8. ReplayFits(c)'
      BY <1>2 DEF ReplayFits
    <2>9. SnapshotFits(c)'
      <3>1. payload'[c] = p
        BY <1>1 DEF p
      <3> QED BY <1>1, <2>2, <2>5, <3>1 DEF SnapshotFits
    <2> QED BY <2>6, <2>7, <2>8, <2>9
  <1> QED BY <1>4, <1>5, <1>6 DEF RestartInv

\* And that of the backup.
LEMMA BackupRestarts ==
    ASSUME NEW c, Clients = {c}, TypeOK, RestartInv(c), WriteBackup(c)
    PROVE  RestartInv(c)'
  <1> DEFINE p == payload[c]
  <1>1. /\ pc[c] = "backup" /\ backup' = p /\ pc' = [pc EXCEPT ![c] = "truncate"]
        /\ UNCHANGED <<primary, wal, mem, loaded, payload, replay, now, drift>>
    BY DEF WriteBackup, memory, ghosts
  <1>2. pc'[c] = "truncate" /\ c \in Clients /\ Compacting(c)
    BY <1>1 DEF TypeOK, Compacting, Persisting
  <1>3. primary = p /\ p \in State /\ RingInOrder(p) /\ Usable(p) /\ Base(p) = p
    BY <1>1, <1>2, ViewsAreUsable DEF RestartInv, CompactionMarks, RingsInOrder, TypeOK
  <1>4. RingsInOrder' /\ FilesReadable'
    BY <1>1, <1>3 DEF RestartInv, RingsInOrder, FilesReadable, Usable
  <1>5. CompactionMarks(c)'
    BY <1>1, <1>2, <1>3 DEF RestartInv, CompactionMarks
  <1>6. ASSUME wal' \in Seq(Line) PROVE MapsFit(c)' /\ FilesFit' /\ ReplayFits(c)' /\ SnapshotFits(c)'
    <2>1. wal \in Seq(Line) /\ MapsFit(c) /\ SnapshotFits(c)
      BY <1>1, <1>6 DEF RestartInv
    <2>2. drift = "none" => Fit(Final(p, wal), mem, wal, now) /\ NewestOf(Final(p, wal), mem)
      BY <1>2, <2>1 DEF SnapshotFits
    <2>3. Shown(c) = wal /\ Shown(c)' = wal
      BY <1>1, <1>2 DEF Shown
    <2>4. /\ primary' = p /\ backup' = p
          /\ Chosen' = p /\ Base(primary)' = p /\ Base(Chosen)' = p /\ Base(backup)' = p
      BY <1>1, <1>3 DEF Chosen, Base, Usable
    <2>5. Fit(Final(p, wal), Final(p, wal), wal, now)
      BY <1>3, <2>1, FinalIsSound, FitItself
    <2>6. payload'[c] = p
      BY <1>1
    <2> HIDE DEF p
    <2>7. MapsFit(c)'
      BY <1>1, <1>3, <2>2, <2>3, <2>4 DEF MapsFit
    <2>8. FilesFit'
      BY <1>1, <2>4, <2>5 DEF FilesFit
    <2>9. ReplayFits(c)'
      BY <1>2 DEF ReplayFits
    <2>10. SnapshotFits(c)'
      BY <1>1, <2>2, <2>4, <2>5, <2>6 DEF SnapshotFits
    <2> QED BY <2>7, <2>8, <2>9, <2>10
  <1> QED BY <1>4, <1>5, <1>6 DEF RestartInv

\* The log is emptied once both files have the snapshot.
LEMMA TruncateRestarts ==
    ASSUME NEW c, Clients = {c}, TypeOK, RestartInv(c), TruncateWal(c)
    PROVE  RestartInv(c)'
  <1> DEFINE p == payload[c]
  <1>1. /\ pc[c] = "truncate" /\ wal' = <<>> /\ Continue(c)
        /\ payload' = [payload EXCEPT ![c] = Empty]
        /\ UNCHANGED <<primary, backup, mem, loaded, replay, now>>
    BY DEF TruncateWal
  <1>2. /\ pc'[c] \notin {"apply", "load"} \cup Persisting
        /\ c \in Clients /\ Compacting(c) /\ payload'[c] = Empty
    BY <1>1, FinishSettles DEF TypeOK, Compacting, Persisting
  <1>3. /\ primary = p /\ backup = p /\ p \in State /\ RingInOrder(p) /\ Usable(p) /\ Base(p) = p
        /\ Fit(p, mem, <<>>, now) /\ NewestOf(p, mem)
    BY <1>1, <1>2, ViewsAreUsable DEF RestartInv, CompactionMarks, RingsInOrder, TypeOK
  <1>4. RingsInOrder' /\ FilesReadable'
    BY <1>1, <1>2, <1>3, RingOkEmpty DEF RestartInv, RingsInOrder, FilesReadable, Usable
  <1>5. CompactionMarks(c)' /\ ReplayFits(c)' /\ SnapshotFits(c)'
    BY <1>2 DEF CompactionMarks, ReplayFits, SnapshotFits, Compacting, Persisting
  <1> HIDE DEF p
  <1>6. Shown(c)' = <<>>
    BY <1>1, <1>2 DEF Shown
  <1>7. /\ primary' = p /\ backup' = p
        /\ Chosen' = p /\ Base(primary)' = p /\ Base(Chosen)' = p /\ Base(backup)' = p
    BY <1>1, <1>3 DEF Chosen, Base, Usable
  <1>8. Final(p, <<>>) = p
    <2>1. <<>> \in Seq(Line)
      OBVIOUS
    <2> QED BY <2>1, ViewUnfolds DEF Final
  <1>9. Fit(p, p, <<>>, now)
    BY <1>3, FitItself
  <1>10. MapsFit(c)'
    BY <1>1, <1>3, <1>6, <1>7, <1>8 DEF MapsFit
  <1>11. FilesFit'
    BY <1>1, <1>7, <1>8, <1>9 DEF FilesFit
  <1> QED BY <1>4, <1>5, <1>10, <1>11 DEF RestartInv

LEMMA CompactRestarts ==
    ASSUME NEW c, Clients = {c}, TypeOK, DurabilityInv, RestartInv(c), Compact(c)
    PROVE  RestartInv(c)'
  <1>1. CASE BeginCompact(c)
    <2>1. /\ pc[c] = "stat" /\ pc' = [pc EXCEPT ![c] = "mkdir"]
          /\ UNCHANGED <<primary, backup, wal, mem, loaded, now, replay, payload, drift>>
      BY <1>1 DEF BeginCompact, disk, memory, ghosts
    <2>2. pc'[c] \notin {"apply", "load"} \cup Persisting
      BY <2>1 DEF TypeOK, Persisting
    <2>3. RingInOrder(mem) /\ RingInOrder(replay.st) /\ RingInOrder(payload[c])
      BY DEF RestartInv, RingsInOrder
    <2> QED BY <2>1, <2>2, <2>3, SettledStep
  <1>2. CASE MkdirFails(c) \/ CompactFails(c)
    <2>1. /\ pc[c] # "apply" /\ Finish(c, FALSE)
          /\ backup' = backup \/ (backup' = Corrupt /\ pc[c] = "backup")
          /\ payload'[c] \in {payload[c], Empty}
          /\ UNCHANGED <<primary, wal, mem, loaded, now, replay, drift>>
      BY <1>2 DEF MkdirFails, CompactFails, Compacting, Persisting, disk, memory, TypeOK
    <2>2. pc[c] = "backup" => Usable(primary)
      BY ViewsAreUsable DEF RestartInv, CompactionMarks, TypeOK
    <2>3. pc'[c] \notin {"apply", "load"} \cup Persisting
      BY <2>1, FinishSettles
    <2>4. RingInOrder(mem) /\ RingInOrder(replay.st) /\ RingInOrder(payload'[c])
      BY <2>1, RingOkEmpty DEF RestartInv, RingsInOrder
    <2> QED BY <2>1, <2>2, <2>3, <2>4, SettledStep
  <1> QED BY <1>1, <1>2, CaptureRestarts, TmpRestarts, RenameRestarts, BackupRestarts,
             TruncateRestarts DEF Compact

\* A read drops what expired from the Maps only.
LEMMA ReadRestarts ==
    ASSUME NEW c, Clients = {c}, TypeOK, DurabilityInv, RestartInv(c), Read
    PROVE  RestartInv(c)'
  <1> DEFINE p == Prune(mem)
  <1>1. /\ mem' = p /\ loaded
        /\ UNCHANGED <<primary, backup, tmp, wal, loaded, pc, todo, payload, replay, now, drift>>
    BY DEF Read, disk, locals, ghosts
  <1>2. mem \in State /\ RingInOrder(mem) /\ RingInOrder(p) /\ payload[c] \in State
    BY RingOkPrune DEF TypeOK, RestartInv, RingsInOrder
  <1>3. RingsInOrder' /\ FilesReadable'
    BY <1>1, <1>2 DEF RestartInv, RingsInOrder, FilesReadable, Usable
  <1>4. ASSUME NEW v \in State, NEW log, Fit(v, mem, log, now) PROVE Fit(v, p, log, now)
    BY <1>2, <1>4, FitPruned
  <1>5. ASSUME NEW v \in State, NewestOf(v, mem) PROVE NewestOf(v, p)
    BY <1>2, <1>5, NewestPruned
  <1> HIDE DEF p
  <1>6. CompactionMarks(c)'
    BY <1>1, <1>2, <1>4, <1>5 DEF RestartInv, CompactionMarks, Compacting
  <1>7. ASSUME wal' \in Seq(Line) PROVE MapsFit(c)' /\ FilesFit' /\ ReplayFits(c)' /\ SnapshotFits(c)'
    <2>1. wal \in Seq(Line) /\ MapsFit(c) /\ FilesFit /\ SnapshotFits(c)
      BY <1>1, <1>7 DEF RestartInv
    <2>2. Shown(c)' = Shown(c) /\ Chosen' = Chosen /\ Base(Chosen)' = Base(Chosen)
      BY <1>1 DEF Shown, Chosen, Base, Usable
    <2>3. /\ Base(primary) \in State /\ RingInOrder(Base(primary))
          /\ Base(backup) \in State /\ RingInOrder(Base(backup))
          /\ Chosen \in {primary, backup} \ {Corrupt}
      BY BasesAreSound, ChosenIsReadable DEF RestartInv
    <2>4. Shown(c) \in Seq(Line)
      <3>1. CASE wal = <<>>
        BY <2>1, <3>1 DEF Shown
      <3>2. CASE wal # <<>>
        <4>1. SubSeq(wal, 1, Len(wal) - 1) \in Seq(Line)
          BY <2>1, <3>2
        <4> QED BY <2>1, <4>1 DEF Shown
      <3> QED BY <3>1, <3>2
    <2>5. ASSUME NEW file \in {primary, backup} PROVE Final(Base(file), Shown(c)) \in State
      BY <2>3, <2>4, FinalIsSound
    <2>6. MapsFit(c)'
      BY <1>1, <1>4, <1>5, <2>1, <2>2, <2>3, <2>5 DEF MapsFit
    <2>7. ReplayFits(c)'
      BY <1>1 DEF DurabilityInv, LoadingAlone, ReplayFits
    <2>8. FilesFit'
      BY <1>1, <2>1 DEF FilesFit
    <2>9. SnapshotFits(c)'
      <3> SUFFICES ASSUME Compacting(c), drift = "none"
                   PROVE  /\ Fit(Final(payload[c], wal), p, wal, now)
                          /\ NewestOf(Final(payload[c], wal), p)
                          /\ backup # Corrupt =>
                               Fit(Final(Base(backup), wal), Final(payload[c], wal), wal, now)
        BY <1>1 DEF SnapshotFits, Compacting, Base, Usable
      <3>1. /\ Fit(Final(payload[c], wal), mem, wal, now)
            /\ NewestOf(Final(payload[c], wal), mem)
            /\ backup # Corrupt =>
                 Fit(Final(Base(backup), wal), Final(payload[c], wal), wal, now)
        BY <2>1 DEF SnapshotFits
      <3>2. Final(payload[c], wal) \in State
        BY <1>2, <2>1, FinalIsSound DEF RestartInv, RingsInOrder
      <3> QED BY <1>4, <1>5, <3>1, <3>2
    <2> QED BY <2>6, <2>7, <2>8, <2>9
  <1> QED BY <1>3, <1>6, <1>7 DEF RestartInv

\* Time passes.
LEMMA TickRestarts ==
    ASSUME NEW c, Clients = {c}, TypeOK, DurabilityInv, RestartInv(c), Tick
    PROVE  RestartInv(c)'
  <1>1. /\ now \in Nat /\ now' \in Nat /\ now <= now'
        /\ UNCHANGED <<primary, backup, tmp, wal, mem, loaded, pc, todo, payload, replay, drift>>
    BY DEF Tick, disk, memory, locals, ghosts, TypeOK
  <1>2. payload[c] \in State /\ c \in Clients
    BY DEF TypeOK
  <1>3. RingsInOrder' /\ FilesReadable'
    BY <1>1 DEF RestartInv, RingsInOrder, FilesReadable, Usable
  <1>4. ASSUME NEW v \in State, NEW m, NEW log, Fit(v, m, log, now) PROVE Fit(v, m, log, now')
    BY <1>1, <1>4, FitLater
  <1>5. CompactionMarks(c)'
    BY <1>1, <1>2, <1>4 DEF RestartInv, CompactionMarks, Compacting
  <1>6. ASSUME wal' \in Seq(Line) PROVE MapsFit(c)' /\ FilesFit' /\ ReplayFits(c)' /\ SnapshotFits(c)'
    <2>1. wal \in Seq(Line) /\ MapsFit(c) /\ FilesFit /\ SnapshotFits(c) /\ ReplayFits(c)
      BY <1>1, <1>6 DEF RestartInv
    <2>2. Shown(c)' = Shown(c) /\ Chosen' = Chosen /\ Base(Chosen)' = Base(Chosen)
      BY <1>1 DEF Shown, Chosen, Base, Usable
    <2>3. /\ Base(primary) \in State /\ RingInOrder(Base(primary))
          /\ Base(backup) \in State /\ RingInOrder(Base(backup))
      BY BasesAreSound DEF RestartInv
    <2>4. Shown(c) \in Seq(Line)
      <3>1. CASE wal = <<>>
        <4>1. SubSeq(wal, 1, Len(wal) - 1) = <<>>
          BY <3>1
        <4> QED BY <2>1, <3>1, <4>1 DEF Shown
      <3>2. CASE wal # <<>>
        <4>1. SubSeq(wal, 1, Len(wal) - 1) \in Seq(Line)
          BY <2>1, <3>2
        <4> QED BY <2>1, <4>1 DEF Shown
      <3> QED BY <3>1, <3>2
    <2>5. ASSUME NEW file \in {primary, backup}, NEW log \in Seq(Line)
          PROVE  Final(Base(file), log) \in State
      BY <2>3, FinalIsSound
    <2>6. MapsFit(c)'
      BY <1>1, <1>4, <2>1, <2>2, <2>4, <2>5 DEF MapsFit
    <2>7. ReplayFits(c)'
      BY <1>1, <2>1, <2>2 DEF ReplayFits
    <2>8. Base(backup)' = Base(backup) /\ Base(primary)' = Base(primary)
      BY <1>1 DEF Base, Usable
    <2>9. FilesFit'
      BY <1>1, <1>4, <2>1, <2>5, <2>8 DEF FilesFit
    <2>10. SnapshotFits(c)'
      <3>1. Final(payload[c], wal) \in State
        BY <1>2, <2>1, FinalIsSound DEF RestartInv, RingsInOrder
      <3> QED BY <1>1, <1>4, <2>1, <2>5, <2>8, <3>1 DEF SnapshotFits, Compacting
    <2> QED BY <2>6, <2>7, <2>9, <2>10
  <1> QED BY <1>3, <1>5, <1>6 DEF RestartInv

LEMMA EnvironmentRestarts ==
    ASSUME NEW c, Clients = {c}, TypeOK, DurabilityInv, RestartInv(c),
           Read \/ Tick \/ Crash \/ SnapshotRots
    PROVE  RestartInv(c)'
  <1>1. CASE Crash
    <2>1. /\ wal' = wal \/ wal' = Append(wal, Torn)
          /\ backup' = backup \/ (backup' = Corrupt /\ pc[c] = "backup")
          /\ mem' = Empty /\ replay' = NoReplay /\ payload' = [d \in Clients |-> Empty]
          /\ pc' = [d \in Clients |-> "idle"] /\ ~loaded'
          /\ drift' = IF drift = "maps" THEN "none" ELSE drift
          /\ UNCHANGED <<primary, now>>
      BY <1>1 DEF Crash
    <2>2. wal' = wal \/ wal' \notin Seq(Line)
      BY <2>1, TornLog DEF TypeOK
    <2>3. pc[c] = "backup" => Usable(primary)
      BY ViewsAreUsable DEF RestartInv, CompactionMarks, TypeOK
    <2>4. RingInOrder(mem') /\ RingInOrder(replay'.st) /\ RingInOrder(payload'[c])
      BY <2>1, RingOkEmpty DEF NoReplay
    <2>5. pc'[c] \notin {"apply", "load"} \cup Persisting
      BY <2>1 DEF Persisting
    <2> QED BY <2>1, <2>2, <2>3, <2>4, <2>5, SettledStep
  <1>2. CASE SnapshotRots
    <2>1. /\ ~loaded /\ pc[c] = "idle" /\ backup # Corrupt /\ primary' = Corrupt
          /\ UNCHANGED <<backup, tmp, wal, mem, loaded, pc, todo, payload, replay, now, drift>>
      BY <1>2 DEF SnapshotRots, memory, locals
    <2>2. RingsInOrder' /\ FilesReadable'
      BY <2>1, FileAssumption DEF RestartInv, RingsInOrder, FilesReadable, Usable
    <2>3. CompactionMarks(c)' /\ MapsFit(c)' /\ FilesFit' /\ ReplayFits(c)' /\ SnapshotFits(c)'
      BY <2>1 DEF CompactionMarks, MapsFit, FilesFit, ReplayFits, SnapshotFits, Compacting, Persisting
    <2> QED BY <2>2, <2>3 DEF RestartInv
  <1> QED BY <1>1, <1>2, ReadRestarts, TickRestarts

LEMMA RestartsInit ==
    ASSUME NEW c, Clients = {c}, Init
    PROVE  RestartInv(c)
  <1>1. RingsInOrder /\ FilesReadable
    BY RingOkEmpty, FileAssumption DEF Init, RingsInOrder, FilesReadable, NoReplay, Usable
  <1>2. pc[c] = "idle" /\ ~loaded /\ primary = Missing /\ backup = Missing /\ wal = <<>>
    BY DEF Init
  <1>3. CompactionMarks(c) /\ MapsFit(c) /\ ReplayFits(c) /\ SnapshotFits(c)
    BY <1>2 DEF CompactionMarks, MapsFit, ReplayFits, SnapshotFits, Compacting, Persisting
  <1>4. FilesFit
    <2>1. Base(primary) = Empty /\ Base(backup) = Empty
      BY <1>2 DEF Base, Usable
    <2>2. wal \in Seq(Line)
      BY <1>2
    <2>3. Final(Empty, wal) \in State /\ RingInOrder(Final(Empty, wal))
      BY <2>2, EmptyFacts, RingOkEmpty, FinalIsSound
    <2> QED BY <2>1, <2>3, FitItself DEF FilesFit
  <1> QED BY <1>1, <1>3, <1>4 DEF RestartInv

LEMMA RestartsStep ==
    ASSUME NEW c, Clients = {c}, TypeOK, DurabilityInv, RestartInv(c), [Next]_vars
    PROVE  RestartInv(c)'
  <1>1. CASE Next
    BY <1>1, LoadRestarts, CallRestarts, DurablyRestarts, CompactRestarts,
       EnvironmentRestarts DEF Next
  <1>2. CASE UNCHANGED vars
    BY <1>2 DEF vars, disk, memory, locals, ghosts, RestartInv, RingsInOrder, FilesReadable, CompactionMarks, MapsFit, FilesFit,
                ReplayFits, SnapshotFits, Shown, Compacting, Base, Usable, Chosen
  <1> QED BY <1>1, <1>2

\* The invariant says what a restart shows.
LEMMA RestartsShow ==
    ASSUME NEW c, Clients = {c}, TypeOK, RestartInv(c)
    PROVE  RestartShowsTheSameView
  <1> SUFFICES ASSUME Quiet, drift = "none", \A i \in 1..Len(wal) : wal[i] # Torn
               PROVE  /\ \A file \in {primary, backup} \ {Corrupt} :
                            SameView(Recovered(file), Prune(mem))
                      /\ Chosen # Corrupt => NewestOf(Recovered(Chosen), Prune(mem))
    BY DEF RestartShowsTheSameView
  <1>1. wal \in Seq(Line) /\ loaded /\ pc[c] = "idle"
    <2>1. wal \in Seq(Line \cup {Torn}) /\ Len(wal) \in Nat
      BY DEF TypeOK
    <2>2. \A i \in 1..Len(wal) : wal[i] \in Line
      BY <2>1
    <2>3. wal \in Seq(Line)
      BY <2>1, <2>2, IsASeq
    <2> QED BY <2>3 DEF Quiet
  <1>2. MapsFit(c) /\ Shown(c) = wal
    BY <1>1 DEF RestartInv, Shown
  <1>3. ASSUME NEW file \in {primary, backup}
        PROVE  /\ Recovered(file) = Prune(Final(Base(file), wal))
               /\ Final(Base(file), wal) \in State /\ RingInOrder(Final(Base(file), wal))
    <2>1. Base(file) \in State /\ RingInOrder(Base(file))
      BY BasesAreSound DEF RestartInv
    <2> QED BY <1>1, <2>1, RecoveredIs, FinalIsSound
  <1>4. mem \in State /\ RingInOrder(mem)
    BY DEF TypeOK, RestartInv, RingsInOrder
  <1>5. ASSUME NEW file \in {primary, backup} \ {Corrupt}
        PROVE  SameView(Recovered(file), Prune(mem))
    <2>1. Fit(Final(Base(file), wal), mem, wal, now)
      BY <1>1, <1>2 DEF MapsFit
    <2> QED BY <1>3, <1>4, <2>1, FitShows
  <1>6. NewestOf(Recovered(Chosen), Prune(mem))
    <2>1. Chosen \in {primary, backup} \ {Corrupt}
      BY ChosenIsReadable DEF RestartInv
    <2>2. /\ Fit(Final(Base(Chosen), wal), mem, wal, now)
          /\ NewestOf(Final(Base(Chosen), wal), mem)
      BY <1>1, <1>2, <2>1 DEF MapsFit
    <2> QED BY <1>3, <1>4, <2>1, <2>2, FitShows
  <1> QED BY <1>5, <1>6

\* With one caller and an untorn log, a restart shows the episodes the Maps show, with their
\* expiry and contents, from either snapshot file, in the order of the ring, and the file a
\* load would take shows the newest ids of the ring: whatever was written, however long the
\* log, wherever the process died or a compaction was cut short before, unless a file could
\* not be read at a load since the last complete compaction.
THEOREM RestartIsFaithful ==
    ASSUME Cardinality(Clients) = 1
    PROVE  Spec => []RestartShowsTheSameView
  <1>1. PICK c : Clients = {c}
    BY StoreAssumption, FS_Singleton
  <1>2. Init => RestartInv(c)
    BY <1>1, RestartsInit
  <1>3. TypeOK /\ DurabilityInv /\ RestartInv(c) /\ [Next]_vars => RestartInv(c)'
    BY <1>1, RestartsStep
  <1>4. TypeOK /\ RestartInv(c) => RestartShowsTheSameView
    BY <1>1, RestartsShow
  <1> QED BY <1>2, <1>3, <1>4, TypeCorrect, Durability, PTL DEF Spec

=============================================================================
