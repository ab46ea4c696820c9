--------------------------- MODULE WorkingMemory ---------------------------
(* The durable hot-memory store LocalWorkingMemoryStore                       *)
(* (src/src/cognitive/hippocampus/memory/working/store.ts) for one owner.     *)
(*                                                                            *)
(* The store keeps its episodes in Maps and makes every mutation durable      *)
(* first: a line is appended to a write-ahead log, then the Maps change, and  *)
(* every so many writes the whole view is written to a snapshot (tmp file,    *)
(* rename, backup copy) and the log is emptied.  Nothing is locked: the       *)
(* methods are async, so two calls interleave at every await.  One step of    *)
(* this module is the code between two awaits, or the effect of one file      *)
(* operation.                                                                 *)
EXTENDS Integers, Sequences, FiniteSets

CONSTANTS
    Clients,        \* concurrent callers: turns and background workers
    Episodes,       \* episode ids (UUIDs: an id is written once)
    MaxEpisodes,    \* config.maxEpisodesPerUser
    RingSize,       \* config.contextRingSize
    SnapshotEvery,  \* config.snapshotEveryWrites
    MaxWalLines,    \* config.maxWalBytes, counted in lines
    Calls,          \* the mutations the callers of an instance use
    Ttls,           \* requested time-to-live values, in seconds
    Absent,         \* no such episode in the Map
    Missing,        \* no such file
    Corrupt,        \* the file does not parse
    Torn,           \* a log line that was cut short
    MaxTime,        \* bound: clock
    MaxLsn,         \* bound: number of log lines ever appended
    Budget          \* bound: how many faults of each kind may happen

Faults == {"torn", "crash", "io", "rot"}
Ops    == {"write", "drop", "reinforce", "rewrite", "touch"}

ASSUME StoreAssumption ==
    /\ Clients # {} /\ IsFiniteSet(Clients) /\ IsFiniteSet(Episodes)
    /\ MaxEpisodes \in Nat \ {0} /\ RingSize \in Nat
    /\ Calls \subseteq Ops
    /\ SnapshotEvery \in Nat \ {0} /\ MaxWalLines \in Nat \ {0}
    /\ Ttls \subseteq Nat \ {0}
    /\ MaxTime \in Nat /\ MaxLsn \in Nat
    /\ Budget \in [Faults -> Nat]

VARIABLES
    primary,   \* the snapshot file
    backup,    \* the snapshot's .bak file
    tmp,       \* the snapshot's .tmp file
    wal,       \* the lines of the log
    mem,       \* the Maps: episodes, context ring, activation
    loaded,    \* this.loaded
    since,     \* this.writesSinceSnapshot
    circuit,   \* circuitState, failureCount, nextRecoveryAtTs
    pc,        \* where each call is suspended
    todo,      \* the records the call still has to apply durably
    payload,   \* the serialized snapshot the call is persisting
    replay,    \* the state being loaded and the next line of the log
    now,       \* Date.now()
    used,      \* ids that were written at some time
    lsn,       \* history: number of records appended so far
    acked,     \* history: records whose call returned without an error
    excused,   \* history: records whose append overlapped a compaction of
               \* another call or followed a torn line, and unseen ones that a
               \* compaction has removed from the disk
    unseen,    \* history: acknowledged records the Maps were loaded without,
               \* because a file could not be read
    drift,     \* history: what may differ since a load missed a file, the Maps
               \* from the files, or one snapshot file from the other
    budget     \* faults that may still happen

disk   == <<primary, backup, tmp, wal>>
memory == <<mem, loaded, since, circuit>>
locals == <<pc, todo, payload, replay>>
ghosts == <<used, lsn, acked, excused, unseen, drift, budget>>
vars   == <<disk, memory, locals, now, ghosts>>

Entry == [exp: Nat, rev: Nat, ver: Nat]
Line  == [lsn: Nat, op: Ops, id: Episodes \cup {Absent}, exp: Nat, rev: Nat]
\* "ring" gives each id of the context ring the time it was put in front, counted
\* in applied records by "seq" (the ring lists them newest first), and 0 to the
\* others; "lsns" is a history of the records the view reflects.
State == [eps: [Episodes -> Entry \cup {Absent}], ring: [Episodes -> Nat],
          seq: Nat, hot: Nat, lsns: SUBSET Nat]
Files == State \cup {Missing, Corrupt}

ASSUME FileAssumption ==
    /\ Missing \notin State \cup {Corrupt} /\ Corrupt \notin State
    /\ Torn \notin Line /\ Absent \notin Entry

Empty == [eps |-> [e \in Episodes |-> Absent], ring |-> [e \in Episodes |-> 0],
          seq |-> 0, hot |-> 0, lsns |-> {}]

Usable(file)  == file \notin {Missing, Corrupt}
Live(st)      == {e \in Episodes : st.eps[e] # Absent}
Expired(st)   == {e \in Live(st) : st.eps[e].exp <= now}
Without(ring, gone) == [e \in Episodes |-> IF e \in gone THEN 0 ELSE ring[e]]
Newer(ring, e) == {f \in Episodes : ring[f] > ring[e]}
Newest(ring) == Without(ring, {e \in Episodes : Cardinality(Newer(ring, e)) >= RingSize})

Drop(st, gone) ==
    [eps  |-> [e \in Episodes |-> IF e \in gone THEN Absent ELSE st.eps[e]],
     ring |-> Without(st.ring, gone),
     seq  |-> st.seq, hot |-> st.hot, lsns |-> st.lsns]

Prune(st) == Drop(st, Expired(st))

\* What a record makes of the entry of its episode.  "ver" stands for the text,
\* concepts and metadata, named by the record that wrote them last.
Changed(old, r) ==
    CASE r.op = "write" -> [exp |-> r.exp, rev |-> r.rev, ver |-> r.lsn]
      [] r.op = "drop" -> Absent
      [] r.op = "reinforce" /\ old # Absent ->
           [exp |-> r.exp, rev |-> r.rev, ver |-> old.ver]
      [] r.op = "rewrite" /\ old # Absent ->
           [exp |-> old.exp, rev |-> old.rev, ver |-> r.lsn]
      [] OTHER -> old

\* One record applied to a view, in memory or during the replay.  "exp" is the
\* touch time of a touch record.
Apply(st, r) ==
    [eps  |-> [e \in Episodes |-> IF e = r.id THEN Changed(st.eps[e], r) ELSE st.eps[e]],
     ring |-> IF r.op = "write" THEN Newest([st.ring EXCEPT ![r.id] = st.seq + 1])
              ELSE IF r.op = "drop" THEN Without(st.ring, {r.id})
              ELSE st.ring,
     seq  |-> st.seq + 1,
     hot  |-> IF r.op = "touch" THEN r.exp ELSE st.hot,
     lsns |-> st.lsns \cup {r.lsn}]

\* The lines the replay reaches: it stops at the first one that is torn.  A
\* line appended after a torn tail lands on that tail, so it is torn too.
Reached(log)   == {i \in 1..Len(log) : \A j \in 1..i : log[j] # Torn}
Reachable(log) == {log[i].lsn : i \in Reached(log)}

-----------------------------------------------------------------------------
(* The circuit breaker *)

\* min(30 s, 1 s * 2^(failures - 1)) for 1..10 failures
Backoff == <<1, 2, 4, 8, 16, 30, 30, 30, 30, 30>>
Closed == [open |-> FALSE, fails |-> 0, until |-> 0]
Tripped ==
    LET n == IF circuit.fails < 10 THEN circuit.fails + 1 ELSE 10
    IN  [open |-> TRUE, fails |-> n, until |-> now + Backoff[n]]
Writable == ~(circuit.open /\ now < circuit.until)

\* A compaction between capturing its payload and emptying the log.
Persisting == {"tmp", "rename", "backup", "truncate"}
Compacting(c) == pc[c] \in Persisting

Spend(kind) == budget[kind] > 0 /\ budget' = [budget EXCEPT ![kind] = @ - 1]

NoReplay == [st |-> Empty, next |-> 1, broken |-> FALSE, found |-> FALSE,
             unread |-> FALSE, blind |-> FALSE]

Init ==
    /\ primary = Missing /\ backup = Missing /\ tmp = Missing /\ wal = <<>>
    /\ mem = Empty /\ loaded = FALSE /\ since = 0 /\ circuit = Closed
    /\ pc = [c \in Clients |-> "idle"]
    /\ todo = [c \in Clients |-> <<>>]
    /\ payload = [c \in Clients |-> Empty]
    /\ replay = NoReplay
    /\ now = 0
    /\ used = {} /\ lsn = 0 /\ acked = {} /\ excused = {}
    /\ unseen = {} /\ drift = "none"
    /\ budget = Budget

-----------------------------------------------------------------------------
(* connect(): the first caller loads, the others wait for the runtime's       *)
(* shared warm-up promise.                                                    *)

\* loadSnapshotCandidate: a file that cannot be read counts as a damaged one.
\* The backup is read only when the primary gives no snapshot.
BeginLoad(c) ==
    /\ ~loaded
    /\ \A d \in Clients : pc[d] = "idle"
    /\ \E failing \in SUBSET {"primary", "backup"} :
         LET first  == IF "primary" \in failing THEN Corrupt ELSE primary
             second == IF "backup" \in failing THEN Corrupt ELSE backup
             readable == Usable(first) \/ Usable(second)
         IN  /\ "backup" \in failing => ~Usable(first)
             /\ Cardinality(failing) <= budget["io"]
             /\ budget' = [budget EXCEPT !["io"] = @ - Cardinality(failing)]
             /\ replay' = [st |-> IF Usable(first) THEN first
                                  ELSE IF Usable(second) THEN second ELSE Empty,
                           next |-> 1,
                           broken |-> first = Corrupt \/ (~Usable(first) /\ second = Corrupt),
                           found |-> readable,
                           unread |-> failing # {},
                           blind |-> first = Corrupt /\ second = Corrupt]
    /\ pc' = [pc EXCEPT ![c] = "load"]
    /\ UNCHANGED <<disk, memory, todo, payload, now, used, lsn, acked, excused, unseen,
                   drift>>

\* replayWal when the log cannot be read: with a snapshot that holds anything the
\* load goes on as if there were no log.
LogUnread(c) ==
    /\ pc[c] = "load" /\ replay.next = 1 /\ replay.found /\ Spend("io")
    /\ replay' = [replay EXCEPT !.next = Len(wal) + 1, !.unread = TRUE, !.blind = TRUE]
    /\ UNCHANGED <<disk, memory, pc, todo, payload, now, used, lsn, acked, excused, unseen,
                   drift>>

\* One turn of the loop of replayWal.
ReplayLine(c) ==
    /\ pc[c] = "load"
    /\ replay.next \in Reached(wal)
    /\ replay' = [replay EXCEPT !.st = Apply(replay.st, wal[replay.next]),
                                !.next = @ + 1, !.found = TRUE]
    /\ UNCHANGED <<disk, memory, pc, todo, payload, now, ghosts>>

ReplayDone == replay.next \notin Reached(wal)
Unrecoverable == ~replay.found /\ (replay.broken \/ replay.next <= Len(wal))

\* The loop has stopped: expired episodes go, the Maps are replaced.
InstallLoaded(c) ==
    /\ pc[c] = "load" /\ ReplayDone /\ ~Unrecoverable
    /\ mem' = Prune(replay.st)
    /\ replay' = NoReplay
    /\ loaded' = TRUE /\ circuit' = Closed
    /\ unseen' = IF replay.blind THEN acked \ replay.st.lsns ELSE {}
    /\ drift' = IF replay.unread /\ drift = "none" THEN "maps" ELSE drift
    /\ pc' = [pc EXCEPT ![c] = "idle"]
    /\ UNCHANGED <<disk, since, todo, payload, now, used, lsn, acked, excused, budget>>

\* hasRecoveredState, as far as the model's data decides it.
SurelyHolds(st) == Live(st) # {} \/ st.hot # 0

\* Nothing could be recovered, or the log cannot be read and there is nothing else.
LoadFails(c) ==
    /\ pc[c] = "load"
    /\ \/ ReplayDone /\ Unrecoverable /\ UNCHANGED budget
       \/ replay.next = 1 /\ ~SurelyHolds(replay.st) /\ Spend("io")
    /\ replay' = NoReplay
    /\ circuit' = Tripped
    /\ pc' = [pc EXCEPT ![c] = "idle"]
    /\ UNCHANGED <<disk, mem, loaded, since, todo, payload, now, used, lsn, acked, excused,
                   unseen, drift>>

-----------------------------------------------------------------------------
(* The public operations up to their first append *)

\* Mutant: no room is made for the episode to come.
EvictionsTooLate ==
    LET live == Live(mem)
        n == Cardinality(live) - MaxEpisodes
    IN  IF n <= 0 THEN {<<>>}
        ELSE {s \in [1..n -> live] : \A i, j \in 1..n : i < j => s[i] # s[j]}

\* The order in which enforceUserCapacity evicts: as many episodes as overflow,
\* the ones reviewed first leading.  Expired ones count: nothing prunes here.
EvictionOrders ==
    LET live == Live(mem)
        n == Cardinality(live) - MaxEpisodes + 1
        Rev(e) == mem.eps[e].rev
    IN  IF n <= 0 THEN {<<>>}
        ELSE {s \in [1..n -> live] :
                /\ \A i, j \in 1..n : i < j => s[i] # s[j] /\ Rev(s[i]) <= Rev(s[j])
                /\ \A e \in live : (\A i \in 1..n : s[i] # e) => Rev(e) >= Rev(s[n])}

Record(op, id, exp, rev) == [lsn |-> 0, op |-> op, id |-> id, exp |-> exp, rev |-> rev]
ReviewAt(ttl) == now + (ttl * 4) \div 5

Start(c, records) ==
    /\ loaded /\ pc[c] = "idle" /\ Writable
    /\ records[Len(records)].op \in Calls
    /\ pc' = [pc EXCEPT ![c] = "append"]
    /\ todo' = [todo EXCEPT ![c] = records]
    /\ UNCHANGED <<disk, memory, payload, replay, now, lsn, acked, excused, unseen, drift,
                   budget>>

WriteEpisode(c, id, ttl) ==
    /\ id \notin used
    /\ used' = used \cup {id}
    /\ \E order \in EvictionOrders :
         Start(c, [i \in 1..Len(order) |-> Record("drop", order[i], 0, 0)]
                  \o <<Record("write", id, now + ttl, ReviewAt(ttl))>>)

DropEpisode(c, id) ==
    /\ id \in used
    /\ Start(c, <<Record("drop", id, 0, 0)>>)
    /\ UNCHANGED used

ReinforceEpisode(c, id, ttl) ==
    /\ id \in Live(mem)
    /\ Start(c, <<Record("reinforce", id, now + ttl, ReviewAt(ttl))>>)
    /\ UNCHANGED used

RewriteEpisode(c, id) ==
    /\ id \in Live(mem)
    /\ Start(c, <<Record("rewrite", id, 0, 0)>>)
    /\ UNCHANGED used

TouchConcepts(c) ==
    /\ Start(c, <<Record("touch", Absent, now, 0)>>)
    /\ UNCHANGED used

\* readEpisode, readContextRing, listConsolidationCandidates prune first.
Read ==
    /\ loaded
    /\ mem' = Prune(mem)
    /\ UNCHANGED <<disk, loaded, since, circuit, locals, now, ghosts>>

-----------------------------------------------------------------------------
(* applyDurably, one record at a time *)

Finish(c, ok) ==
    /\ pc' = [pc EXCEPT ![c] = "idle"]
    /\ todo' = [todo EXCEPT ![c] = <<>>]
    /\ acked' = IF ok THEN acked \cup {Head(todo[c]).lsn} ELSE acked

\* The record reaches the log.  The call is not resumed yet.
AppendWal(c) ==
    /\ pc[c] = "append" /\ Writable /\ lsn < MaxLsn
    /\ LET r == [Head(todo[c]) EXCEPT !.lsn = lsn + 1] IN
         /\ wal' = Append(wal, r)
         /\ todo' = [todo EXCEPT ![c] = <<r>> \o Tail(@)]
    /\ lsn' = lsn + 1
    /\ excused' = IF (\E d \in Clients : Compacting(d))
                     \/ (\E i \in 1..Len(wal) : wal[i] = Torn)
                  THEN excused \cup {lsn + 1} ELSE excused
    /\ pc' = [pc EXCEPT ![c] = "apply"]
    /\ UNCHANGED <<primary, backup, tmp, memory, payload, replay, now, used,
                   acked, unseen, drift, budget>>

\* appendFile rejects, possibly after writing part of the line.
AppendFails(c) ==
    /\ pc[c] = "append" /\ Writable
    /\ \/ Spend("io") /\ UNCHANGED wal
       \/ budget["io"] > 0 /\ Spend("torn") /\ wal' = Append(wal, Torn)
    /\ circuit' = Tripped
    /\ Finish(c, FALSE)
    /\ UNCHANGED <<primary, backup, tmp, mem, loaded, since, payload, replay, now, used,
                   lsn, excused, unseen, drift>>

\* ensureWritable of a later record throws: another call tripped the circuit.
AppendRefused(c) ==
    /\ pc[c] = "append" /\ ~Writable
    /\ Finish(c, FALSE)
    /\ UNCHANGED <<disk, memory, payload, replay, now, used, lsn, excused, unseen, drift,
                   budget>>

\* Mutant: the Maps change only while the circuit is closed.
ApplyIfClosed(c) ==
    /\ pc[c] = "apply"
    /\ mem' = IF circuit.open THEN mem ELSE Apply(mem, Head(todo[c]))
    /\ since' = since + 1
    /\ circuit' = IF circuit.open THEN Closed ELSE circuit
    /\ pc' = [pc EXCEPT ![c] = "stat"]
    /\ UNCHANGED <<disk, loaded, todo, payload, replay, now, ghosts>>

\* The append resolved: the circuit closes and the Maps change.
ApplyRecord(c) ==
    /\ pc[c] = "apply"
    /\ mem' = Apply(mem, Head(todo[c]))
    /\ since' = since + 1
    /\ circuit' = IF circuit.open THEN Closed ELSE circuit
    /\ pc' = [pc EXCEPT ![c] = "stat"]
    /\ UNCHANGED <<disk, loaded, todo, payload, replay, now, ghosts>>

\* The next record of the call, or its return.
Continue(c) ==
    IF Len(todo[c]) > 1
    THEN /\ pc' = [pc EXCEPT ![c] = "append"]
         /\ todo' = [todo EXCEPT ![c] = Tail(@)]
         /\ acked' = acked \cup {Head(todo[c]).lsn}
    ELSE Finish(c, TRUE)

CompactionDue == since >= SnapshotEvery \/ Len(wal) >= MaxWalLines

StatWal(c) ==
    /\ pc[c] = "stat" /\ ~CompactionDue
    /\ Continue(c)
    /\ UNCHANGED <<disk, memory, payload, replay, now, used, lsn, excused, unseen, drift,
                   budget>>

StatFails(c) ==
    /\ pc[c] = "stat" /\ Spend("io")
    /\ circuit' = Tripped
    /\ Finish(c, FALSE)
    /\ UNCHANGED <<disk, mem, loaded, since, payload, replay, now, used, lsn, excused,
                   unseen, drift>>

-----------------------------------------------------------------------------
(* compact() and persistSnapshot() *)

\* What stat found, and the writes counted so far, make the snapshot due.
BeginCompact(c) ==
    /\ pc[c] = "stat" /\ CompactionDue
    /\ pc' = [pc EXCEPT ![c] = "mkdir"]
    /\ UNCHANGED <<disk, memory, todo, payload, replay, now, ghosts>>

\* The mkdir of compact is outside its try: the circuit stays as it is.
MkdirFails(c) ==
    /\ pc[c] = "mkdir" /\ Spend("io")
    /\ Finish(c, FALSE)
    /\ UNCHANGED <<disk, memory, payload, replay, now, used, lsn, excused, unseen, drift>>

\* A record another call has appended and not applied is not in the payload.
InFlight == {Head(todo[d]).lsn : d \in {d \in Clients : pc[d] = "apply"}}

\* Mutant: the payload leaves the activation out.
CaptureWithoutActivation(c) ==
    /\ pc[c] = "mkdir"
    /\ mem' = Prune(mem)
    /\ payload' = [payload EXCEPT ![c] = [Prune(mem) EXCEPT !.hot = 0]]
    /\ excused' = excused \cup InFlight
    /\ pc' = [pc EXCEPT ![c] = "tmp"]
    /\ UNCHANGED <<disk, loaded, since, circuit, todo, replay, now, used, lsn, acked,
                   unseen, drift, budget>>

Capture(c) ==
    /\ pc[c] = "mkdir"
    /\ mem' = Prune(mem)
    /\ payload' = [payload EXCEPT ![c] = Prune(mem)]
    /\ excused' = excused \cup InFlight
    /\ pc' = [pc EXCEPT ![c] = "tmp"]
    /\ UNCHANGED <<disk, loaded, since, circuit, todo, replay, now, used, lsn, acked,
                   unseen, drift, budget>>

WriteTmp(c) ==
    /\ pc[c] = "tmp"
    /\ tmp' = payload[c]
    /\ pc' = [pc EXCEPT ![c] = "rename"]
    /\ UNCHANGED <<primary, backup, wal, memory, todo, payload, replay, now, ghosts>>

\* Unseen records that only the old snapshot held go with it.
RenameTmp(c) ==
    /\ pc[c] = "rename" /\ tmp # Missing
    /\ primary' = tmp /\ tmp' = Missing
    /\ excused' = excused \cup (unseen \ Reachable(wal))
    /\ drift' = IF drift = "maps" THEN "files" ELSE drift
    /\ pc' = [pc EXCEPT ![c] = "backup"]
    /\ UNCHANGED <<backup, wal, memory, todo, payload, replay, now, used, lsn, acked, unseen,
                   budget>>

\* Mutant: the backup keeps what an earlier snapshot held.
SkipBackup(c) ==
    /\ pc[c] = "backup"
    /\ pc' = [pc EXCEPT ![c] = "truncate"]
    /\ UNCHANGED <<disk, memory, todo, payload, replay, now, ghosts>>

WriteBackup(c) ==
    /\ pc[c] = "backup"
    /\ backup' = payload[c]
    /\ pc' = [pc EXCEPT ![c] = "truncate"]
    /\ UNCHANGED <<primary, tmp, wal, memory, todo, payload, replay, now, ghosts>>

\* Unseen records that only the log held go with it.
TruncateWal(c) ==
    /\ pc[c] = "truncate"
    /\ wal' = <<>>
    /\ since' = 0 /\ circuit' = Closed
    /\ payload' = [payload EXCEPT ![c] = Empty]
    /\ excused' = excused \cup unseen /\ unseen' = {} /\ drift' = "none"
    /\ Continue(c)
    /\ UNCHANGED <<primary, backup, tmp, mem, loaded, replay, now, used, lsn, budget>>

\* Any file operation of a compaction may reject, a write leaving part of its
\* file; the rename does so when another compaction moved the shared tmp away.
CompactFails(c) ==
    /\ \/ Compacting(c) /\ Spend("io")
       \/ pc[c] = "rename" /\ tmp = Missing /\ UNCHANGED budget
    /\ tmp' = IF pc[c] = "tmp" THEN Corrupt ELSE tmp
    /\ backup' = IF pc[c] = "backup" THEN Corrupt ELSE backup
    /\ circuit' = Tripped
    /\ payload' = [payload EXCEPT ![c] = Empty]
    /\ Finish(c, FALSE)
    /\ UNCHANGED <<primary, wal, mem, loaded, since, replay, now, used, lsn, excused,
                   unseen, drift>>

-----------------------------------------------------------------------------
(* The environment *)

Tick ==
    /\ now < MaxTime
    /\ now' = now + 1
    /\ UNCHANGED <<disk, memory, locals, ghosts>>

\* The process dies.  A line being appended, and the backup being rewritten,
\* may be left half written.
Crash ==
    /\ loaded \/ \E c \in Clients : pc[c] # "idle"
    /\ budget["crash"] > 0
    /\ \/ /\ wal' = wal
          /\ budget' = [budget EXCEPT !["crash"] = @ - 1]
       \/ /\ budget["torn"] > 0 /\ \E c \in Clients : pc[c] = "append"
          /\ wal' = Append(wal, Torn)
          /\ budget' = [budget EXCEPT !["crash"] = @ - 1, !["torn"] = @ - 1]
    /\ \/ backup' = backup
       \/ backup' = Corrupt /\ \E c \in Clients : pc[c] = "backup"
    /\ mem' = Empty /\ loaded' = FALSE /\ since' = 0 /\ circuit' = Closed
    /\ pc' = [c \in Clients |-> "idle"]
    /\ todo' = [c \in Clients |-> <<>>]
    /\ payload' = [c \in Clients |-> Empty]
    /\ replay' = NoReplay
    /\ unseen' = {} /\ drift' = IF drift = "maps" THEN "none" ELSE drift
    /\ UNCHANGED <<primary, tmp, now, used, lsn, acked, excused>>

\* The primary snapshot is damaged while the program is down.  Two faults at
\* once (a backup that is unreadable as well) are not considered.
SnapshotRots ==
    /\ ~loaded /\ \A c \in Clients : pc[c] = "idle"
    /\ Usable(primary) /\ backup # Corrupt /\ Spend("rot")
    /\ primary' = Corrupt
    /\ UNCHANGED <<backup, tmp, wal, memory, locals, now, used, lsn, acked, excused,
                   unseen, drift>>

Load(c) ==
    BeginLoad(c) \/ LogUnread(c) \/ ReplayLine(c) \/ InstallLoaded(c) \/ LoadFails(c)

Call(c) ==
    \/ \E id \in Episodes :
         \/ \E ttl \in Ttls : WriteEpisode(c, id, ttl) \/ ReinforceEpisode(c, id, ttl)
         \/ DropEpisode(c, id) \/ RewriteEpisode(c, id)
    \/ TouchConcepts(c)

Durably(c) ==
    \/ AppendWal(c) \/ AppendFails(c) \/ AppendRefused(c) \/ ApplyRecord(c)
    \/ StatWal(c) \/ StatFails(c)

Compact(c) ==
    \/ BeginCompact(c) \/ MkdirFails(c) \/ Capture(c) \/ WriteTmp(c) \/ RenameTmp(c)
    \/ WriteBackup(c) \/ TruncateWal(c) \/ CompactFails(c)

Next ==
    \/ \E c \in Clients : Load(c) \/ Call(c) \/ Durably(c) \/ Compact(c)
    \/ Read \/ Tick \/ Crash \/ SnapshotRots

Spec == Init /\ [][Next]_vars

-----------------------------------------------------------------------------
(* Properties *)

Phases == {"idle", "load", "append", "apply", "stat", "mkdir"} \cup Persisting

Replays == [st : State, next : Nat \ {0}, broken : BOOLEAN, found : BOOLEAN,
            unread : BOOLEAN, blind : BOOLEAN]

\* Every variable holds a value the class can hold.
TypeOK ==
    /\ primary \in Files /\ backup \in Files /\ tmp \in Files
    /\ wal \in Seq(Line \cup {Torn})
    /\ mem \in State /\ loaded \in BOOLEAN /\ since \in Nat
    /\ circuit \in [open : BOOLEAN, fails : 0..10, until : Nat]
    /\ pc \in [Clients -> Phases]
    /\ todo \in [Clients -> Seq(Line)]
    /\ \A c \in Clients : pc[c] \notin {"idle", "load"} => todo[c] # <<>>
    /\ payload \in [Clients -> State]
    /\ replay \in Replays
    /\ now \in Nat /\ used \subseteq Episodes /\ lsn \in Nat
    /\ acked \subseteq Nat /\ excused \subseteq Nat /\ unseen \subseteq Nat
    /\ drift \in {"none", "maps", "files"}
    /\ budget \in [Faults -> Nat]

CoveredBy(file) ==
    excused \cup Reachable(wal) \cup (IF Usable(file) THEN file.lsns ELSE {})

\* A record whose call returned can be recovered from the snapshot and the log
\* and, should the snapshot be unreadable, from its backup and the log, unless
\* it is excused.  The order "rename, then backup, then empty the log" of
\* persistSnapshot and compact is what this rests on.  A load that could not read
\* the log or the snapshots excuses nothing yet: what it missed stays recoverable
\* until a compaction takes the last file that has it.
AckedIsDurable ==
    /\ primary # Corrupt => acked \subseteq CoveredBy(primary)
    /\ backup # Corrupt => acked \subseteq CoveredBy(backup)

\* Nothing that was acknowledged is missing from the Maps either, except what they
\* were loaded without because a file could not be read.
AckedIsVisible == loaded => acked \subseteq mem.lsns \cup excused \cup unseen

\* The inductive invariant behind the two, one conjunct per fact a compaction or
\* a load relies on.  A record is owed to its caller from the moment it is in the
\* log: the call may still return.
Applied(c) == pc[c] \in {"stat", "mkdir"} \/ Compacting(c)
Known == acked \cup {Head(todo[c]).lsn : c \in {d \in Clients : Applied(d)}}
Owed  == Known \cup InFlight
Gone  == excused \cup unseen
Reflects(file) == Usable(file) => Owed \subseteq file.lsns \cup Gone

\* Loading is exclusive, and nothing else happens before it is done.
LoadingAlone ==
    /\ ~loaded => \A c \in Clients : pc[c] \in {"idle", "load"}
    /\ \A c \in Clients : pc[c] = "load" =>
         ~loaded /\ \A d \in Clients : d = c \/ pc[d] = "idle"

\* Either snapshot file completes the log.
OwedIsDurable ==
    /\ primary # Corrupt => Owed \subseteq CoveredBy(primary)
    /\ backup # Corrupt => Owed \subseteq CoveredBy(backup)

KnownIsVisible == loaded => Known \subseteq mem.lsns \cup Gone

\* The log may be emptied: each file a compaction has written holds all of it.
CompactionIsComplete ==
    \A c \in Clients :
        /\ Compacting(c) => Owed \subseteq payload[c].lsns \cup Gone
        /\ pc[c] = "rename" => Reflects(tmp)
        /\ pc[c] \in {"backup", "truncate"} => primary # Missing /\ Reflects(primary)
        /\ pc[c] = "truncate" => backup # Missing /\ Reflects(backup)
        /\ pc[c] \in {"backup", "truncate"} => unseen \subseteq excused \cup Reachable(wal)

LoadIsComplete ==
    \A c \in Clients : pc[c] = "load" /\ ~replay.blind =>
        \A l \in acked : \/ l \in replay.st.lsns \cup excused
                         \/ \E i \in Reached(wal) : i >= replay.next /\ wal[i].lsn = l

DurabilityInv ==
    LoadingAlone /\ OwedIsDurable /\ KnownIsVisible /\ CompactionIsComplete /\ LoadIsComplete

Quiet == loaded /\ \A c \in Clients : pc[c] = "idle"

\* What a restart would load: the whole log replayed on a snapshot.
Recovered(file) ==
    LET n == Cardinality(Reached(wal))
        view[i \in 0..n] ==
            IF i = 0 THEN (IF Usable(file) THEN file ELSE Empty)
            ELSE Apply(view[i - 1], wal[i])
    IN  Prune(view[n])

\* The episodes are the same, and no two ids of the context ring have changed places.
SameView(restarted, running) ==
    /\ restarted.hot = running.hot
    /\ \A e \in Episodes :
         restarted.eps[e] # running.eps[e] =>
             /\ running.eps[e] = Absent
             /\ \E i \in 1..Len(wal) : wal[i].id = e /\ wal[i].op = "reinforce"
    /\ \A e, f \in Live(running) :
         /\ restarted.ring[e] > 0 /\ restarted.ring[f] > 0
         /\ running.ring[e] > 0 /\ running.ring[f] > 0
         => (restarted.ring[e] < restarted.ring[f] <=> running.ring[e] < running.ring[f])

\* The ids of the ring are the newest ones of the running view.
NewestOf(restarted, running) ==
    \A e \in Live(running) : restarted.ring[e] > 0 =>
        /\ running.ring[e] > 0
        /\ Newer(restarted.ring, e) \cap Live(running) = Newer(running.ring, e)

\* The file a load would take.
Chosen == IF Usable(primary) THEN primary ELSE backup

\* One caller: with no call in progress and an untorn log, a restart shows the
\* very episodes the Maps show, with their expiry and contents, from either
\* snapshot file.  One exception: an episode that expired while the append of
\* its own reinforcement was in progress is gone from the Maps, and a restart
\* brings it back.  The context ring may lose its oldest ids, since expired
\* episodes push them out again during the replay, but never reorders, and what
\* the next load makes of it are the newest ids of the ring.  (The other file may
\* still name an older id that a replay has pushed out.)  Nothing is said of Maps
\* loaded while a file could not be read, nor, once a compaction has begun to
\* replace the snapshots by them, of the time until it has emptied the log.
RestartShowsTheSameView ==
    Quiet /\ drift = "none" /\ (\A i \in 1..Len(wal) : wal[i] # Torn) =>
        /\ \A file \in {primary, backup} \ {Corrupt} : SameView(Recovered(file), Prune(mem))
        /\ Chosen # Corrupt => NewestOf(Recovered(Chosen), Prune(mem))

\* enforceUserCapacity looks before it appends, so concurrent writers overshoot
\* the limit, by at most one episode each: no step but the loading of the files
\* makes the Maps larger than that.  The loading may: evictions that another
\* call's compaction loses come back with a restart.
CapacityOvershoot ==
    [][loaded /\ ~(Live(mem') \subseteq Live(mem)) =>
         Cardinality(Live(mem')) <= MaxEpisodes + Cardinality(Clients) - 1]_vars

\* The ring recall starts from names only episodes that are in the Map,
\* and never more than its size allows.
RingMatchesEpisodes ==
    LET ring == {e \in Episodes : mem.ring[e] > 0}
    IN  ring \subseteq Live(mem) /\ Cardinality(ring) <= RingSize

\* The claim of the class comment and of docs/memory.system.md: a power cut
\* costs at most the torn line, so an acknowledged record is recoverable.
AckedSurvivesPowerCut ==
    acked \subseteq Reachable(wal)
        \cup (IF Usable(primary) THEN primary.lsns
              ELSE IF Usable(backup) THEN backup.lsns ELSE {})

\* The same claim at start-up: the store can be loaded after a power cut.
StartupRecovers == \A c \in Clients : ~(pc[c] = "load" /\ ReplayDone /\ Unrecoverable)
============================================================================
