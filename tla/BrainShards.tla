------------------------------- MODULE BrainShards -------------------------------
(* The ledger brain.db and its monthly archives (BrainStore, BrainCatalogStore and
   runBrainArchive of cognitive/hippocampus/memory/brain). One process holds three parties
   that open the same path: the memory module's store, which writes; the socket reader's
   own store, which is opened once and never again, and writes when a client decides on a
   task plan; and the archive sweep, which works on the path alone. Whoever finds that the
   live file is of an earlier month seals it: a snapshot of it becomes the archive of that
   month, the catalog points at the archive, a fresh file takes its place.

   All database calls are synchronous, so a seal is one step between the others; a crash
   may cut it anywhere. An open connection stays on its file when the path is unlinked:
   files have numbers of their own, and a path or a connection holds one of them. *)
EXTENDS Integers, FiniteSets, FiniteSetsExt, Functions

CONSTANTS
    MaxMonth,   \* bound: the months are 1..MaxMonth
    MaxEvents,  \* bound: how many events are appended
    MaxCrashes, \* bound: how often the process dies
    MaxFile     \* bound: numbers for the files that exist at a time

\* There is a number for every path and every connection, so that a new file finds one.
ASSUME BrainAssumption ==
    /\ MaxMonth \in Nat \ {0} /\ MaxEvents \in Nat /\ MaxCrashes \in Nat
    /\ MaxFile \in Nat /\ MaxFile > 3 * MaxMonth + 3

VARIABLES
    month,    \* the calendar
    disk,     \* files, the path brain.db, the paths of the archives, and the catalog
    store,    \* the two BrainStore objects and the connections they hold
    sweep,    \* the month the sweep has decided to seal, and the one it will open
    appended, \* history: number of appendEvent calls that returned, the last event's id
    refused,  \* history: parents of the appends the database refused
    behind,   \* history: the live file was sealed by another party than the open memory store
    misfiled, \* history: a file was exported as the archive of another month than its own
    stale,    \* history: the live file was replaced after the reader had opened it
    crashes

vars == <<month, disk, store, sweep, appended, refused, behind, misfiled, stale, crashes>>
history == <<appended, refused>>

Months == 1..MaxMonth
Events == 1..MaxEvents
FileIds == 1..MaxFile
None == 0                   \* no file, no event, no month
InLive == -1                \* LIVE_SHARD_ID, for the rest a shard's id is its month
Stores == {"memory", "reader"}
Empty == [month |-> None, events |-> {}]
Idle == [seals |-> None, opens |-> None]
Closed == [live |-> None, month |-> None, cached |-> [m \in Months |-> None]]
IsOpen(s) == store[s].live # None

Init ==
    /\ month = 1
    /\ disk = [files |-> [f \in FileIds |-> Empty], live |-> None,
               archive |-> [m \in Months |-> None], listed |-> {},
               locator |-> [e \in Events |-> None]]
    /\ store = [s \in Stores |-> Closed]
    /\ sweep = Idle /\ appended = 0 /\ refused = {} /\ crashes = 0
    /\ behind = FALSE /\ misfiled = FALSE /\ stale = FALSE
-----------------------------------------------------------------------------
\* Files somebody still refers to, by a path or by a connection.
Used(d) == {d.live} \cup Range(d.archive) \cup {store[s].live : s \in Stores}
           \cup UNION {Range(store[s].cached) : s \in Stores}
NewFile(d) == Min(FileIds \ Used(d))

Live(d) == IF d.live = None THEN Empty ELSE d.files[d.live]

\* The steps of a seal under the name m, in the order of the code. The snapshot is taken of
\* whatever file is at the path.
DropArchive(d, m) == [d EXCEPT !.archive[m] = None]
Export(d, m) == LET f == NewFile(d)
                IN  [d EXCEPT !.archive[m] = f,
                              !.files[f] = [month |-> m, events |-> Live(d).events]]
List(d, m) == [d EXCEPT !.listed = @ \cup {m}]
Locate(d, m) == [d EXCEPT !.locator = [e \in Events |->
                    IF e \in d.files[d.archive[m]].events THEN m ELSE @[e]]]
Remove(d) == [d EXCEPT !.live = None]
Fresh(d, m) == LET f == NewFile(d)
               IN  [d EXCEPT !.live = f, !.files[f] = [month |-> m, events |-> {}]]

SealSteps == 0..6

\* Mutant: the live file is unlinked before its snapshot is taken.
SealedUnlinkingFirst(d, m, n) ==
    LET d1 == DropArchive(d, m)
        d2 == Remove(d1)
        d3 == Export(d2, m)
        d4 == List(d3, m)
        d5 == Locate(d4, m)
    IN  CASE n = 0 -> d [] n = 1 -> d1 [] n = 2 -> d2 [] n = 3 -> d3
          [] n = 4 -> d4 [] n = 5 -> d5 [] n = 6 -> Fresh(d5, month)

\* Mutant: the catalog's locators are not moved.
SealedUnlocated(d, m, n) ==
    LET d3 == List(Export(DropArchive(d, m), m), m)
        d5 == Remove(d3)
    IN  CASE n = 0 -> d [] n = 1 -> DropArchive(d, m) [] n = 2 -> Export(DropArchive(d, m), m)
          [] n \in 3..4 -> d3 [] n = 5 -> d5 [] n = 6 -> Fresh(d5, month)

\* The disk after the first n of the six.
Sealed(d, m, n) ==
    LET d1 == DropArchive(d, m)
        d2 == Export(d1, m)
        d3 == List(d2, m)
        d4 == Locate(d3, m)
        d5 == Remove(d4)
    IN  CASE n = 0 -> d [] n = 1 -> d1 [] n = 2 -> d2 [] n = 3 -> d3
          [] n = 4 -> d4 [] n = 5 -> d5 [] n = 6 -> Fresh(d5, month)

\* sealCurrentLiveShard asks its own connection whether there is anything to keep: without
\* an event the path is unlinked and nothing is archived.
SealedBy(s, n) ==
    LET mine == disk.files[store[s].live]
    IN  IF mine.events # {} THEN Sealed(disk, store[s].month, n)
        ELSE CASE n = 0 -> disk [] n \in 1..5 -> Remove(disk) [] n = 6 -> Fresh(Remove(disk), month)

Misfiling(m) == Live(disk).month # m
-----------------------------------------------------------------------------
MonthTurns ==
    /\ month < MaxMonth
    /\ month' = month + 1
    /\ UNCHANGED <<disk, store, sweep, history, behind, misfiled, stale, crashes>>

\* Mutant: open() takes the live file as it is.
OpenUnsealed(s) ==
    LET d == IF disk.live = None THEN Fresh(disk, month) ELSE disk
    IN  /\ ~IsOpen(s)
        /\ disk' = d
        /\ store' = [store EXCEPT ![s] = [Closed EXCEPT !.live = d.live,
                                                        !.month = Live(d).month]]
        /\ UNCHANGED <<month, sweep, history, behind, misfiled, stale, crashes>>

\* Mutant: open() starts a file of its own.
OpenAfresh(s) ==
    LET d == Fresh(disk, month)
    IN  /\ ~IsOpen(s)
        /\ disk' = d
        /\ store' = [store EXCEPT ![s] = [Closed EXCEPT !.live = d.live, !.month = month]]
        /\ UNCHANGED <<month, sweep, history, behind, misfiled, stale, crashes>>

\* open(): a live file of another month is sealed under the name it carries (the path is
\* then created by the connection), and the connection adopts the month of the file.
Open(s) ==
    LET seals == disk.live # None /\ Live(disk).month # month
        d == IF seals THEN Sealed(disk, Live(disk).month, 6)
             ELSE IF disk.live = None THEN Fresh(disk, month) ELSE disk
    IN  /\ ~IsOpen(s)
        /\ disk' = d
        /\ store' = [store EXCEPT ![s] = [Closed EXCEPT !.live = d.live,
                                                        !.month = Live(d).month]]
        /\ behind' = (behind \/ (seals /\ s = "reader" /\ IsOpen("memory")))
        /\ stale' = (s = "memory" /\ (stale \/ (seals /\ IsOpen("reader"))))
        /\ UNCHANGED <<month, sweep, history, misfiled, crashes>>

\* appendEvent with a parent or without: rotateLiveShardForTs seals first when the month
\* the store remembers is over. The foreign key of parent_id looks in the live file alone.
AppendEvent(parent) ==
    LET rotates == store["memory"].month # month
        d == IF rotates THEN SealedBy("memory", 6) ELSE disk
        live == IF rotates THEN d.live ELSE store["memory"].live
        e == appended + 1
        taken == parent = None \/ parent \in d.files[live].events
    IN  /\ IsOpen("memory") /\ appended < MaxEvents
        /\ disk' = IF taken THEN [d EXCEPT !.files[live].events = @ \cup {e},
                                           !.locator[e] = InLive]
                   ELSE d
        /\ store' = [store EXCEPT !["memory"].live = live, !["memory"].month = month]
        /\ appended' = IF taken THEN e ELSE appended
        /\ refused' = IF taken THEN refused ELSE refused \cup {parent}
        /\ misfiled' = (misfiled \/ (rotates /\ Misfiling(store["memory"].month)))
        /\ stale' = (stale \/ (rotates /\ IsOpen("reader")))
        /\ UNCHANGED <<month, sweep, behind, crashes>>

\* taskPlanDecide updates a plan through the reader's connection, which seals first like any
\* other when the month it remembers is over. The plan itself is left out.
DecidePlan ==
    /\ IsOpen("reader") /\ store["reader"].month # month
    /\ disk' = SealedBy("reader", 6)
    /\ store' = [store EXCEPT !["reader"].live = disk'.live, !["reader"].month = month]
    /\ misfiled' = (misfiled \/ Misfiling(store["reader"].month))
    /\ behind' = (behind \/ IsOpen("memory")) /\ stale' = FALSE
    /\ UNCHANGED <<month, sweep, history, crashes>>

\* listEvents and the rest of the reads open every archive of the catalog and keep the
\* connections.
ListEvents(s) ==
    /\ IsOpen(s)
    /\ store' = [store EXCEPT ![s].cached = [m \in Months |->
                    IF @[m] = None /\ m \in disk.listed THEN disk.archive[m] ELSE @[m]]]
    /\ UNCHANGED <<month, disk, sweep, history, behind, misfiled, stale, crashes>>

\* Mutant: the last month counts as the current one.
SweepWaits ==
    /\ sweep = Idle /\ IsOpen("memory")
    /\ disk.live # None /\ Live(disk).month < month - 1
    /\ sweep' = [seals |-> Live(disk).month, opens |-> month]
    /\ UNCHANGED <<month, disk, store, history, behind, misfiled, stale, crashes>>

\* runBrainArchive looks at the path and the calendar, then awaits the archive directory ...
SweepDecides ==
    /\ sweep = Idle /\ IsOpen("memory")
    /\ disk.live # None /\ Live(disk).month < month
    /\ sweep' = [seals |-> Live(disk).month, opens |-> month]
    /\ UNCHANGED <<month, disk, store, history, behind, misfiled, stale, crashes>>

\* ... and seals what is at the path by then; the fresh file is of the month it looked in.
SweepSeals ==
    /\ sweep # Idle
    /\ disk' = Fresh(Sealed(disk, sweep.seals, 5), sweep.opens)
    /\ sweep' = Idle
    /\ behind' = TRUE /\ misfiled' = (misfiled \/ Misfiling(sweep.seals))
    /\ stale' = (stale \/ IsOpen("reader"))
    /\ UNCHANGED <<month, store, history, crashes>>

\* The process dies, between two operations or in the middle of a seal.
Crash ==
    /\ crashes < MaxCrashes
    /\ \E n \in SealSteps \ {6} :
         \/ disk' = disk /\ n = 0 /\ UNCHANGED misfiled
         \/ \E s \in Stores :
              /\ IsOpen(s) /\ store[s].month # month /\ n > 0
              /\ disk' = SealedBy(s, n)
              /\ misfiled' = (misfiled \/ Misfiling(store[s].month))
         \/ /\ sweep # Idle /\ n > 0
            /\ disk' = Sealed(disk, sweep.seals, n)
            /\ misfiled' = (misfiled \/ Misfiling(sweep.seals))
         \/ /\ ~IsOpen("memory") \/ ~IsOpen("reader")
            /\ disk.live # None /\ Live(disk).month # month /\ n > 0
            /\ disk' = Sealed(disk, Live(disk).month, n)
            /\ UNCHANGED misfiled
    /\ store' = [s \in Stores |-> Closed]
    /\ sweep' = Idle /\ behind' = FALSE /\ stale' = FALSE
    /\ crashes' = crashes + 1
    /\ UNCHANGED <<month, history>>

Next ==
    \/ MonthTurns \/ DecidePlan \/ SweepDecides \/ SweepSeals \/ Crash
    \/ \E s \in Stores : Open(s) \/ ListEvents(s)
    \/ \E parent \in {None} \cup 1..appended : AppendEvent(parent)

Spec == Init /\ [][Next]_vars

\* The process is started again and the timer of the sweep fires (archiveIntervalHours is
\* positive unless it is configured away).
FairSpec == Spec /\ WF_vars(Open("memory")) /\ WF_vars(SweepDecides) /\ WF_vars(SweepSeals)
-----------------------------------------------------------------------------
\* The file a connection of store s reads as the archive of month m: the one it has cached.
ArchiveOf(s, m) == IF store[s].cached[m] # None THEN store[s].cached[m] ELSE disk.archive[m]
EventsIn(f) == IF f = None THEN {} ELSE disk.files[f].events

\* getEvent: the shard the catalog names; without a locator every shard in turn.
Finds(s, e) ==
    CASE disk.locator[e] = InLive -> e \in EventsIn(store[s].live)
      [] disk.locator[e] \in Months -> disk.locator[e] \in disk.listed
                                       /\ e \in EventsIn(ArchiveOf(s, disk.locator[e]))
      [] OTHER -> \/ e \in EventsIn(store[s].live)
                  \/ \E m \in disk.listed : e \in EventsIn(ArchiveOf(s, m))

\* The shards in which listEvents of s meets the event.
Shown(s, e) == {m \in disk.listed : e \in EventsIn(ArchiveOf(s, m))}
               \cup {None : f \in {g \in {store[s].live} : e \in EventsIn(g)}}

TypeOK ==
    /\ month \in Months
    /\ sweep \in [seals : Months \cup {None}, opens : Months \cup {None}]
    /\ disk.files \in [FileIds -> [month : Months \cup {None}, events : SUBSET Events]]
    /\ disk.live \in FileIds \cup {None}
    /\ disk.archive \in [Months -> FileIds \cup {None}]
    /\ disk.listed \subseteq Months
    /\ disk.locator \in [Events -> Months \cup {None, InLive}]
    /\ store \in [Stores -> [live : FileIds \cup {None}, month : Months \cup {None},
                             cached : [Months -> FileIds \cup {None}]]]
    /\ appended \in 0..MaxEvents /\ refused \subseteq Events
    /\ crashes \in 0..MaxCrashes
    /\ {behind, misfiled, stale} \subseteq BOOLEAN

\* The ledger is append-only (docs/boundaries.md, R2): the memory store finds every event it
\* has acknowledged, in whatever month and after whatever crash. The code does not keep it.
AppendOnly == IsOpen("memory") => \A e \in 1..appended : Finds("memory", e)

\* It does as long as no file is exported under the name of another month: neither a crash
\* inside a seal nor a sealed file under an open connection loses an event by itself.
LostOnlyByMisfiling == ~misfiled => AppendOnly

\* While no event is exported to a wrong place and nobody replaced the live file behind the
\* memory store, a listing shows an event once: the copy that a crash leaves at the path
\* beside the one in the archive is gone before anybody reads.
ShownOnce ==
    IsOpen("memory") /\ ~behind /\ ~misfiled =>
        \A e \in 1..appended : Cardinality(Shown("memory", e)) = 1

\* The socket reader answers from its own connections what the memory store would, until the
\* live file is replaced under it.
ReaderAgrees ==
    IsOpen("memory") /\ IsOpen("reader") /\ ~stale /\ ~misfiled =>
        \A e \in 1..appended : Finds("reader", e) = Finds("memory", e)

\* An append is refused for its parent only when the parent's month is sealed: a question
\* asked before the month turned cannot be answered after it.
RefusedOnlyWhenSealed ==
    ~misfiled => \A e \in refused : disk.locator[e] \in disk.listed
                                    /\ disk.locator[e] < month

\* A past month does not stay live: the sweep seals it even when nobody writes.
LiveFileCatchesUp == [](Live(disk).month < month => <>(Live(disk).month = month))
=============================================================================
