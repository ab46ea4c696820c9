---------------------------- MODULE BrainShards_proofs ----------------------------
(* What the ledger keeps over its archives, for any number of months, events and crashes.

   A seal is a sequence of steps that a crash may cut anywhere and that may be repeated, by
   any of three parties. Filed says where every event is as long as nothing was misfiled;
   Archived says it of the moment in which no file is live, which every complete seal
   passes through. Both are operators of a disk and the connections, so that an append
   that seals first is taken in two steps. *)
EXTENDS BrainShards, FiniteSetTheorems, WellFoundedInduction, TLAPS

Disks == [files : [FileIds -> [month : Months \cup {None}, events : SUBSET Events]],
          live : FileIds \cup {None}, archive : [Months -> FileIds \cup {None}],
          listed : SUBSET Months, locator : [Events -> Months \cup {None, InLive}]]
Connection == [live : FileIds \cup {None}, month : Months \cup {None},
               cached : [Months -> FileIds \cup {None}]]
Shut == [s \in Stores |-> Closed]
EventsOf(d, k) == d.files[d.archive[k]].events

\* What holds of the disk whatever was misfiled.
SoundDisk(d, mo, ap) ==
    /\ d \in Disks
    /\ \A f \in FileIds : d.files[f].events \subseteq 1..ap
    /\ d.live # None => d.files[d.live].month \in 1..mo
    /\ \A k \in Months : k \in d.listed \/ d.archive[k] # None => k < mo
    /\ \A e \in 1..ap : d.locator[e] # None

\* ... and of the connections.
SoundStores(d, st, mo) ==
    /\ st \in [Stores -> Connection]
    /\ \A s \in Stores : IF st[s].live = None THEN st[s] = Closed
                         ELSE st[s].month \in 1..mo /\ d.live # None

\* An event the catalog locates in an archive is in it, unless its seal was cut and is still
\* to be repeated.
Located(d, st, mo, ap) ==
    \A e \in 1..ap : d.locator[e] \in Months =>
        \/ d.locator[e] \in d.listed /\ d.archive[d.locator[e]] # None
           /\ e \in EventsOf(d, d.locator[e])
        \/ Live(d).month = d.locator[e] /\ d.locator[e] # mo /\ e \in Live(d).events
           /\ \A s \in Stores : st[s].live = None

\* No event is in two archives, and the live file shares events with none but a copy of its
\* own.
Apart(d) ==
    \A k \in Months : d.archive[k] # None =>
        /\ d.archive[k] # d.live
        /\ \A j \in Months : d.archive[j] # None /\ j # k =>
                                EventsOf(d, j) \cap EventsOf(d, k) = {}
        /\ IF Live(d).month = k THEN EventsOf(d, k) \subseteq Live(d).events
           ELSE EventsOf(d, k) \cap Live(d).events = {}

\* A connection knows the month of the live file or holds one that was sealed, and the
\* archives it has cached are not written again.
Current(d, st) ==
    \A s \in Stores : st[s].live # None =>
        /\ \A k \in Months : k \in d.listed \/ d.archive[k] # None => k < Live(d).month
        /\ IF st[s].live = d.live THEN st[s].month = Live(d).month
           ELSE st[s].month < Live(d).month
        /\ \A k \in Months : st[s].cached[k] # None => st[s].cached[k] = d.archive[k]

Filed(d, st, mo, ap) ==
    /\ \A e \in 1..ap : d.locator[e] = InLive => e \in Live(d).events
    /\ Located(d, st, mo, ap)
    /\ Apart(d)
    /\ Current(d, st)
    /\ st["memory"].live \notin {None, d.live} => Live(d).events = {}

\* The live file is sealed and no other has taken its place.
Archived(d, st, mo, ap) ==
    /\ d.live = None
    /\ \A e \in 1..ap : d.locator[e] \in d.listed /\ d.archive[d.locator[e]] # None
                        /\ e \in EventsOf(d, d.locator[e])
    /\ \A k, j \in Months : d.archive[k] # None /\ d.archive[j] # None /\ j # k =>
                                EventsOf(d, j) \cap EventsOf(d, k) = {}
    /\ \A s \in Stores :
        /\ st[s].live # None => st[s].month < mo
        /\ \A k \in Months : st[s].cached[k] # None => st[s].cached[k] = d.archive[k]

\* The sweep has looked at the live file of an earlier month, in this one or before.
Decided ==
    /\ sweep.seals \in Months /\ sweep.opens \in Months
    /\ sweep.seals < sweep.opens /\ sweep.opens <= month
    /\ IsOpen("memory")

Noted ==
    /\ sweep # Idle => Decided
    /\ sweep \in [seals : Months \cup {None}, opens : Months \cup {None}]
    /\ refused \subseteq 1..appended
    /\ crashes \in 0..MaxCrashes
    /\ behind \in BOOLEAN /\ misfiled \in BOOLEAN /\ stale \in BOOLEAN
    /\ IsOpen("memory") /\ ~behind => store["memory"].live = disk.live
    /\ IsOpen("reader") /\ ~stale => store["reader"].live = disk.live

RefusedAreListed == \A e \in refused : disk.locator[e] \in disk.listed

IInv ==
    /\ month \in Months /\ appended \in 0..MaxEvents
    /\ SoundDisk(disk, month, appended)
    /\ SoundStores(disk, store, month)
    /\ Noted
    /\ ~misfiled => Filed(disk, store, month, appended) /\ RefusedAreListed

-----------------------------------------------------------------------------
(* A new file has a number of its own. *)

\* The values of a function on the months are no more than the months.
LEMMA FewValues ==
    ASSUME BrainAssumption, NEW S, NEW a \in [Months -> S]
    PROVE  IsFiniteSet(Range(a)) /\ Cardinality(Range(a)) \in Nat /\ Cardinality(Range(a)) <= MaxMonth
<1>1. IsFiniteSet(Months) /\ Cardinality(Months) = MaxMonth
  BY FS_Interval DEF BrainAssumption, Months
<1>2. a \in Surjection(Months, Range(a))
  BY DEF Surjection, Range
<1>3. IsFiniteSet(Range(a)) /\ Cardinality(Range(a)) <= Cardinality(Months)
  BY <1>1, <1>2, FS_Surjection
<1> QED
  BY <1>1, <1>3, FS_CardinalityType

LEMMA UnionIsFew ==
    ASSUME NEW S, NEW T, IsFiniteSet(S), IsFiniteSet(T), NEW m \in Nat, NEW n \in Nat,
           Cardinality(S) <= m, Cardinality(T) <= n
    PROVE  IsFiniteSet(S \cup T) /\ Cardinality(S \cup T) <= m + n
<1>1. IsFiniteSet(S \cap T)
  BY FS_Subset
<1>2. /\ Cardinality(S) \in Nat /\ Cardinality(T) \in Nat
      /\ Cardinality(S \cap T) \in Nat /\ Cardinality(S \cup T) \in Nat
  BY <1>1, FS_Union, FS_CardinalityType
<1>3. /\ IsFiniteSet(S \cup T)
      /\ Cardinality(S \cup T) = Cardinality(S) + Cardinality(T) - Cardinality(S \cap T)
  BY FS_Union
<1> QED
  BY <1>2, <1>3

\* The least of a set of numbers is one of them.
LEMMA MinIsIn ==
    ASSUME NEW S, S \subseteq Nat, S # {}
    PROVE  Min(S) \in S
<1>1. PICK d \in S : \A e \in S : ~(<<e, d>> \in OpToRel(<, Nat))
  BY NatLessThanWellFounded, WFMin
<1>2. \A e \in S : d <= e
  <2> SUFFICES ASSUME NEW e \in S PROVE d <= e
    OBVIOUS
  <2>1. d \in Nat /\ e \in Nat
    OBVIOUS
  <2>2. ~(e < d)
    BY <1>1, <2>1 DEF OpToRel
  <2> QED
    BY <2>1, <2>2
<1> QED
  BY <1>1, <1>2 DEF Min

\* What a path or a connection holds is in use.
LEMMA HeldIsUsed ==
    ASSUME NEW d \in Disks, store \in [Stores -> Connection]
    PROVE  /\ d.live \in Used(d)
           /\ \A k \in Months : d.archive[k] \in Used(d)
           /\ \A s \in Stores : store[s].live \in Used(d)
                                /\ \A k \in Months : store[s].cached[k] \in Used(d)
<1>1. \A k \in Months : d.archive[k] \in Range(d.archive)
  BY DEF Range, Disks
<1>2. \A s \in Stores : \A k \in Months : store[s].cached[k] \in Range(store[s].cached)
  BY DEF Range, Connection
<1> QED
  BY <1>1, <1>2 DEF Used

LEMMA NewIsUnused ==
    ASSUME BrainAssumption, NEW d \in Disks, store \in [Stores -> Connection]
    PROVE  NewFile(d) \in FileIds \ Used(d)
<1> DEFINE m == store["memory"]
           r == store["reader"]
           L == {d.live}
           A == Range(d.archive)
           C == {m.live} \cup {r.live}
           M == Range(m.cached)
           R == Range(r.cached)
<1>1. m \in Connection /\ r \in Connection
  BY DEF Stores
<1>2. Used(d) = ((L \cup A) \cup C) \cup (M \cup R)
  BY DEF Used, Stores
<1>3. /\ IsFiniteSet(L) /\ Cardinality(L) <= 1
      /\ IsFiniteSet({m.live}) /\ Cardinality({m.live}) <= 1
      /\ IsFiniteSet({r.live}) /\ Cardinality({r.live}) <= 1
  <2> SUFFICES ASSUME NEW x PROVE IsFiniteSet({x}) /\ Cardinality({x}) <= 1
    OBVIOUS
  <2>1. IsFiniteSet({x}) /\ Cardinality({x}) = 1
    BY FS_Singleton
  <2> QED
    BY <2>1
<1>4. /\ IsFiniteSet(A) /\ Cardinality(A) <= MaxMonth
      /\ IsFiniteSet(M) /\ Cardinality(M) <= MaxMonth
      /\ IsFiniteSet(R) /\ Cardinality(R) <= MaxMonth
  BY <1>1, FewValues DEF Disks, Connection
<1>5. MaxMonth \in Nat /\ MaxFile \in Nat /\ MaxFile > 3 * MaxMonth + 3
  BY DEF BrainAssumption
<1>6. IsFiniteSet(Used(d)) /\ Cardinality(Used(d)) <= 3 * MaxMonth + 3
  <2> HIDE DEF L, A, M, R, m, r
  <2>1. IsFiniteSet(L \cup A) /\ Cardinality(L \cup A) <= 1 + MaxMonth
    BY <1>3, <1>4, <1>5, UnionIsFew
  <2>2. IsFiniteSet(C) /\ Cardinality(C) <= 1 + 1
    BY <1>3, UnionIsFew
  <2>3. IsFiniteSet(M \cup R) /\ Cardinality(M \cup R) <= MaxMonth + MaxMonth
    BY <1>4, <1>5, UnionIsFew
  <2>4. 1 + 1 \in Nat /\ 1 + MaxMonth \in Nat /\ MaxMonth + MaxMonth \in Nat /\ (1 + MaxMonth) + (1 + 1) \in Nat
    BY <1>5
  <2> HIDE DEF C
  <2>5. IsFiniteSet((L \cup A) \cup C) /\ Cardinality((L \cup A) \cup C) <= (1 + MaxMonth) + (1 + 1)
    BY <2>1, <2>2, <2>4, UnionIsFew
  <2>6. /\ IsFiniteSet(((L \cup A) \cup C) \cup (M \cup R))
        /\ Cardinality(((L \cup A) \cup C) \cup (M \cup R))
              <= ((1 + MaxMonth) + (1 + 1)) + (MaxMonth + MaxMonth)
    BY <2>3, <2>4, <2>5, UnionIsFew
  <2>7. Cardinality(Used(d)) \in Nat
    BY <1>2, <2>6, FS_CardinalityType
  <2> QED
    BY <1>2, <1>5, <2>6, <2>7
<1>7. IsFiniteSet(FileIds) /\ Cardinality(FileIds) = MaxFile
  BY <1>5, FS_Interval DEF FileIds
<1>8. FileIds \ Used(d) # {}
  <2> SUFFICES ASSUME FileIds \subseteq Used(d) PROVE FALSE
    OBVIOUS
  <2>1. Cardinality(FileIds) <= Cardinality(Used(d))
    BY <1>6, FS_Subset
  <2>2. Cardinality(Used(d)) \in Nat
    BY <1>6, FS_CardinalityType
  <2> QED
    BY <1>5, <1>6, <1>7, <2>1, <2>2
<1>9. FileIds \ Used(d) \subseteq Nat
  BY DEF FileIds
<1> QED
  BY <1>8, <1>9, MinIsIn DEF NewFile

-----------------------------------------------------------------------------
(* The shape of a disk whose seal was cut or is complete. *)

\* The disk e is d after the first n steps of a seal that gives the snapshot the number f.
CutOf(e, d, m, f, n) ==
    /\ e \in Disks
    /\ e.files = [d.files EXCEPT ![f] = [month |-> m, events |-> Live(d).events]]
    /\ e.live = IF n = 5 THEN None ELSE d.live
    /\ e.archive = [d.archive EXCEPT ![m] = f]
    /\ e.listed = IF n >= 3 THEN d.listed \cup {m} ELSE d.listed
    /\ e.locator = IF n >= 4 THEN [v \in Events |-> IF v \in Live(d).events THEN m
                                                    ELSE d.locator[v]]
                   ELSE d.locator

\* A number that neither the path, nor another archive, nor a connection holds.
Spare(d, m, f) ==
    /\ f \in FileIds /\ f # d.live
    /\ \A k \in Months \ {m} : d.archive[k] # f
    /\ \A s \in Stores : store[s].live # f /\ \A k \in Months : store[s].cached[k] # f

LEMMA DropShape ==
    ASSUME NEW d \in Disks, NEW m \in Months
    PROVE  /\ DropArchive(d, m) \in Disks
           /\ DropArchive(d, m).archive = [d.archive EXCEPT ![m] = None]
           /\ DropArchive(d, m).files = d.files /\ DropArchive(d, m).live = d.live
           /\ DropArchive(d, m).listed = d.listed /\ DropArchive(d, m).locator = d.locator
           /\ Live(DropArchive(d, m)) = Live(d)
  BY DEF DropArchive, Disks, Live

LEMMA LiveIsFile ==
    ASSUME NEW d \in Disks
    PROVE  Live(d).events \subseteq Events /\ Live(d).month \in Months \cup {None}
  BY DEF Live, Empty, Disks

LEMMA CutShape ==
    ASSUME BrainAssumption, NEW d \in Disks, NEW m \in Months, store \in [Stores -> Connection]
    PROVE  \E f : Spare(d, m, f) /\ \A n \in 2..5 : CutOf(Sealed(d, m, n), d, m, f, n)
<1> DEFINE d1 == DropArchive(d, m)
           f == NewFile(d1)
           x == Live(d).events
           d2 == Export(d1, m)
           d3 == List(d2, m)
           d4 == Locate(d3, m)
           d5 == Remove(d4)
<1>1. /\ d1 \in Disks /\ d1.archive = [d.archive EXCEPT ![m] = None]
      /\ d1.files = d.files /\ d1.live = d.live /\ d1.listed = d.listed
      /\ d1.locator = d.locator /\ Live(d1) = Live(d)
  BY DropShape
<1>2. f \in FileIds \ Used(d1)
  BY <1>1, NewIsUnused
<1>3. Spare(d, m, f)
  <2>1. /\ f # d1.live /\ \A k \in Months : d1.archive[k] # f
        /\ \A s \in Stores : store[s].live # f /\ \A k \in Months : store[s].cached[k] # f
    <3>1. /\ d1.live \in Used(d1) /\ \A k \in Months : d1.archive[k] \in Used(d1)
          /\ \A s \in Stores : store[s].live \in Used(d1)
                               /\ \A k \in Months : store[s].cached[k] \in Used(d1)
      BY <1>1, HeldIsUsed
    <3> HIDE DEF d1, f
    <3> QED
      BY <1>2, <3>1
  <2>2. \A k \in Months \ {m} : d1.archive[k] = d.archive[k]
    BY <1>1 DEF Disks
  <2> QED
    BY <1>1, <1>2, <2>1, <2>2 DEF Spare
<1>4. x \subseteq Events
  BY LiveIsFile
<1>5. CutOf(d2, d, m, f, 2)
  <2>1. d2 = [d1 EXCEPT !.archive[m] = f, !.files[f] = [month |-> m, events |-> x]]
    BY <1>1 DEF Export
  <2>2. [d1.archive EXCEPT ![m] = f] = [d.archive EXCEPT ![m] = f]
    BY <1>1 DEF Disks
  <2>3. f \in FileIds
    BY <1>2
  <2> HIDE DEF d1, f, x, d2
  <2>4. /\ d2.files = [d1.files EXCEPT ![f] = [month |-> m, events |-> x]]
        /\ d2.archive = [d1.archive EXCEPT ![m] = f]
        /\ d2.live = d1.live /\ d2.listed = d1.listed /\ d2.locator = d1.locator
        /\ d2 \in Disks
    BY <1>1, <1>4, <2>1, <2>3 DEF Disks
  <2> QED
    BY <1>1, <2>2, <2>4 DEF CutOf, x
<1>6. CutOf(d3, d, m, f, 3)
  <2> HIDE DEF d2, f
  <2> QED
    BY <1>5 DEF List, CutOf, Disks
<1>7. CutOf(d4, d, m, f, 4)
  <2>1. f \in FileIds
    BY <1>2
  <2> HIDE DEF d3, f
  <2>2. d3.files[d3.archive[m]].events = x
    BY <1>6, <2>1 DEF CutOf, Disks
  <2>3. d4 = [d3 EXCEPT !.locator = [e \in Events |-> IF e \in x THEN m ELSE @[e]]]
    BY <2>2 DEF Locate
  <2> HIDE DEF x, d4
  <2>4. /\ d4.locator = [e \in Events |-> IF e \in x THEN m ELSE d3.locator[e]]
        /\ d4.files = d3.files /\ d4.live = d3.live /\ d4.archive = d3.archive
        /\ d4.listed = d3.listed /\ d4 \in Disks
    BY <1>6, <2>3 DEF CutOf, Disks
  <2> QED
    BY <1>6, <2>4 DEF CutOf, x
<1>8. CutOf(d5, d, m, f, 5)
  <2> HIDE DEF d4, f
  <2> QED
    BY <1>7 DEF Remove, CutOf, Disks
<1>9. /\ Sealed(d, m, 2) = d2 /\ Sealed(d, m, 3) = d3 /\ Sealed(d, m, 4) = d4
      /\ Sealed(d, m, 5) = d5
  BY DEF Sealed
<1>10. \A n \in 2..5 : CutOf(Sealed(d, m, n), d, m, f, n)
  <2> HIDE DEF d2, d3, d4, d5, f
  <2> QED
    BY <1>5, <1>6, <1>7, <1>8, <1>9
<1> QED
  BY <1>3, <1>10

LEMMA RemoveShape ==
    ASSUME NEW d \in Disks
    PROVE  /\ Remove(d) \in Disks /\ Remove(d).live = None /\ Remove(d).files = d.files
           /\ Remove(d).archive = d.archive /\ Remove(d).listed = d.listed
           /\ Remove(d).locator = d.locator
  BY DEF Remove, Disks

LEMMA FreshShape ==
    ASSUME BrainAssumption, NEW b \in Months, NEW d \in Disks, store \in [Stores -> Connection]
    PROVE  \E g \in FileIds \ Used(d) :
              /\ Fresh(d, b) \in Disks /\ Fresh(d, b).live = g
              /\ Fresh(d, b).files = [d.files EXCEPT ![g] = [month |-> b, events |-> {}]]
              /\ Fresh(d, b).archive = d.archive /\ Fresh(d, b).listed = d.listed
              /\ Fresh(d, b).locator = d.locator
<1> DEFINE g == NewFile(d)
<1>1. g \in FileIds \ Used(d)
  BY NewIsUnused
<1>2. Fresh(d, b) = [d EXCEPT !.live = g, !.files[g] = [month |-> b, events |-> {}]]
  BY DEF Fresh
<1> HIDE DEF g
<1> DEFINE files == [d.files EXCEPT ![g] = [month |-> b, events |-> {}]]
<1>3. files \in [FileIds -> [month : Months \cup {None}, events : SUBSET Events]]
  BY <1>1 DEF Disks
<1>4. Fresh(d, b) = [d EXCEPT !.live = g, !.files = files]
  BY <1>2
<1> HIDE DEF files
<1>5. /\ Fresh(d, b) \in Disks /\ Fresh(d, b).live = g /\ Fresh(d, b).files = files
      /\ Fresh(d, b).archive = d.archive /\ Fresh(d, b).listed = d.listed
      /\ Fresh(d, b).locator = d.locator
  BY <1>1, <1>3, <1>4 DEF Disks
<1> QED
  BY <1>1, <1>5 DEF files

-----------------------------------------------------------------------------
(* No step of a seal leaves a disk that is not sound, under whatever name. *)

LEMMA LiveIsSound ==
    ASSUME NEW mo, NEW ap, NEW d, SoundDisk(d, mo, ap)
    PROVE  /\ d \in Disks /\ Live(d).events \subseteq 1..ap
           /\ d.live # None => Live(d).month \in 1..mo /\ Live(d) = d.files[d.live]
           /\ d.live = None => Live(d).month = None /\ Live(d).events = {}
  BY DEF SoundDisk, Live, Empty, Disks

LEMMA CutIsSound ==
    ASSUME BrainAssumption, NEW mo \in Months, NEW ap \in 0..MaxEvents, NEW d, SoundDisk(d, mo, ap),
           NEW m \in Months, m < mo, NEW f, Spare(d, m, f), NEW n \in 2..5, NEW e,
           CutOf(e, d, m, f, n)
    PROVE  SoundDisk(e, mo, ap)
<1>1. d \in Disks /\ e \in Disks /\ f \in FileIds /\ f # d.live
  BY LiveIsSound DEF CutOf, Spare
<1>2. \A g \in FileIds : e.files[g].events \subseteq 1..ap
  <2>1. \A g \in FileIds : e.files[g].events = IF g = f THEN Live(d).events ELSE d.files[g].events
    BY <1>1 DEF CutOf, Disks
  <2> QED
    BY <2>1, LiveIsSound DEF SoundDisk
<1>3. e.live # None => e.files[e.live].month \in 1..mo
  <2>1. e.live # None => e.live = d.live /\ e.files[d.live] = d.files[d.live]
    BY <1>1 DEF CutOf, Disks
  <2> QED
    BY <2>1 DEF SoundDisk
<1>4. \A k \in Months : k \in e.listed \/ e.archive[k] # None => k < mo
  <2> SUFFICES ASSUME NEW k \in Months, k # m
               PROVE  /\ k \in e.listed => k \in d.listed
                      /\ e.archive[k] = d.archive[k]
    BY DEF SoundDisk
  <2> QED
    BY <1>1 DEF CutOf, Disks
<1>5. \A v \in 1..ap : e.locator[v] # None
  <2>1. 1..ap \subseteq Events /\ m # None
    BY DEF BrainAssumption, Events, Months, None
  <2>2. \A v \in 1..ap : e.locator[v] \in {m, d.locator[v]}
    BY <2>1 DEF CutOf
  <2> QED
    BY <2>1, <2>2 DEF SoundDisk
<1> QED
  BY <1>1, <1>2, <1>3, <1>4, <1>5 DEF SoundDisk

LEMMA DropIsSound ==
    ASSUME NEW mo \in Months, NEW ap, NEW d, SoundDisk(d, mo, ap), NEW m \in Months
    PROVE  SoundDisk(DropArchive(d, m), mo, ap)
<1>1. d \in Disks
  BY LiveIsSound
<1>2. \A k \in Months : DropArchive(d, m).archive[k] \in {None, d.archive[k]}
  <2>1. DropArchive(d, m).archive = [d.archive EXCEPT ![m] = None]
    BY <1>1, DropShape
  <2> QED
    BY <1>1, <2>1 DEF Disks
<1> QED
  BY <1>1, <1>2, DropShape DEF SoundDisk

LEMMA RemoveIsSound ==
    ASSUME NEW mo, NEW ap, NEW d, SoundDisk(d, mo, ap)
    PROVE  SoundDisk(Remove(d), mo, ap)
  BY RemoveShape DEF SoundDisk

LEMMA FreshIsSound ==
    ASSUME BrainAssumption, NEW mo \in Months, NEW b \in 1..mo, store \in [Stores -> Connection],
           NEW ap, NEW d, SoundDisk(d, mo, ap)
    PROVE  SoundDisk(Fresh(d, b), mo, ap) /\ Fresh(d, b).live # None
<1>1. d \in Disks /\ b \in Months
  BY LiveIsSound DEF Months
<1>2. PICK g \in FileIds \ Used(d) :
              /\ Fresh(d, b) \in Disks /\ Fresh(d, b).live = g
              /\ Fresh(d, b).files = [d.files EXCEPT ![g] = [month |-> b, events |-> {}]]
              /\ Fresh(d, b).archive = d.archive /\ Fresh(d, b).listed = d.listed
              /\ Fresh(d, b).locator = d.locator
  BY <1>1, FreshShape
<1>3. g # None
  BY DEF FileIds, None
<1>4. /\ Fresh(d, b).files[g].month = b
      /\ \A h \in FileIds : Fresh(d, b).files[h].events \subseteq d.files[h].events
  BY <1>1, <1>2 DEF Disks
<1> QED
  BY <1>2, <1>3, <1>4 DEF SoundDisk

LEMMA SealedIsSound ==
    ASSUME BrainAssumption, store \in [Stores -> Connection],
           NEW mo \in Months, NEW ap \in 0..MaxEvents, NEW d, SoundDisk(d, mo, ap),
           NEW m \in Months, m < mo, NEW n \in 0..5
    PROVE  SoundDisk(Sealed(d, m, n), mo, ap)
<1>1. d \in Disks
  BY LiveIsSound
<1>2. CASE n = 0
  BY <1>2 DEF Sealed
<1>3. CASE n = 1
  <2>1. Sealed(d, m, n) = DropArchive(d, m)
    BY <1>3 DEF Sealed
  <2> QED
    BY <2>1, DropIsSound
<1>4. CASE n \in 2..5
  <2>1. PICK f : Spare(d, m, f) /\ CutOf(Sealed(d, m, n), d, m, f, n)
    BY <1>1, <1>4, CutShape
  <2> QED
    BY <1>4, <2>1, CutIsSound
<1> QED
  BY <1>2, <1>3, <1>4

-----------------------------------------------------------------------------
(* Where the events are after a seal, or a part of one, under the name of its month. *)

\* A snapshot has the events of the live file, the other archives keep theirs.
LEMMA CutEvents ==
    ASSUME NEW d \in Disks, NEW m \in Months, NEW f, Spare(d, m, f), NEW n \in 2..5, NEW e,
           CutOf(e, d, m, f, n)
    PROVE  /\ e \in Disks /\ e.archive[m] = f /\ f \in FileIds /\ f # None
           /\ EventsOf(e, m) = Live(d).events
           /\ \A k \in Months \ {m} : /\ e.archive[k] = d.archive[k]
                                      /\ d.archive[k] # None => EventsOf(e, k) = EventsOf(d, k)
           /\ n # 5 => e.live = d.live /\ Live(e) = Live(d)
<1>1. /\ f \in FileIds /\ f # d.live /\ e \in Disks
      /\ \A k \in Months \ {m} : d.archive[k] # f
  BY DEF Spare, CutOf
<1>2. f # None
  BY <1>1 DEF FileIds, None
<1>3. e.archive[m] = f /\ \A k \in Months \ {m} : e.archive[k] = d.archive[k]
  BY DEF CutOf, Disks
<1>4. /\ e.files[f] = [month |-> m, events |-> Live(d).events]
      /\ \A g \in FileIds \ {f} : e.files[g] = d.files[g]
  BY <1>1 DEF CutOf, Disks
<1>5. EventsOf(e, m) = Live(d).events
  BY <1>3, <1>4 DEF EventsOf
<1>6. \A k \in Months \ {m} : d.archive[k] # None => EventsOf(e, k) = EventsOf(d, k)
  <2> SUFFICES ASSUME NEW k \in Months \ {m}, d.archive[k] # None
               PROVE  EventsOf(e, k) = EventsOf(d, k)
    OBVIOUS
  <2>1. d.archive[k] \in FileIds \ {f}
    BY <1>1 DEF Disks
  <2> QED
    BY <1>3, <1>4, <2>1 DEF EventsOf
<1>7. n # 5 => e.live = d.live /\ Live(e) = Live(d)
  <2>1. d.live \in FileIds \cup {None} /\ (n # 5 => e.live = d.live)
    BY DEF Disks, CutOf
  <2> QED
    BY <1>1, <1>4, <2>1 DEF Live
<1> QED
  BY <1>1, <1>2, <1>3, <1>5, <1>6, <1>7

LEMMA CutIsArchived ==
    ASSUME BrainAssumption, NEW mo \in Months, NEW ap \in 0..MaxEvents, NEW d, SoundDisk(d, mo, ap),
           SoundStores(d, store, mo), Filed(d, store, mo, ap),
           NEW m \in Months, m < mo, m = Live(d).month, NEW f, Spare(d, m, f), NEW e,
           CutOf(e, d, m, f, 5)
    PROVE  Archived(e, store, mo, ap)
<1>1. /\ d \in Disks /\ e.archive[m] = f /\ f # None
      /\ EventsOf(e, m) = Live(d).events
      /\ \A k \in Months \ {m} : /\ e.archive[k] = d.archive[k]
                                 /\ d.archive[k] # None => EventsOf(e, k) = EventsOf(d, k)
  BY CutEvents, LiveIsSound
<1>2. e.live = None /\ e.listed = d.listed \cup {m}
  BY DEF CutOf
<1>3. 1..ap \subseteq Events /\ mo \in Nat
  BY DEF BrainAssumption, Events, Months
<1>4. \A v \in 1..ap : e.locator[v] \in e.listed /\ e.archive[e.locator[v]] # None
                       /\ v \in EventsOf(e, e.locator[v])
  <2> SUFFICES ASSUME NEW v \in 1..ap
               PROVE  e.locator[v] \in e.listed /\ e.archive[e.locator[v]] # None
                      /\ v \in EventsOf(e, e.locator[v])
    OBVIOUS
  <2>1. v \in Events /\ e.locator[v] = IF v \in Live(d).events THEN m ELSE d.locator[v]
    BY <1>3 DEF CutOf
  <2>2. CASE v \in Live(d).events
    BY <1>1, <1>2, <2>1, <2>2
  <2>3. CASE v \notin Live(d).events
    <3>1. d.locator[v] \in Months \cup {None, InLive} /\ d.locator[v] # None
      BY <1>1, <2>1 DEF Disks, SoundDisk
    <3>2. d.locator[v] # InLive
      BY <2>3 DEF Filed
    <3>3. /\ d.locator[v] \in d.listed /\ d.archive[d.locator[v]] # None
          /\ v \in EventsOf(d, d.locator[v])
      BY <2>3, <3>1, <3>2 DEF Filed, Located
    <3>4. d.locator[v] # m
      BY <2>3, <3>3 DEF Filed, Apart
    <3> QED
      BY <1>1, <1>2, <2>1, <2>3, <3>1, <3>2, <3>3, <3>4
  <2> QED
    BY <2>2, <2>3
<1>5. \A k, j \in Months : e.archive[k] # None /\ e.archive[j] # None /\ j # k =>
                              EventsOf(e, j) \cap EventsOf(e, k) = {}
  <2> SUFFICES ASSUME NEW k \in Months, NEW j \in Months, e.archive[k] # None,
                      e.archive[j] # None, j # k
               PROVE  EventsOf(e, j) \cap EventsOf(e, k) = {}
    OBVIOUS
  <2>1. CASE k # m /\ j # m
    BY <1>1, <2>1 DEF Filed, Apart
  <2>2. CASE k = m
    <3>1. EventsOf(d, j) \cap Live(d).events = {}
      BY <1>1, <2>2 DEF Filed, Apart
    <3> QED
      BY <1>1, <2>2, <3>1
  <2>3. CASE j = m
    <3>1. EventsOf(d, k) \cap Live(d).events = {}
      BY <1>1, <2>3 DEF Filed, Apart
    <3> QED
      BY <1>1, <2>3, <3>1
  <2> QED
    BY <2>1, <2>2, <2>3
<1>6. ASSUME NEW s \in Stores
      PROVE  /\ store[s].live # None => store[s].month < mo
             /\ \A k \in Months : store[s].cached[k] # None => store[s].cached[k] = e.archive[k]
  <2>1. CASE store[s].live = None
    BY <2>1 DEF SoundStores, Closed
  <2>2. CASE store[s].live # None
    <3>1. store[s].month <= m /\ store[s].month \in 1..mo /\ m \in Int
      BY <2>2 DEF Filed, Current, SoundStores, Months
    <3>2. d.archive[m] = None
      BY <2>2, <1>3 DEF Filed, Current, Months
    <3>3. \A k \in Months : store[s].cached[k] # None =>
                               store[s].cached[k] = d.archive[k] /\ k # m
      BY <2>2, <3>2 DEF Filed, Current
    <3>4. store[s].month < mo
      BY <1>3, <3>1
    <3>5. \A k \in Months : store[s].cached[k] # None => store[s].cached[k] = e.archive[k]
      BY <1>1, <3>3
    <3> QED
      BY <3>4, <3>5
  <2> QED
    BY <2>1, <2>2
<1> QED
  BY <1>2, <1>4, <1>5, <1>6 DEF Archived

\* So it is when there is nothing to keep.
LEMMA EmptyIsArchived ==
    ASSUME BrainAssumption, NEW mo \in Months, NEW ap \in 0..MaxEvents, NEW d, SoundDisk(d, mo, ap),
           SoundStores(d, store, mo), Filed(d, store, mo, ap),
           Live(d).events = {}, Live(d).month < mo, NEW e, e.live = None,
           e.files = d.files, e.archive = d.archive, e.listed = d.listed, e.locator = d.locator
    PROVE  Archived(e, store, mo, ap)
<1>1. \A k \in Months : EventsOf(e, k) = EventsOf(d, k)
  BY DEF EventsOf
<1>2. 1..ap \subseteq Events /\ mo \in Nat
  BY DEF BrainAssumption, Events, Months
<1>3. \A v \in 1..ap : d.locator[v] \in Months
  BY <1>2 DEF SoundDisk, Disks, Filed
<1>4. ASSUME NEW s \in Stores
      PROVE  /\ store[s].live # None => store[s].month < mo
             /\ \A k \in Months : store[s].cached[k] # None => store[s].cached[k] = e.archive[k]
  <2>1. CASE store[s].live = None
    BY <2>1 DEF SoundStores, Closed
  <2>2. CASE store[s].live # None
    <3>1. /\ store[s].month <= Live(d).month /\ store[s].month \in 1..mo
          /\ \A k \in Months : store[s].cached[k] # None => store[s].cached[k] = d.archive[k]
      <4>1. Live(d).month \in Int
        BY LiveIsSound DEF None
      <4> QED
        BY <2>2, <4>1 DEF Filed, Current, SoundStores
    <3>2. Live(d).month \in Int
      BY LiveIsSound DEF None
    <3> QED
      BY <1>2, <3>1, <3>2
  <2> QED
    BY <2>1, <2>2
<1>5. \A v \in 1..ap : e.locator[v] \in e.listed /\ e.archive[e.locator[v]] # None
                       /\ v \in EventsOf(e, e.locator[v])
  BY <1>1, <1>3 DEF Filed, Located
<1>6. \A k, j \in Months : e.archive[k] # None /\ e.archive[j] # None /\ j # k =>
                              EventsOf(e, j) \cap EventsOf(e, k) = {}
  BY <1>1 DEF Filed, Apart
<1> QED
  BY <1>4, <1>5, <1>6 DEF Archived

\* The fresh file that follows: it holds nothing, and nobody holds its number.
LEMMA FreshIsFiled ==
    ASSUME BrainAssumption, NEW b \in Months, store \in [Stores -> Connection],
           NEW ap \in 0..MaxEvents, NEW d, SoundDisk(d, b, ap), Archived(d, store, b, ap),
           NEW st, \A s \in Stores : \/ st[s] = store[s]
                                     \/ /\ st[s].live = Fresh(d, b).live /\ st[s].month = b
                                        /\ st[s].cached = store[s].cached
    PROVE  Filed(Fresh(d, b), st, b, ap)
<1> DEFINE e == Fresh(d, b)
<1>1. d \in Disks
  BY LiveIsSound
<1>2. PICK g \in FileIds \ Used(d) :
              /\ e \in Disks /\ e.live = g
              /\ e.files = [d.files EXCEPT ![g] = [month |-> b, events |-> {}]]
              /\ e.archive = d.archive /\ e.listed = d.listed /\ e.locator = d.locator
  BY <1>1, FreshShape
<1> HIDE DEF e
<1>3. g # None /\ Live(e).month = b /\ Live(e).events = {}
  <2>1. g # None
    BY DEF FileIds, None
  <2>2. e.files[g] = [month |-> b, events |-> {}]
    BY <1>1, <1>2 DEF Disks
  <2> QED
    BY <1>2, <2>1, <2>2 DEF Live
<1>4. /\ \A k \in Months : d.archive[k] # g
      /\ \A s \in Stores : store[s].live # g
  BY <1>1, HeldIsUsed
<1>5. \A k \in Months : d.archive[k] # None => EventsOf(e, k) = EventsOf(d, k)
  <2> SUFFICES ASSUME NEW k \in Months, d.archive[k] # None
               PROVE  EventsOf(e, k) = EventsOf(d, k)
    OBVIOUS
  <2>1. d.archive[k] \in FileIds \ {g}
    BY <1>1, <1>4 DEF Disks
  <2>2. e.files[d.archive[k]] = d.files[d.archive[k]]
    BY <1>1, <1>2, <2>1 DEF Disks
  <2> QED
    BY <1>2, <2>2 DEF EventsOf
<1>6. d.listed \subseteq Months /\ InLive \notin Months
  BY <1>1 DEF Disks, Months, InLive
<1>7. \A v \in 1..ap : e.locator[v] \in e.listed /\ e.archive[e.locator[v]] # None
                       /\ v \in EventsOf(e, e.locator[v])
  BY <1>2, <1>5, <1>6 DEF Archived
<1>8. Located(e, st, b, ap)
  BY <1>7 DEF Located
<1>9. Apart(e)
  <2> SUFFICES ASSUME NEW k \in Months, e.archive[k] # None
               PROVE  /\ e.archive[k] # e.live
                      /\ \A j \in Months : e.archive[j] # None /\ j # k =>
                                              EventsOf(e, j) \cap EventsOf(e, k) = {}
                      /\ Live(e).month # k
    BY <1>3 DEF Apart
  <2>1. k < b
    BY <1>2 DEF SoundDisk
  <2>2. Live(e).month # k
    BY <1>3, <2>1 DEF Months
  <2> QED
    BY <1>2, <1>4, <1>5, <2>2 DEF Archived
<1>10. Current(e, st)
  <2> SUFFICES ASSUME NEW s \in Stores, st[s].live # None
               PROVE  /\ \A k \in Months : k \in e.listed \/ e.archive[k] # None => k < Live(e).month
                      /\ IF st[s].live = e.live THEN st[s].month = Live(e).month
                         ELSE st[s].month < Live(e).month
                      /\ \A k \in Months : st[s].cached[k] # None => st[s].cached[k] = e.archive[k]
    BY DEF Current
  <2>1. \A k \in Months : k \in e.listed \/ e.archive[k] # None => k < b
    BY <1>2 DEF SoundDisk
  <2>2. \A k \in Months : store[s].cached[k] # None => store[s].cached[k] = e.archive[k]
    BY <1>2 DEF Archived
  <2>3. CASE st[s] = store[s]
    <3>1. st[s].live # e.live /\ st[s].month < b
      BY <1>2, <1>4, <2>3 DEF Archived
    <3> QED
      BY <1>3, <2>1, <2>2, <2>3, <3>1
  <2>4. CASE st[s].live = e.live /\ st[s].month = b /\ st[s].cached = store[s].cached
    BY <1>3, <2>1, <2>2, <2>4
  <2> QED
    BY <2>3, <2>4 DEF e
<1>11. \A v \in 1..ap : e.locator[v] # InLive
  BY <1>2, <1>6, <1>7
<1> QED
  BY <1>3, <1>8, <1>9, <1>10, <1>11 DEF Filed, e

\* A process that dies leaves behind what its next start will put in order.
LEMMA ShutIsFiled ==
    ASSUME NEW mo, NEW ap, NEW d \in Disks, Archived(d, store, mo, ap)
    PROVE  Filed(d, Shut, mo, ap)
<1>1. d.live = None /\ Live(d) = Empty /\ Empty.events = {} /\ Empty.month = None
  BY DEF Archived, Live, Empty
<1>2. InLive \notin Months /\ None \notin Months /\ d.listed \subseteq Months
  BY DEF InLive, None, Months, Disks
<1>3. \A s \in Stores : Shut[s].live = None
  BY DEF Shut, Closed
<1>4. Located(d, Shut, mo, ap)
  BY DEF Archived, Located
<1>5. Apart(d)
  BY <1>1, <1>2 DEF Archived, Apart
<1>6. Current(d, Shut)
  BY <1>3 DEF Current
<1> QED
  BY <1>1, <1>2, <1>3, <1>4, <1>5, <1>6 DEF Filed, Archived, Stores

LEMMA CutIsFiled ==
    ASSUME BrainAssumption, NEW mo \in Months, NEW ap \in 0..MaxEvents, NEW d, SoundDisk(d, mo, ap),
           Filed(d, store, mo, ap), NEW m \in Months, m < mo, m = Live(d).month,
           NEW f, Spare(d, m, f), NEW n \in 2..4, NEW e, CutOf(e, d, m, f, n)
    PROVE  Filed(e, Shut, mo, ap)
<1>1. /\ d \in Disks /\ e.archive[m] = f /\ f # None /\ f # d.live
      /\ EventsOf(e, m) = Live(d).events
      /\ \A k \in Months \ {m} : /\ e.archive[k] = d.archive[k]
                                 /\ d.archive[k] # None => EventsOf(e, k) = EventsOf(d, k)
      /\ e.live = d.live /\ Live(e) = Live(d)
  BY CutEvents, LiveIsSound DEF Spare
<1>2. /\ e.listed = IF n >= 3 THEN d.listed \cup {m} ELSE d.listed
      /\ \A v \in 1..ap : e.locator[v] = IF n >= 4 /\ v \in Live(d).events THEN m ELSE d.locator[v]
  BY DEF CutOf, BrainAssumption, Events
<1>3. \A s \in Stores : Shut[s].live = None
  BY DEF Shut, Closed
<1>4. InLive \notin Months /\ m # mo
  BY DEF InLive, Months
<1>5. \A v \in 1..ap : e.locator[v] = InLive => v \in Live(e).events
  BY <1>1, <1>2, <1>4 DEF Filed
<1>6. Located(e, Shut, mo, ap)
  <2> SUFFICES ASSUME NEW v \in 1..ap, e.locator[v] \in Months
               PROVE  \/ e.locator[v] \in e.listed /\ e.archive[e.locator[v]] # None
                         /\ v \in EventsOf(e, e.locator[v])
                      \/ Live(e).month = e.locator[v] /\ e.locator[v] # mo /\ v \in Live(e).events
    BY <1>3 DEF Located
  <2>1. CASE v \in Live(d).events /\ e.locator[v] = m
    BY <1>1, <1>4, <2>1
  <2>2. CASE v \in Live(d).events /\ e.locator[v] # m
    <3>1. e.locator[v] = d.locator[v]
      BY <1>2, <2>2
    <3> QED
      BY <1>1, <1>2, <2>2, <3>1 DEF Filed, Located
  <2>3. CASE v \notin Live(d).events
    <3>1. e.locator[v] = d.locator[v]
      BY <1>2, <2>3
    <3>2. /\ d.locator[v] \in d.listed /\ d.archive[d.locator[v]] # None
          /\ v \in EventsOf(d, d.locator[v])
      BY <2>3, <3>1 DEF Filed, Located
    <3>3. d.locator[v] # m
      BY <2>3, <3>2 DEF Filed, Apart
    <3> QED
      BY <1>1, <1>2, <3>1, <3>2, <3>3
  <2> QED
    BY <2>1, <2>2, <2>3
<1>7. Apart(e)
  <2> SUFFICES ASSUME NEW k \in Months, e.archive[k] # None
               PROVE  /\ e.archive[k] # e.live
                      /\ \A j \in Months : e.archive[j] # None /\ j # k =>
                                              EventsOf(e, j) \cap EventsOf(e, k) = {}
                      /\ IF Live(e).month = k THEN EventsOf(e, k) \subseteq Live(e).events
                         ELSE EventsOf(e, k) \cap Live(e).events = {}
    BY DEF Apart
  <2>1. CASE k = m
    <3>1. \A j \in Months : d.archive[j] # None /\ j # m =>
                               EventsOf(d, j) \cap Live(d).events = {}
      BY DEF Filed, Apart
    <3> QED
      BY <1>1, <2>1, <3>1
  <2>2. CASE k # m
    <3>1. /\ d.archive[k] # d.live /\ EventsOf(d, k) \cap Live(d).events = {}
          /\ \A j \in Months : d.archive[j] # None /\ j # k =>
                                  EventsOf(d, j) \cap EventsOf(d, k) = {}
      BY <1>1, <2>2 DEF Filed, Apart
    <3>2. ASSUME NEW j \in Months, e.archive[j] # None, j # k
          PROVE  EventsOf(e, j) \cap EventsOf(e, k) = {}
      <4>1. CASE j = m
        BY <1>1, <2>2, <3>1, <4>1
      <4>2. CASE j # m
        BY <1>1, <2>2, <3>1, <3>2, <4>2
      <4> QED
        BY <4>1, <4>2
    <3> QED
      BY <1>1, <2>2, <3>1, <3>2
  <2> QED
    BY <2>1, <2>2
<1>8. Current(e, Shut)
  BY <1>3 DEF Current
<1> QED
  BY <1>3, <1>5, <1>6, <1>7, <1>8 DEF Filed, Stores

LEMMA DropIsFiled ==
    ASSUME BrainAssumption, NEW mo \in Months, NEW ap \in 0..MaxEvents, NEW d, SoundDisk(d, mo, ap),
           Filed(d, store, mo, ap), NEW m \in Months, m < mo, m = Live(d).month
    PROVE  Filed(DropArchive(d, m), Shut, mo, ap)
<1> DEFINE e == DropArchive(d, m)
<1>1. /\ d \in Disks /\ e.archive = [d.archive EXCEPT ![m] = None]
      /\ e.files = d.files /\ e.live = d.live /\ e.listed = d.listed /\ e.locator = d.locator
      /\ Live(e) = Live(d)
  BY DropShape, LiveIsSound
<1> HIDE DEF e
<1>2. /\ e.archive[m] = None
      /\ \A k \in Months \ {m} : e.archive[k] = d.archive[k] /\ EventsOf(e, k) = EventsOf(d, k)
  BY <1>1 DEF Disks, EventsOf
<1>3. \A s \in Stores : Shut[s].live = None
  BY DEF Shut, Closed
<1>4. m # mo
  BY DEF Months
<1>5. Located(e, Shut, mo, ap)
  <2> SUFFICES ASSUME NEW v \in 1..ap, e.locator[v] \in Months
               PROVE  \/ e.locator[v] \in e.listed /\ e.archive[e.locator[v]] # None
                         /\ v \in EventsOf(e, e.locator[v])
                      \/ Live(e).month = e.locator[v] /\ e.locator[v] # mo /\ v \in Live(e).events
    BY <1>3 DEF Located
  <2>1. CASE v \in Live(d).events /\ e.locator[v] = m
    BY <1>1, <1>4, <2>1
  <2>2. CASE v \notin Live(d).events
    <3>1. /\ d.locator[v] \in d.listed /\ d.archive[d.locator[v]] # None
          /\ v \in EventsOf(d, d.locator[v])
      BY <1>1, <2>2 DEF Filed, Located
    <3>2. d.locator[v] # m
      BY <2>2, <3>1 DEF Filed, Apart
    <3> QED
      BY <1>1, <1>2, <3>1, <3>2
  <2>3. CASE e.locator[v] # m
    BY <1>1, <1>2, <2>3 DEF Filed, Located
  <2> QED
    BY <2>1, <2>2, <2>3
<1>6. Apart(e)
  <2> SUFFICES ASSUME NEW k \in Months, e.archive[k] # None, k # m
               PROVE  /\ e.archive[k] # e.live
                      /\ \A j \in Months : e.archive[j] # None /\ j # k =>
                                              EventsOf(e, j) \cap EventsOf(e, k) = {}
                      /\ IF Live(e).month = k THEN EventsOf(e, k) \subseteq Live(e).events
                         ELSE EventsOf(e, k) \cap Live(e).events = {}
    BY <1>2 DEF Apart
  <2>1. \A j \in Months : e.archive[j] # None => j # m
    BY <1>2
  <2> QED
    BY <1>1, <1>2, <2>1 DEF Filed, Apart
<1>7. Current(e, Shut)
  BY <1>3 DEF Current
<1>8. \A v \in 1..ap : e.locator[v] = InLive => v \in Live(e).events
  BY <1>1 DEF Filed
<1> QED
  BY <1>3, <1>5, <1>6, <1>7, <1>8 DEF Filed, Stores, e

-----------------------------------------------------------------------------
(* What every way to replace the live file has in common. *)

Follows(st, d) ==
    \A s \in Stores : \/ st[s] = store[s]
                      \/ /\ st[s].live = d.live /\ st[s].month = month
                         /\ st[s].cached = store[s].cached

Moves(d) == \A v \in Events : disk.locator[v] \in disk.listed => d.locator[v] \in d.listed

\* The disk d has a live file of this month, and if ok everything is in its place for the
\* connections that follow.
Replaced(d, ok) ==
    /\ SoundDisk(d, month, appended) /\ d.live # None /\ Live(d).month = month
    /\ Moves(d)
    /\ ok => \A st : Follows(st, d) => Filed(d, st, month, appended)

LEMMA FreshReplaces ==
    ASSUME BrainAssumption, month \in Months, appended \in 0..MaxEvents,
           store \in [Stores -> Connection],
           NEW d, SoundDisk(d, month, appended), Moves(d),
           NEW ok, ok => Archived(d, store, month, appended)
    PROVE  Replaced(Fresh(d, month), ok)
<1>1. SoundDisk(Fresh(d, month), month, appended) /\ Fresh(d, month).live # None
  <2>1. month \in 1..month
    BY DEF Months
  <2> QED
    BY <2>1, FreshIsSound
<1>2. d \in Disks
  BY LiveIsSound
<1>3. /\ Fresh(d, month).listed = d.listed /\ Fresh(d, month).locator = d.locator
      /\ Live(Fresh(d, month)).month = month
  <2>1. PICK g \in FileIds \ Used(d) :
              /\ Fresh(d, month) \in Disks /\ Fresh(d, month).live = g
              /\ Fresh(d, month).files = [d.files EXCEPT ![g] = [month |-> month, events |-> {}]]
              /\ Fresh(d, month).archive = d.archive /\ Fresh(d, month).listed = d.listed
              /\ Fresh(d, month).locator = d.locator
    BY <1>2, FreshShape
  <2>2. Fresh(d, month).files[g].month = month
    BY <1>2, <2>1 DEF Disks
  <2> QED
    BY <1>1, <2>1, <2>2 DEF Live
<1>4. Moves(Fresh(d, month))
  BY <1>3 DEF Moves
<1>5. ASSUME ok, NEW st, Follows(st, Fresh(d, month)) PROVE Filed(Fresh(d, month), st, month, appended)
  BY <1>5, FreshIsFiled DEF Follows
<1> QED
  BY <1>1, <1>3, <1>4, <1>5 DEF Replaced

\* An event stays listed through every step of a seal.
LEMMA SealedMoves ==
    ASSUME BrainAssumption, disk \in Disks, store \in [Stores -> Connection],
           NEW m \in Months, NEW n \in 0..5
    PROVE  Moves(Sealed(disk, m, n))
<1>1. CASE n = 0
  BY <1>1 DEF Sealed, Moves
<1>2. CASE n = 1
  <2>1. Sealed(disk, m, n) = DropArchive(disk, m)
    BY <1>2 DEF Sealed
  <2>2. /\ DropArchive(disk, m).listed = disk.listed
        /\ DropArchive(disk, m).locator = disk.locator
    BY DropShape
  <2> QED
    BY <2>1, <2>2 DEF Moves
<1>3. CASE n \in 2..5
  <2>1. PICK f : CutOf(Sealed(disk, m, n), disk, m, f, n)
    BY <1>3, CutShape
  <2> DEFINE e == Sealed(disk, m, n)
  <2> SUFFICES ASSUME NEW v \in Events, disk.locator[v] \in disk.listed
               PROVE  e.locator[v] \in e.listed
    BY DEF Moves
  <2>2. /\ disk.listed \subseteq e.listed
        /\ n >= 4 => m \in e.listed
        /\ e.locator[v] = disk.locator[v] \/ (n >= 4 /\ e.locator[v] = m)
    BY <1>3, <2>1 DEF CutOf
  <2> HIDE DEF e
  <2> QED
    BY <2>2
<1> QED
  BY <1>1, <1>2, <1>3

LEMMA SealReplaces ==
    ASSUME BrainAssumption, IInv, NEW m \in Months, m < month
    PROVE  Replaced(Sealed(disk, m, 6), ~misfiled /\ Live(disk).month = m)
<1> DEFINE d == Sealed(disk, m, 5)
<1>1. Sealed(disk, m, 6) = Fresh(d, month)
  BY DEF Sealed
<1>2. /\ SoundDisk(disk, month, appended) /\ SoundStores(disk, store, month)
      /\ month \in Months /\ appended \in 0..MaxEvents
      /\ disk \in Disks /\ store \in [Stores -> Connection]
  BY DEF IInv, SoundDisk, SoundStores
<1>3. SoundDisk(d, month, appended) /\ Moves(d)
  BY <1>2, SealedIsSound, SealedMoves
<1>4. ASSUME ~misfiled, Live(disk).month = m PROVE Archived(d, store, month, appended)
  <2>1. PICK f : Spare(disk, m, f) /\ CutOf(d, disk, m, f, 5)
    BY <1>2, CutShape
  <2>2. Filed(disk, store, month, appended)
    BY <1>4 DEF IInv
  <2> HIDE DEF d
  <2> QED
    BY <1>2, <1>4, <2>1, <2>2, CutIsArchived
<1> HIDE DEF d
<1> QED
  BY <1>1, <1>2, <1>3, <1>4, FreshReplaces

\* A store that seals what it remembers.
LEMMA StoreReplaces ==
    ASSUME BrainAssumption, IInv, NEW s \in Stores, IsOpen(s), store[s].month # month
    PROVE  Replaced(SealedBy(s, 6), ~misfiled /\ Live(disk).month = store[s].month)
<1> DEFINE m == store[s].month
           ok == ~misfiled /\ Live(disk).month = m
<1>1. /\ SoundDisk(disk, month, appended) /\ SoundStores(disk, store, month)
      /\ month \in Months /\ appended \in 0..MaxEvents
      /\ disk \in Disks /\ store \in [Stores -> Connection]
  BY DEF IInv, SoundDisk, SoundStores
<1>2. m \in Months /\ m < month
  BY <1>1 DEF SoundStores, IsOpen, Months
<1>3. CASE disk.files[store[s].live].events # {}
  <2>1. SealedBy(s, 6) = Sealed(disk, m, 6)
    BY <1>3 DEF SealedBy
  <2> QED
    BY <1>2, <2>1, SealReplaces
<1>4. CASE disk.files[store[s].live].events = {}
  <2>1. SealedBy(s, 6) = Fresh(Remove(disk), month)
    BY <1>4 DEF SealedBy
  <2>2. SoundDisk(Remove(disk), month, appended) /\ Moves(Remove(disk))
    BY <1>1, RemoveIsSound, RemoveShape DEF Moves
  <2>3. ASSUME ok PROVE Archived(Remove(disk), store, month, appended)
    <3>1. Filed(disk, store, month, appended)
      BY <2>3 DEF IInv
    <3>2. store[s].live = disk.live
      BY <1>1, <1>2, <2>3, <3>1 DEF Filed, Current, IsOpen, Months
    <3>3. Live(disk).events = {} /\ Live(disk).month < month
      BY <1>2, <1>4, <2>3, <3>2 DEF Live, Empty
    <3> QED
      BY <1>1, <3>1, <3>3, EmptyIsArchived, RemoveShape
  <2> HIDE DEF ok
  <2>4. Replaced(SealedBy(s, 6), ok)
    BY <1>1, <2>1, <2>2, <2>3, FreshReplaces
  <2> QED
    BY <2>4 DEF ok
<1> QED
  BY <1>3, <1>4

\* The connections after it.
LEMMA FollowersAreSound ==
    ASSUME month \in Months, SoundStores(disk, store, month), NEW d, d.live # None,
           NEW st \in [Stores -> Connection], Follows(st, d)
    PROVE  SoundStores(d, st, month)
<1> SUFFICES ASSUME NEW s \in Stores
             PROVE  IF st[s].live = None THEN st[s] = Closed
                    ELSE st[s].month \in 1..month
  BY DEF SoundStores
<1>1. month \in 1..month
  BY DEF Months
<1> QED
  BY <1>1 DEF SoundStores, Follows

-----------------------------------------------------------------------------
(* The actions. *)

LEMMA Known ==
    ASSUME IInv
    PROVE  /\ SoundDisk(disk, month, appended) /\ SoundStores(disk, store, month) /\ Noted
           /\ month \in Months /\ month \in Nat /\ appended \in 0..MaxEvents
           /\ disk \in Disks /\ store \in [Stores -> Connection]
           /\ ~misfiled => Filed(disk, store, month, appended) /\ RefusedAreListed
  BY DEF IInv, SoundDisk, SoundStores, Months

\* What is left to show of a step that replaces the live file.
LEMMA ReplacedStep ==
    ASSUME BrainAssumption, IInv, UNCHANGED <<month, appended, refused>>,
           NEW ok, Replaced(disk', ok), ~misfiled' => ~misfiled /\ ok,
           store' \in [Stores -> Connection], Follows(store', disk'), Noted'
    PROVE  IInv'
<1>1. SoundDisk(disk', month', appended') /\ SoundStores(disk', store', month')
  BY Known, FollowersAreSound DEF Replaced
<1>2. ASSUME ~misfiled'
      PROVE  Filed(disk', store', month', appended') /\ RefusedAreListed'
  <2>1. Filed(disk', store', month', appended')
    BY <1>2 DEF Replaced
  <2>2. refused \subseteq Events
    BY Known DEF Noted, Events, BrainAssumption
  <2>3. RefusedAreListed'
    BY <1>2, <2>2, Known DEF Replaced, Moves, RefusedAreListed
  <2> QED
    BY <2>1, <2>3
<1> QED
  BY <1>1, <1>2, Known DEF IInv

\* The sweep's decision stands while the memory store is open and no month is taken back.
LEMMA DecisionIsKept ==
    ASSUME IInv, sweep' = sweep, month' \in Months, month <= month',
           store["memory"].live # None => store'["memory"].live # None
    PROVE  /\ sweep' # Idle => Decided'
           /\ sweep' \in [seals : Months \cup {None}, opens : Months \cup {None}]
<1>1. month \in Nat /\ month' \in Nat
  BY Known DEF Months
<1> QED
  BY <1>1, Known DEF Noted, Decided, IsOpen, Months

LEMMA MonthTurnsStep == BrainAssumption /\ IInv /\ MonthTurns => IInv'
<1> SUFFICES ASSUME BrainAssumption, IInv, MonthTurns PROVE IInv'
  OBVIOUS
<1>1. /\ month < MaxMonth /\ month' = month + 1
      /\ UNCHANGED <<disk, store, sweep, appended, refused, behind, misfiled, stale, crashes>>
  BY DEF MonthTurns, history
<1>2. month' \in Months /\ month \in Nat /\ MaxMonth \in Nat
  BY <1>1, Known DEF Months, BrainAssumption
<1>3. SoundDisk(disk, month', appended)
  BY <1>1, <1>2, Known DEF SoundDisk, Months
<1>4. SoundStores(disk, store, month')
  BY <1>1, <1>2, Known DEF SoundStores
<1>5. ASSUME ~misfiled PROVE Filed(disk, store, month', appended)
  <2>1. Filed(disk, store, month, appended) /\ Live(disk).month # month'
    BY <1>1, <1>2, <1>5, Known, LiveIsSound DEF None
  <2>2. Located(disk, store, month', appended)
    BY <2>1 DEF Filed, Located
  <2> QED
    BY <2>1, <2>2 DEF Filed
<1>6. Noted'
  <2>1. /\ sweep' # Idle => Decided'
        /\ sweep' \in [seals : Months \cup {None}, opens : Months \cup {None}]
    BY <1>1, <1>2, DecisionIsKept
  <2> QED
    BY <1>1, <2>1, Known DEF Noted, IsOpen
<1> QED
  BY <1>1, <1>2, <1>3, <1>4, <1>5, <1>6, Known DEF IInv, RefusedAreListed

\* open() finds the live file of this month, seals that of another, or starts one.
LEMMA OpenReplaces ==
    ASSUME BrainAssumption, IInv, NEW s \in Stores, Open(s)
    PROVE  Replaced(disk', ~misfiled)
<1>1. CASE disk.live # None /\ Live(disk).month # month
  <2>1. disk' = Sealed(disk, Live(disk).month, 6)
    BY <1>1 DEF Open
  <2>2. Live(disk).month \in Months /\ Live(disk).month < month
    BY <1>1, Known, LiveIsSound DEF Months
  <2>3. Replaced(disk', ~misfiled /\ Live(disk).month = Live(disk).month)
    BY <2>1, <2>2, SealReplaces
  <2> QED
    BY <2>3 DEF Replaced
<1>2. CASE disk.live = None
  <2>1. disk' = Fresh(disk, month)
    BY <1>2 DEF Open
  <2>2. ASSUME ~misfiled PROVE Archived(disk, store, month, appended)
    <3>1. Live(disk).events = {} /\ Live(disk).month < month
      BY <1>2, Known, LiveIsSound DEF None, Months
    <3> QED
      BY <1>2, <2>2, <3>1, Known, EmptyIsArchived
  <2>3. Moves(disk)
    BY DEF Moves
  <2>4. Replaced(Fresh(disk, month), ~misfiled)
    BY <2>2, <2>3, Known, FreshReplaces
  <2> QED
    BY <2>1, <2>4
<1>3. CASE disk.live # None /\ Live(disk).month = month
  <2>1. disk' = disk
    BY <1>3 DEF Open
  <2>2. ASSUME ~misfiled, NEW st, Follows(st, disk)
        PROVE  Filed(disk, st, month, appended)
    <3>1. Filed(disk, store, month, appended)
      BY <2>2, Known
    <3>2. Located(disk, st, month, appended)
      BY <1>3, <3>1 DEF Filed, Located
    <3>3. \A k \in Months : k \in disk.listed \/ disk.archive[k] # None => k < month
      BY Known DEF SoundDisk
    <3>4. Current(disk, st)
      <4> SUFFICES ASSUME NEW u \in Stores, st[u].live # None
                   PROVE  /\ IF st[u].live = disk.live THEN st[u].month = month
                             ELSE st[u].month < month
                          /\ \A k \in Months : st[u].cached[k] # None =>
                                st[u].cached[k] = disk.archive[k]
        BY <1>3, <3>3 DEF Current
      <4>1. CASE st[u] = store[u]
        BY <1>3, <3>1, <4>1 DEF Filed, Current
      <4>2. CASE st[u].live = disk.live /\ st[u].month = month /\ st[u].cached = store[u].cached
        <5>1. CASE store[u].live # None
          BY <3>1, <4>2, <5>1 DEF Filed, Current
        <5>2. CASE store[u].live = None
          BY <4>2, <5>2, Known DEF SoundStores, Closed
        <5> QED
          BY <4>2, <5>1, <5>2
      <4> QED
        BY <4>1, <4>2, <2>2 DEF Follows
    <3>5. st["memory"].live \notin {None, disk.live} => Live(disk).events = {}
      BY <2>2, <3>1 DEF Filed, Follows, Stores
    <3> QED
      BY <3>1, <3>2, <3>4, <3>5 DEF Filed
  <2>3. Moves(disk)
    BY DEF Moves
  <2> QED
    BY <1>3, <2>1, <2>2, <2>3, Known DEF Replaced
<1> QED
  BY <1>1, <1>2, <1>3

LEMMA OpenStep ==
    ASSUME BrainAssumption, IInv, NEW s \in Stores, Open(s)
    PROVE  IInv'
<1>1. Replaced(disk', ~misfiled)
  BY OpenReplaces
<1>2. disk'.live # None /\ Live(disk').month = month /\ disk'.live \in FileIds \cup {None}
  BY <1>1, LiveIsSound DEF Replaced, Disks
<1>3. /\ store' = [store EXCEPT ![s] = [Closed EXCEPT !.live = disk'.live, !.month = month]]
      /\ store[s].live = None
      /\ UNCHANGED <<month, sweep, appended, refused, misfiled, crashes>>
  BY <1>2 DEF Open, IsOpen, history
<1>4. store[s] = Closed /\ Closed \in Connection
  BY <1>3, Known DEF SoundStores
<1> DEFINE c == [Closed EXCEPT !.live = disk'.live, !.month = month]
<1>5. c \in Connection /\ c.live = disk'.live /\ c.month = month /\ c.cached = Closed.cached
  BY <1>2, <1>4, Known DEF Connection, Closed
<1>6. store' = [store EXCEPT ![s] = c]
  BY <1>3
<1> HIDE DEF c
<1>7. /\ store' \in [Stores -> Connection] /\ store'[s] = c
      /\ \A u \in Stores : u # s => store'[u] = store[u]
  BY <1>5, <1>6, Known
<1>8. Follows(store', disk')
  BY <1>4, <1>5, <1>7 DEF Follows
<1>9. disk' = disk \/ (disk.live # None /\ Live(disk).month # month) \/ disk.live = None
  BY DEF Open
<1>10. Noted'
  <2> DEFINE seals == disk.live # None /\ Live(disk).month # month
  <2>1. /\ behind' = (behind \/ (seals /\ s = "reader" /\ IsOpen("memory")))
        /\ stale' = (s = "memory" /\ (stale \/ (seals /\ IsOpen("reader"))))
    BY DEF Open
  <2>2. disk.live = None => \A u \in Stores : store[u].live = None
    BY Known DEF SoundStores
  <2>3. store'["memory"].live # None /\ ~behind' => store'["memory"].live = disk'.live
    <3>1. CASE s = "memory"
      BY <1>5, <1>7, <3>1
    <3>2. CASE s # "memory"
      BY <1>7, <1>9, <2>1, <2>2, <3>2, Known DEF Noted, IsOpen, Stores
    <3> QED
      BY <3>1, <3>2
  <2>4. store'["reader"].live # None /\ ~stale' => store'["reader"].live = disk'.live
    <3>1. CASE s = "reader"
      BY <1>5, <1>7, <3>1
    <3>2. CASE s # "reader"
      BY <1>7, <1>9, <2>1, <2>2, <3>2, Known DEF Noted, IsOpen, Stores
    <3> QED
      BY <3>1, <3>2
  <2>5. behind' \in BOOLEAN /\ stale' \in BOOLEAN
    BY <2>1, Known DEF Noted
  <2>6. store["memory"].live # None => store'["memory"].live # None
    BY <1>2, <1>5, <1>7 DEF Stores
  <2>7. /\ sweep' # Idle => Decided'
        /\ sweep' \in [seals : Months \cup {None}, opens : Months \cup {None}]
    BY <1>3, <2>6, Known, DecisionIsKept
  <2> QED
    BY <1>3, <2>3, <2>4, <2>5, <2>7, Known DEF Noted, IsOpen
<1> QED
  BY <1>1, <1>3, <1>7, <1>8, <1>10, ReplacedStep

LEMMA DecidePlanStep ==
    ASSUME BrainAssumption, IInv, DecidePlan
    PROVE  IInv'
<1> DEFINE s == "reader"
<1>1. /\ IsOpen(s) /\ store[s].month # month /\ disk' = SealedBy(s, 6) /\ s \in Stores
      /\ store' = [store EXCEPT ![s].live = disk'.live, ![s].month = month]
      /\ misfiled' = (misfiled \/ Live(disk).month # store[s].month)
      /\ behind' = (behind \/ IsOpen("memory")) /\ stale' = FALSE
      /\ UNCHANGED <<month, sweep, appended, refused, crashes>>
  BY DEF DecidePlan, Misfiling, history, Stores
<1>2. Replaced(disk', ~misfiled /\ Live(disk).month = store[s].month)
  BY <1>1, StoreReplaces
<1>3. disk'.live \in FileIds \cup {None}
  BY <1>2, LiveIsSound DEF Replaced, Disks
<1> DEFINE c == [store[s] EXCEPT !.live = disk'.live, !.month = month]
<1>4. c \in Connection /\ c.live = disk'.live /\ c.month = month /\ c.cached = store[s].cached
  BY <1>1, <1>3, Known DEF Connection
<1>5. store' = [store EXCEPT ![s] = c]
  BY <1>1
<1> HIDE DEF c
<1>6. /\ store' \in [Stores -> Connection] /\ store'[s] = c
      /\ \A u \in Stores : u # s => store'[u] = store[u]
  BY <1>1, <1>4, <1>5, Known
<1>7. Follows(store', disk')
  BY <1>4, <1>6 DEF Follows
<1>8. Noted'
  <2>1. /\ sweep' # Idle => Decided'
        /\ sweep' \in [seals : Months \cup {None}, opens : Months \cup {None}]
    BY <1>1, <1>6, Known, DecisionIsKept DEF Stores
  <2> QED
    BY <1>1, <1>4, <1>6, <2>1, Known DEF Noted, IsOpen, Stores
<1> HIDE DEF s
<1> QED
  BY <1>1, <1>2, <1>6, <1>7, <1>8, Known, ReplacedStep DEF Noted

LEMMA ListEventsStep ==
    ASSUME BrainAssumption, IInv, NEW s \in Stores, ListEvents(s)
    PROVE  IInv'
<1> DEFINE cached == [m \in Months |-> IF store[s].cached[m] = None /\ m \in disk.listed
                                       THEN disk.archive[m] ELSE store[s].cached[m]]
<1>1. /\ store[s].live # None /\ store' = [store EXCEPT ![s].cached = cached]
      /\ UNCHANGED <<month, disk, sweep, appended, refused, behind, misfiled, stale, crashes>>
  BY DEF ListEvents, IsOpen, history
<1>2. cached \in [Months -> FileIds \cup {None}]
  BY Known DEF Disks, Connection
<1>3. \A m \in Months : cached[m] \in {store[s].cached[m], disk.archive[m]}
  OBVIOUS
<1> HIDE DEF cached
<1>4. /\ store' \in [Stores -> Connection]
      /\ \A u \in Stores : store'[u].live = store[u].live /\ store'[u].month = store[u].month
                           /\ (u # s => store'[u] = store[u])
      /\ store'[s].cached = cached
  BY <1>1, <1>2, Known DEF Connection
<1>5. SoundStores(disk, store', month)
  BY <1>1, <1>4, Known DEF SoundStores
<1>6. ASSUME ~misfiled PROVE Filed(disk, store', month, appended)
  <2>1. Filed(disk, store, month, appended)
    BY <1>6, Known
  <2>2. Located(disk, store', month, appended)
    BY <1>4, <2>1 DEF Filed, Located
  <2>3. Current(disk, store')
    <3> SUFFICES ASSUME NEW u \in Stores, store[u].live # None
                 PROVE  \A k \in Months : store'[u].cached[k] # None =>
                                             store'[u].cached[k] = disk.archive[k]
      BY <1>4, <2>1 DEF Filed, Current
    <3> QED
      BY <1>3, <1>4, <2>1 DEF Filed, Current
  <2> QED
    BY <1>4, <2>1, <2>2, <2>3 DEF Filed, Stores
<1>7. Noted'
  <2>1. /\ sweep' # Idle => Decided'
        /\ sweep' \in [seals : Months \cup {None}, opens : Months \cup {None}]
    BY <1>1, <1>4, Known, DecisionIsKept DEF Stores
  <2> QED
    BY <1>1, <1>4, <2>1, Known DEF Noted, IsOpen, Stores
<1> QED
  BY <1>1, <1>5, <1>6, <1>7, Known DEF IInv, RefusedAreListed

LEMMA SweepDecidesStep ==
    ASSUME BrainAssumption, IInv, SweepDecides
    PROVE  IInv'
<1>1. /\ disk.live # None /\ Live(disk).month < month /\ IsOpen("memory")
      /\ sweep' = [seals |-> Live(disk).month, opens |-> month]
      /\ UNCHANGED <<month, disk, store, appended, refused, behind, misfiled, stale, crashes>>
  BY DEF SweepDecides, history
<1>2. Live(disk).month \in Months
  BY <1>1, Known, LiveIsSound DEF Months
<1>3. Decided'
  BY <1>1, <1>2, Known DEF Decided, IsOpen
<1>4. Noted'
  BY <1>1, <1>2, <1>3, Known DEF Noted, IsOpen
<1> QED
  BY <1>1, <1>4, Known DEF IInv, RefusedAreListed

\* What the sweep has seen is still so when it seals, if the file is of the month it saw:
\* the disk is as sound and as filed for the month it will open as it is for this one.
LEMMA SweepSeesTheSame ==
    ASSUME BrainAssumption, IInv, sweep # Idle, ~misfiled, Live(disk).month = sweep.seals
    PROVE  /\ SoundDisk(disk, sweep.opens, appended) /\ SoundStores(disk, store, sweep.opens)
           /\ Filed(disk, store, sweep.opens, appended)
<1> DEFINE m == sweep.seals
           b == sweep.opens
<1>1. m \in Months /\ b \in Months /\ m \in Nat /\ b \in Nat /\ m < b /\ store["memory"].live # None
  BY Known DEF Noted, Decided, Months, IsOpen
<1>2. Filed(disk, store, month, appended)
  BY Known
<1>3. \A k \in Months : k \in disk.listed \/ disk.archive[k] # None => k < m
  BY <1>1, <1>2 DEF Filed, Current, Stores
<1>4. SoundDisk(disk, b, appended)
  <2>1. \A k \in Months : k \in disk.listed \/ disk.archive[k] # None => k < b
    BY <1>1, <1>3 DEF Months
  <2>2. disk.live # None => disk.files[disk.live].month \in 1..b
    BY <1>1, Known, LiveIsSound DEF Months
  <2> HIDE DEF b
  <2> QED
    BY <2>1, <2>2, Known DEF SoundDisk
<1>5. SoundStores(disk, store, b)
  <2> SUFFICES ASSUME NEW s \in Stores, store[s].live # None
               PROVE  store[s].month \in 1..b
    BY Known DEF SoundStores
  <2>1. store[s].month \in 1..month /\ store[s].month <= m
    BY <1>1, <1>2, Known DEF Filed, Current, SoundStores
  <2> QED
    BY <1>1, <2>1, Known
<1>6. Located(disk, store, b, appended)
  BY <1>1, <1>2 DEF Filed, Located, Stores
<1> QED
  BY <1>2, <1>4, <1>5, <1>6 DEF Filed

LEMMA SweepSealsStep ==
    ASSUME BrainAssumption, IInv, SweepSeals
    PROVE  IInv'
<1> DEFINE m == sweep.seals
           b == sweep.opens
           d == Sealed(disk, m, 5)
<1>1. /\ sweep # Idle /\ disk' = Fresh(d, b) /\ sweep' = Idle /\ behind' = TRUE
      /\ misfiled' = (misfiled \/ Live(disk).month # m)
      /\ stale' = (stale \/ IsOpen("reader"))
      /\ UNCHANGED <<month, store, appended, refused, crashes>>
  BY DEF SweepSeals, Misfiling, history
<1>2. m \in Months /\ b \in Months /\ m < month /\ b \in 1..month /\ m < b
  BY <1>1, Known DEF Noted, Decided, Months
<1>3. SoundDisk(d, month, appended) /\ Moves(d) /\ d \in Disks
  BY <1>2, Known, SealedIsSound, SealedMoves, LiveIsSound
<1> HIDE DEF d, m, b
<1>4. SoundDisk(disk', month', appended') /\ disk'.live # None
  BY <1>1, <1>2, <1>3, Known, FreshIsSound
<1>5. disk'.listed = d.listed /\ disk'.locator = d.locator
  BY <1>1, <1>2, <1>3, Known, FreshShape
<1>6. SoundStores(disk', store', month')
  BY <1>1, <1>4, Known DEF SoundStores
<1>7. ASSUME ~misfiled' PROVE Filed(disk', store', month', appended') /\ RefusedAreListed'
  <2>1. /\ SoundDisk(disk, b, appended) /\ SoundStores(disk, store, b)
        /\ Filed(disk, store, b, appended) /\ Live(disk).month = m
    BY <1>1, <1>7, SweepSeesTheSame DEF m, b
  <2>2. PICK f : Spare(disk, m, f) /\ CutOf(d, disk, m, f, 5)
    BY <1>2, Known, CutShape DEF d
  <2>3. Archived(d, store, b, appended)
    BY <1>2, <2>1, <2>2, Known, CutIsArchived
  <2>4. SoundDisk(d, b, appended)
    BY <1>2, <2>1, Known, SealedIsSound DEF d
  <2>5. Filed(Fresh(d, b), store, b, appended)
    BY <1>2, <2>3, <2>4, Known, FreshIsFiled
  <2>6. store["memory"].live # None
    BY <1>1, Known DEF Noted, Decided, IsOpen
  <2>7. Located(Fresh(d, b), store, month, appended)
    BY <2>5, <2>6 DEF Filed, Located, Stores
  <2>8. Filed(disk', store', month', appended')
    BY <1>1, <2>5, <2>7 DEF Filed
  <2>9. refused \subseteq Events
    BY Known DEF Noted, Events, BrainAssumption
  <2>10. RefusedAreListed'
    BY <1>1, <1>3, <1>5, <1>7, <2>9, Known DEF Moves, RefusedAreListed
  <2> QED
    BY <2>8, <2>10
<1>8. Noted'
  <2>1. Idle \in [seals : Months \cup {None}, opens : Months \cup {None}]
    BY DEF Idle
  <2>2. behind' \in BOOLEAN /\ misfiled' \in BOOLEAN /\ stale' \in BOOLEAN
    BY <1>1, Known DEF Noted
  <2>3. IsOpen("reader")' /\ ~stale' => FALSE
    BY <1>1 DEF IsOpen
  <2> QED
    BY <1>1, <2>1, <2>2, <2>3, Known DEF Noted, IsOpen
<1> QED
  BY <1>1, <1>4, <1>6, <1>7, <1>8, Known DEF IInv

\* An event that is appended to the live file is found there, and is in no archive.
LEMMA AppendIsSound ==
    ASSUME BrainAssumption, NEW mo \in Months, NEW ap \in Nat, ap < MaxEvents, NEW d,
           SoundDisk(d, mo, ap), NEW f \in FileIds
    PROVE  SoundDisk([d EXCEPT !.files[f].events = @ \cup {ap + 1},
                               !.locator[ap + 1] = InLive], mo, ap + 1)
<1> DEFINE x == d.files[f].events \cup {ap + 1}
           r == [d.files[f] EXCEPT !.events = x]
           files == [d.files EXCEPT ![f] = r]
           locator == [d.locator EXCEPT ![ap + 1] = InLive]
           e == [d EXCEPT !.files = files, !.locator = locator]
<1>0. [d EXCEPT !.files[f].events = @ \cup {ap + 1}, !.locator[ap + 1] = InLive] = e
  OBVIOUS
<1>1. d \in Disks /\ ap + 1 \in Events /\ 1..ap \subseteq 1..(ap + 1)
  BY LiveIsSound DEF Events, BrainAssumption
<1>2. /\ r \in [month : Months \cup {None}, events : SUBSET Events]
      /\ r.month = d.files[f].month /\ r.events = x
  BY <1>1 DEF Disks
<1> HIDE DEF r
<1>3. /\ files \in [FileIds -> [month : Months \cup {None}, events : SUBSET Events]]
      /\ \A g \in FileIds : files[g] = IF g = f THEN r ELSE d.files[g]
  BY <1>1, <1>2 DEF Disks
<1>4. /\ locator \in [Events -> Months \cup {None, InLive}]
      /\ \A v \in Events : locator[v] = IF v = ap + 1 THEN InLive ELSE d.locator[v]
  BY <1>1 DEF Disks
<1> HIDE DEF files, locator
<1>5. /\ e \in Disks /\ e.files = files /\ e.locator = locator
      /\ e.live = d.live /\ e.archive = d.archive /\ e.listed = d.listed
  BY <1>1, <1>3, <1>4 DEF Disks
<1> HIDE DEF e
<1>6. \A g \in FileIds : e.files[g].events \subseteq 1..(ap + 1)
  <2>1. x \subseteq 1..(ap + 1)
    BY <1>1 DEF SoundDisk
  <2> HIDE DEF x
  <2> QED
    BY <1>1, <1>2, <1>3, <1>5, <2>1 DEF SoundDisk
<1>7. e.live # None => e.files[e.live].month \in 1..mo
  BY <1>1, <1>2, <1>3, <1>5 DEF SoundDisk, Disks
<1>8. \A v \in 1..(ap + 1) : e.locator[v] # None
  <2> SUFFICES ASSUME NEW v \in 1..(ap + 1) PROVE e.locator[v] # None
    OBVIOUS
  <2>1. v \in Events /\ (v # ap + 1 => v \in 1..ap)
    BY DEF Events, BrainAssumption
  <2>2. InLive # None
    BY DEF InLive, None
  <2> QED
    BY <1>4, <1>5, <2>1, <2>2 DEF SoundDisk
<1> QED
  BY <1>0, <1>5, <1>6, <1>7, <1>8 DEF SoundDisk

LEMMA AppendIsFiled ==
    ASSUME BrainAssumption, NEW mo \in Months, NEW ap \in Nat, ap < MaxEvents, NEW d, NEW st,
           SoundDisk(d, mo, ap), Filed(d, st, mo, ap), d.live # None,
           st["memory"].live = d.live
    PROVE  Filed([d EXCEPT !.files[d.live].events = @ \cup {ap + 1},
                           !.locator[ap + 1] = InLive], st, mo, ap + 1)
<1> DEFINE f == d.live
           x == d.files[f].events \cup {ap + 1}
           r == [d.files[f] EXCEPT !.events = x]
           files == [d.files EXCEPT ![f] = r]
           locator == [d.locator EXCEPT ![ap + 1] = InLive]
           e == [d EXCEPT !.files = files, !.locator = locator]
<1>0. [d EXCEPT !.files[d.live].events = @ \cup {ap + 1}, !.locator[ap + 1] = InLive] = e
  OBVIOUS
<1>1. d \in Disks /\ f \in FileIds /\ ap + 1 \in Events /\ ap + 1 \notin 1..ap
  BY LiveIsSound DEF Events, BrainAssumption, Disks
<1>2. r.month = d.files[f].month /\ r.events = x
  BY <1>1 DEF Disks
<1> HIDE DEF r
<1>3. \A g \in FileIds : files[g] = IF g = f THEN r ELSE d.files[g]
  BY <1>1 DEF Disks
<1>4. \A v \in Events : locator[v] = IF v = ap + 1 THEN InLive ELSE d.locator[v]
  BY <1>1 DEF Disks
<1> HIDE DEF files, locator
<1>5. /\ e.files = files /\ e.locator = locator
      /\ e.live = d.live /\ e.archive = d.archive /\ e.listed = d.listed
  BY <1>1 DEF Disks
<1> HIDE DEF e
<1>6. Live(e).month = Live(d).month /\ Live(e).events = Live(d).events \cup {ap + 1}
  BY <1>1, <1>2, <1>3, <1>5 DEF Live
<1>7. \A k \in Months : d.archive[k] # None =>
         EventsOf(e, k) = EventsOf(d, k) /\ ap + 1 \notin EventsOf(d, k)
  <2> SUFFICES ASSUME NEW k \in Months, d.archive[k] # None
               PROVE  EventsOf(e, k) = EventsOf(d, k) /\ ap + 1 \notin EventsOf(d, k)
    OBVIOUS
  <2>1. d.archive[k] \in FileIds /\ d.archive[k] # f
    BY <1>1 DEF Disks, Filed, Apart
  <2>2. d.files[d.archive[k]].events \subseteq 1..ap
    BY <2>1 DEF SoundDisk
  <2> QED
    BY <1>1, <1>3, <1>5, <2>1, <2>2 DEF EventsOf
<1>8. \A v \in 1..(ap + 1) : v \in Events /\ (v # ap + 1 => v \in 1..ap)
  BY DEF Events, BrainAssumption
<1>9. \A v \in 1..(ap + 1) : e.locator[v] = InLive => v \in Live(e).events
  BY <1>4, <1>5, <1>6, <1>8 DEF Filed
<1>10. Located(e, st, mo, ap + 1)
  <2> SUFFICES ASSUME NEW v \in 1..(ap + 1), e.locator[v] \in Months
               PROVE  \/ e.locator[v] \in e.listed /\ e.archive[e.locator[v]] # None
                         /\ v \in EventsOf(e, e.locator[v])
                      \/ /\ Live(e).month = e.locator[v] /\ e.locator[v] # mo
                         /\ v \in Live(e).events /\ \A s \in Stores : st[s].live = None
    BY DEF Located
  <2>1. InLive \notin Months
    BY DEF InLive, Months
  <2>2. v \in 1..ap /\ e.locator[v] = d.locator[v]
    BY <1>4, <1>5, <1>8, <2>1
  <2> QED
    BY <1>5, <1>6, <1>7, <2>2 DEF Filed, Located
<1>11. Apart(e)
  <2> SUFFICES ASSUME NEW k \in Months, d.archive[k] # None
               PROVE  /\ e.archive[k] # e.live
                      /\ \A j \in Months : e.archive[j] # None /\ j # k =>
                                              EventsOf(e, j) \cap EventsOf(e, k) = {}
                      /\ IF Live(e).month = k THEN EventsOf(e, k) \subseteq Live(e).events
                         ELSE EventsOf(e, k) \cap Live(e).events = {}
    BY <1>5 DEF Apart
  <2> QED
    BY <1>5, <1>6, <1>7 DEF Filed, Apart
<1>12. Current(e, st)
  BY <1>5, <1>6 DEF Filed, Current
<1> QED
  BY <1>0, <1>5, <1>9, <1>10, <1>11, <1>12 DEF Filed

\* A store whose month is not over, or that has just sealed, writes to the live file.
LEMMA AppendStep ==
    ASSUME BrainAssumption, IInv, NEW parent \in {None} \cup 1..appended, AppendEvent(parent)
    PROVE  IInv'
<1> DEFINE old == store["memory"]
           rotates == old.month # month
           d == IF rotates THEN SealedBy("memory", 6) ELSE disk
           live == IF rotates THEN d.live ELSE old.live
           taken == parent = None \/ parent \in d.files[live].events
           ok == ~misfiled /\ ~(rotates /\ Live(disk).month # old.month)
<1>1. /\ old.live # None /\ appended < MaxEvents
      /\ disk' = IF taken THEN [d EXCEPT !.files[live].events = @ \cup {appended + 1},
                                         !.locator[appended + 1] = InLive]
                 ELSE d
      /\ store' = [store EXCEPT !["memory"].live = live, !["memory"].month = month]
      /\ appended' = IF taken THEN appended + 1 ELSE appended
      /\ refused' = IF taken THEN refused ELSE refused \cup {parent}
      /\ misfiled' = (misfiled \/ (rotates /\ Live(disk).month # old.month))
      /\ stale' = (stale \/ (rotates /\ IsOpen("reader")))
      /\ UNCHANGED <<month, sweep, behind, crashes>>
  BY DEF AppendEvent, IsOpen, Misfiling
<1>2. "memory" \in Stores /\ old \in Connection /\ appended \in Nat
  BY Known DEF Stores
<1> DEFINE c == [old EXCEPT !.live = live, !.month = month]
<1>3. /\ SoundDisk(d, month, appended) /\ d.live # None /\ live \in FileIds
      /\ Moves(d) /\ (rotates => d.live = live)
      /\ ok /\ rotates => \A st : Follows(st, d) => Filed(d, st, month, appended)
  <2>1. CASE rotates
    <3>1. Replaced(SealedBy("memory", 6), ~misfiled /\ Live(disk).month = old.month)
      BY <1>1, <1>2, <2>1, StoreReplaces DEF IsOpen
    <3>2. d = SealedBy("memory", 6) /\ live = d.live
      BY <2>1
    <3> HIDE DEF d
    <3>3. d.live \in FileIds \cup {None}
      BY <3>1, <3>2, LiveIsSound DEF Replaced, Disks
    <3> QED
      BY <2>1, <3>1, <3>2, <3>3 DEF Replaced
  <2>2. CASE ~rotates
    <3>1. d = disk /\ live = old.live
      BY <2>2
    <3> QED
      BY <1>1, <1>2, <2>2, <3>1, Known DEF SoundStores, Connection, Moves
  <2> QED
    BY <2>1, <2>2
<1> HIDE DEF d
<1>4. c \in Connection /\ c.live = live /\ c.month = month /\ c.cached = old.cached
  BY <1>2, <1>3, Known DEF Connection
<1>5. store' = [store EXCEPT !["memory"] = c]
  BY <1>1
<1> HIDE DEF c
<1>6. /\ store' \in [Stores -> Connection] /\ store'["memory"] = c
      /\ \A u \in Stores : u # "memory" => store'[u] = store[u]
  BY <1>2, <1>4, <1>5, Known
<1>7. ~rotates => d = disk /\ live = old.live /\ store' = store
  <2> SUFFICES ASSUME ~rotates PROVE d = disk /\ live = old.live /\ store' = store
    OBVIOUS
  <2>1. d = disk /\ live = old.live
    BY DEF d
  <2>2. c = old
    BY <1>2, <2>1 DEF c, Connection
  <2> QED
    BY <1>5, <2>1, <2>2, Known
<1>8. SoundStores(d, store', month)
  <2> SUFFICES ASSUME NEW u \in Stores
               PROVE  IF store'[u].live = None THEN store'[u] = Closed
                      ELSE store'[u].month \in 1..month
    BY <1>3, <1>6 DEF SoundStores
  <2>1. month \in 1..month
    BY Known DEF Months
  <2>2. live # None
    BY <1>3 DEF FileIds, None
  <2> QED
    BY <1>4, <1>6, <2>1, <2>2, Known DEF SoundStores
<1>9. ASSUME ok PROVE Filed(d, store', month, appended) /\ d.live = live
  <2>1. CASE rotates
    <3>1. Follows(store', d)
      BY <1>3, <1>4, <1>6, <2>1 DEF Follows
    <3> QED
      BY <1>3, <1>9, <2>1, <3>1
  <2>2. CASE ~rotates
    <3>1. Filed(disk, store, month, appended)
      BY <1>9, Known
    <3>2. disk.live # None => Live(disk).month <= month
      BY Known, LiveIsSound
    <3>3. old.live = disk.live
      <4>1. disk.live # None /\ Live(disk).month \in Nat
        BY <1>1, <1>2, Known, LiveIsSound DEF SoundStores, Months
      <4> QED
        BY <1>1, <1>2, <2>2, <3>1, <3>2, <4>1, Known DEF Filed, Current
    <3> QED
      BY <1>7, <2>2, <3>1, <3>3
  <2> QED
    BY <2>1, <2>2
<1>10. /\ SoundDisk(disk', month, appended') /\ disk'.live = d.live /\ disk'.listed = d.listed
       /\ \A v \in Events : v # appended + 1 => disk'.locator[v] = d.locator[v]
  <2>1. CASE taken
    <3> DEFINE e == [d EXCEPT !.files[live].events = @ \cup {appended + 1},
                              !.locator[appended + 1] = InLive]
    <3>1. disk' = e /\ appended' = appended + 1
      BY <1>1, <2>1
    <3>2. month \in Months /\ SoundDisk(d, month, appended) /\ d \in Disks
      BY <1>3, Known, LiveIsSound
    <3> HIDE DEF taken, live, rotates, old
    <3>3. SoundDisk(e, month, appended + 1)
      BY <1>1, <1>2, <1>3, <3>2, AppendIsSound
    <3>4. /\ e.live = d.live /\ e.listed = d.listed
          /\ \A v \in Events : v # appended + 1 => e.locator[v] = d.locator[v]
      BY <3>2 DEF Disks
    <3> HIDE DEF e
    <3> QED
      BY <3>1, <3>3, <3>4
  <2>2. CASE ~taken
    BY <1>1, <1>3, <2>2
  <2> QED
    BY <2>1, <2>2
<1>11. SoundStores(disk', store', month)
  BY <1>8, <1>10 DEF SoundStores
<1>12. ASSUME ok PROVE Filed(disk', store', month, appended')
  <2>1. CASE taken
    <3>1. store'["memory"].live = d.live /\ d.live # None /\ d.live = live
      BY <1>3, <1>4, <1>6, <1>9, <1>12
    <3>2. /\ disk' = [d EXCEPT !.files[live].events = @ \cup {appended + 1},
                                !.locator[appended + 1] = InLive]
          /\ appended' = appended + 1
      BY <1>1, <2>1
    <3>3. month \in Months /\ SoundDisk(d, month, appended)
          /\ Filed(d, store', month, appended)
      BY <1>3, <1>9, <1>12, Known
    <3> HIDE DEF taken, live, rotates, old, ok
    <3>4. disk' = [d EXCEPT !.files[d.live].events = @ \cup {appended + 1},
                            !.locator[appended + 1] = InLive]
      BY <3>1, <3>2
    <3>5. Filed([d EXCEPT !.files[d.live].events = @ \cup {appended + 1},
                          !.locator[appended + 1] = InLive], store', month, appended + 1)
      BY <1>1, <1>2, <3>1, <3>3, AppendIsFiled
    <3> QED
      BY <3>2, <3>4, <3>5
  <2>2. CASE ~taken
    BY <1>1, <1>9, <1>12, <2>2
  <2> QED
    BY <2>1, <2>2
<1>13. ASSUME ok PROVE RefusedAreListed'
  <2>1. refused \subseteq 1..appended /\ 1..appended \subseteq Events /\ appended + 1 \notin 1..appended
    BY <1>2, Known DEF Noted, Events, BrainAssumption
  <2>2. \A v \in refused : disk'.locator[v] \in disk'.listed
    BY <1>3, <1>10, <1>13, <2>1, Known DEF Moves, RefusedAreListed
  <2>3. ASSUME ~taken PROVE disk'.locator[parent] \in disk'.listed
    <3>1. /\ parent \in 1..appended /\ parent \notin d.files[live].events /\ disk' = d
      BY <1>1, <2>3
    <3>2. d.locator[parent] # InLive
      BY <1>3, <1>9, <1>13, <3>1 DEF Filed, Live
    <3>3. d.locator[parent] \in Months
      BY <1>3, <2>1, <3>1, <3>2 DEF SoundDisk, Disks
    <3>4. store'["memory"].live # None
      BY <1>3, <1>4, <1>6 DEF FileIds, None
    <3> QED
      BY <1>2, <1>9, <1>13, <3>1, <3>3, <3>4 DEF Filed, Located
  <2> QED
    BY <1>1, <2>2, <2>3 DEF RefusedAreListed
<1>14. Noted'
  <2>1. refused' \subseteq 1..appended'
    <3>1. refused \subseteq 1..appended /\ 1..appended \subseteq 1..(appended + 1)
      BY <1>2, Known DEF Noted
    <3> QED
      BY <1>1, <3>1
  <2>2. misfiled' \in BOOLEAN /\ stale' \in BOOLEAN
    BY <1>1, Known DEF Noted
  <2>3. IsOpen("memory")' /\ ~behind' => store'["memory"].live = disk'.live
    <3>1. CASE rotates
      BY <1>3, <1>4, <1>6, <1>10, <3>1
    <3>2. CASE ~rotates
      BY <1>1, <1>7, <1>10, <3>2, Known DEF Noted, IsOpen
    <3> QED
      BY <3>1, <3>2
  <2>4. IsOpen("reader")' /\ ~stale' => store'["reader"].live = disk'.live
    <3>1. store'["reader"] = store["reader"]
      BY <1>6 DEF Stores
    <3>2. CASE rotates
      BY <1>1, <3>1, <3>2 DEF IsOpen
    <3>3. CASE ~rotates
      BY <1>1, <1>7, <1>10, <3>3, Known DEF Noted, IsOpen
    <3> QED
      BY <3>2, <3>3
  <2>5. store'["memory"].live # None
    BY <1>3, <1>4, <1>6 DEF FileIds, None
  <2>6. /\ sweep' # Idle => Decided'
        /\ sweep' \in [seals : Months \cup {None}, opens : Months \cup {None}]
    BY <1>1, <2>5, Known, DecisionIsKept
  <2> QED
    BY <1>1, <2>1, <2>2, <2>3, <2>4, <2>6, Known DEF Noted
<1>15. ~misfiled' => ok
  BY <1>1
<1>16. appended' \in 0..MaxEvents
  BY <1>1, <1>2, Known DEF BrainAssumption
<1> HIDE DEF ok, live, taken, rotates, old
<1> QED
  BY <1>1, <1>10, <1>11, <1>12, <1>13, <1>14, <1>15, <1>16, Known DEF IInv

\* A seal under any name that a crash cuts short, and the disk the next start finds.
Cut(d, ok) ==
    /\ SoundDisk(d, month, appended) /\ Moves(d)
    /\ ok => Filed(d, Shut, month, appended)

LEMMA SealIsCut ==
    ASSUME BrainAssumption, IInv, NEW m \in Months, m < month, NEW n \in 1..5
    PROVE  Cut(Sealed(disk, m, n), ~misfiled /\ Live(disk).month = m)
<1>1. SoundDisk(Sealed(disk, m, n), month, appended) /\ Moves(Sealed(disk, m, n))
  BY Known, SealedIsSound, SealedMoves
<1>2. ASSUME ~misfiled, Live(disk).month = m PROVE Filed(Sealed(disk, m, n), Shut, month, appended)
  <2>1. Filed(disk, store, month, appended)
    BY <1>2, Known
  <2>2. CASE n = 1
    <3>1. Sealed(disk, m, n) = DropArchive(disk, m)
      BY <2>2 DEF Sealed
    <3> QED
      BY <1>2, <2>1, <3>1, Known, DropIsFiled
  <2>3. CASE n \in 2..4
    <3>1. PICK f : Spare(disk, m, f) /\ CutOf(Sealed(disk, m, n), disk, m, f, n)
      BY <2>3, Known, CutShape
    <3> QED
      BY <1>2, <2>1, <2>3, <3>1, Known, CutIsFiled
  <2>4. CASE n = 5
    <3>1. PICK f : Spare(disk, m, f) /\ CutOf(Sealed(disk, m, n), disk, m, f, 5)
      BY <2>4, Known, CutShape
    <3>2. Archived(Sealed(disk, m, n), store, month, appended)
      BY <1>2, <2>1, <3>1, Known, CutIsArchived
    <3> QED
      BY <1>1, <3>2, LiveIsSound, ShutIsFiled
  <2> QED
    BY <2>2, <2>3, <2>4
<1> QED
  BY <1>1, <1>2 DEF Cut

LEMMA StoreIsCut ==
    ASSUME BrainAssumption, IInv, NEW s \in Stores, IsOpen(s), store[s].month # month, NEW n \in 1..5
    PROVE  Cut(SealedBy(s, n), ~misfiled /\ Live(disk).month = store[s].month)
<1> DEFINE m == store[s].month
           ok == ~misfiled /\ Live(disk).month = m
<1>1. m \in Months /\ m < month
  BY Known DEF SoundStores, IsOpen, Months
<1>2. CASE disk.files[store[s].live].events # {}
  <2>1. SealedBy(s, n) = Sealed(disk, m, n)
    BY <1>2 DEF SealedBy
  <2> QED
    BY <1>1, <2>1, SealIsCut
<1>3. CASE disk.files[store[s].live].events = {}
  <2>1. SealedBy(s, n) = Remove(disk)
    BY <1>3 DEF SealedBy
  <2>2. SoundDisk(Remove(disk), month, appended) /\ Moves(Remove(disk))
    BY Known, RemoveIsSound, RemoveShape DEF Moves
  <2>3. ASSUME ok PROVE Filed(Remove(disk), Shut, month, appended)
    <3>1. Filed(disk, store, month, appended)
      BY <2>3, Known
    <3>2. store[s].live = disk.live
      BY <1>1, <2>3, <3>1, Known DEF Filed, Current, IsOpen, Months
    <3>3. Live(disk).events = {} /\ Live(disk).month < month
      BY <1>1, <1>3, <2>3, <3>2 DEF Live, Empty
    <3>4. Archived(Remove(disk), store, month, appended)
      BY <3>1, <3>3, Known, EmptyIsArchived, RemoveShape
    <3> QED
      BY <2>2, <3>4, LiveIsSound, ShutIsFiled
  <2> HIDE DEF ok
  <2>4. Cut(SealedBy(s, n), ok)
    BY <2>1, <2>2, <2>3 DEF Cut
  <2> QED
    BY <2>4 DEF ok
<1> QED
  BY <1>2, <1>3

\* The end of every connection disturbs nothing.
LEMMA NothingIsCut ==
    ASSUME BrainAssumption, IInv
    PROVE  Cut(disk, ~misfiled)
<1>1. ASSUME ~misfiled PROVE Filed(disk, Shut, month, appended)
  <2>1. Filed(disk, store, month, appended)
    BY <1>1, Known
  <2>2. \A s \in Stores : Shut[s].live = None
    BY DEF Shut, Closed
  <2>3. Located(disk, Shut, month, appended)
    BY <2>1, <2>2 DEF Filed, Located
  <2>4. Current(disk, Shut)
    BY <2>2 DEF Current
  <2> QED
    BY <2>1, <2>2, <2>3, <2>4 DEF Filed, Stores
<1> QED
  BY <1>1, Known DEF Cut, Moves

LEMMA CrashStep ==
    ASSUME BrainAssumption, IInv, Crash
    PROVE  IInv'
<1>1. /\ crashes < MaxCrashes /\ store' = Shut /\ sweep' = Idle
      /\ behind' = FALSE /\ stale' = FALSE /\ crashes' = crashes + 1
      /\ UNCHANGED <<month, appended, refused>>
  BY DEF Crash, history, Shut
<1>2. misfiled' \in BOOLEAN /\ \E ok : Cut(disk', ok) /\ (~misfiled' => ~misfiled /\ ok)
  <2>1. PICK n \in SealSteps \ {6} :
         \/ disk' = disk /\ n = 0 /\ UNCHANGED misfiled
         \/ \E s \in Stores :
              /\ IsOpen(s) /\ store[s].month # month /\ n > 0
              /\ disk' = SealedBy(s, n)
              /\ misfiled' = (misfiled \/ Misfiling(store[s].month))
         \/ /\ sweep # Idle /\ n > 0
            /\ disk' = Sealed(disk, sweep.seals, n)
            /\ misfiled' = (misfiled \/ Misfiling(sweep.seals))
         \/ /\ ~IsOpen("memory") \/ ~IsOpen("reader")
            /\ disk.live # None /\ Live(disk).month # month /\ n > 0
            /\ disk' = Sealed(disk, Live(disk).month, n)
            /\ UNCHANGED misfiled
    BY DEF Crash
  <2>2. misfiled \in BOOLEAN /\ (n > 0 => n \in 1..5)
    BY Known DEF Noted, SealSteps
  <2>3. CASE disk' = disk /\ UNCHANGED misfiled
    BY <2>2, <2>3, NothingIsCut
  <2>4. CASE \E s \in Stores :
              /\ IsOpen(s) /\ store[s].month # month /\ n > 0
              /\ disk' = SealedBy(s, n)
              /\ misfiled' = (misfiled \/ Misfiling(store[s].month))
    <3>1. PICK s \in Stores :
              /\ IsOpen(s) /\ store[s].month # month /\ n > 0
              /\ disk' = SealedBy(s, n)
              /\ misfiled' = (misfiled \/ Misfiling(store[s].month))
      BY <2>4
    <3>2. Cut(disk', ~misfiled /\ Live(disk).month = store[s].month)
      BY <2>2, <3>1, StoreIsCut
    <3> QED
      BY <3>1, <3>2 DEF Misfiling
  <2>5. CASE /\ sweep # Idle /\ n > 0
             /\ disk' = Sealed(disk, sweep.seals, n)
             /\ misfiled' = (misfiled \/ Misfiling(sweep.seals))
    <3>1. sweep.seals \in Months /\ sweep.seals < month
      BY <2>5, Known DEF Noted, Decided, Months
    <3>2. Cut(disk', ~misfiled /\ Live(disk).month = sweep.seals)
      BY <2>2, <2>5, <3>1, SealIsCut
    <3> QED
      BY <2>5, <3>2 DEF Misfiling
  <2>6. CASE /\ disk.live # None /\ Live(disk).month # month /\ n > 0
             /\ disk' = Sealed(disk, Live(disk).month, n)
             /\ UNCHANGED misfiled
    <3>1. Live(disk).month \in Months /\ Live(disk).month < month
      BY <2>6, Known, LiveIsSound DEF Months
    <3>2. Cut(disk', ~misfiled /\ Live(disk).month = Live(disk).month)
      BY <2>2, <2>6, <3>1, SealIsCut
    <3> QED
      BY <2>2, <2>6, <3>2
  <2> QED
    BY <2>1, <2>3, <2>4, <2>5, <2>6
<1>3. PICK ok : Cut(disk', ok) /\ (~misfiled' => ~misfiled /\ ok)
  BY <1>2
<1>4. /\ SoundDisk(disk', month', appended')
      /\ ~misfiled' => Filed(disk', store', month', appended') /\ RefusedAreListed'
  <2>1. refused \subseteq Events
    BY Known DEF Noted, Events, BrainAssumption
  <2>2. ~misfiled' => RefusedAreListed'
    BY <1>1, <1>3, <2>1, Known DEF Cut, Moves, RefusedAreListed
  <2> QED
    BY <1>1, <1>3, <2>2 DEF Cut
<1>5. SoundStores(disk', store', month')
  <2>1. Closed \in Connection /\ Closed.live = None
    BY DEF Closed, Connection
  <2> QED
    BY <1>1, <2>1 DEF SoundStores, Shut
<1>6. Noted'
  <2>1. crashes' \in 0..MaxCrashes
    BY <1>1, Known DEF Noted, BrainAssumption
  <2>2. \A s \in Stores : store'[s].live = None
    BY <1>1 DEF Shut, Closed
  <2>3. sweep' = Idle /\ Idle \in [seals : Months \cup {None}, opens : Months \cup {None}]
    BY <1>1 DEF Idle
  <2> QED
    BY <1>1, <1>2, <2>1, <2>2, <2>3, Known DEF Noted, IsOpen, Stores
<1> QED
  BY <1>1, <1>4, <1>5, <1>6, Known DEF IInv

LEMMA InitIsSound == BrainAssumption /\ Init => IInv
<1> SUFFICES ASSUME BrainAssumption, Init PROVE IInv
  OBVIOUS
<1>1. /\ month = 1 /\ month \in Months /\ appended = 0 /\ appended \in 0..MaxEvents
      /\ sweep = Idle /\ refused = {} /\ crashes = 0 /\ crashes \in 0..MaxCrashes
      /\ behind = FALSE /\ misfiled = FALSE /\ stale = FALSE /\ store = Shut
  BY DEF Init, BrainAssumption, Months, Shut
<1>2. /\ disk \in Disks /\ disk.live = None /\ disk.listed = {}
      /\ \A f \in FileIds : disk.files[f].events = {}
      /\ \A k \in Months : disk.archive[k] = None
      /\ \A e \in Events : disk.locator[e] = None
  <2>1. Empty \in [month : Months \cup {None}, events : SUBSET Events] /\ Empty.events = {}
    BY DEF Empty
  <2> QED
    BY <2>1 DEF Init, Disks
<1>3. 1..appended = {}
  BY <1>1
<1>4. Closed \in Connection /\ \A s \in Stores : store[s] = Closed /\ store[s].live = None
  BY <1>1 DEF Closed, Connection, Shut
<1>5. SoundDisk(disk, month, appended)
  BY <1>2, <1>3 DEF SoundDisk
<1>6. SoundStores(disk, store, month)
  BY <1>1, <1>4 DEF SoundStores, Shut
<1>7. Noted
  <2>1. sweep \in [seals : Months \cup {None}, opens : Months \cup {None}] /\ sweep = Idle
    BY <1>1 DEF Idle
  <2>2. /\ ~IsOpen("memory") /\ ~IsOpen("reader")
        /\ behind \in BOOLEAN /\ misfiled \in BOOLEAN /\ stale \in BOOLEAN
    BY <1>1, <1>4 DEF IsOpen, Stores
  <2>3. refused \subseteq 1..appended
    BY <1>1
  <2> QED
    BY <1>1, <2>1, <2>2, <2>3 DEF Noted
<1>8. Filed(disk, store, month, appended)
  BY <1>2, <1>3, <1>4 DEF Filed, Located, Apart, Current, Stores
<1> QED
  BY <1>1, <1>5, <1>6, <1>7, <1>8 DEF IInv, RefusedAreListed

LEMMA NextStep == BrainAssumption /\ IInv /\ [Next]_vars => IInv'
<1> SUFFICES ASSUME BrainAssumption, IInv, [Next]_vars PROVE IInv'
  OBVIOUS
<1>1. CASE MonthTurns
  BY <1>1, MonthTurnsStep
<1>2. CASE DecidePlan
  BY <1>2, DecidePlanStep
<1>3. CASE SweepDecides \/ SweepSeals
  BY <1>3, SweepDecidesStep, SweepSealsStep
<1>4. CASE Crash
  BY <1>4, CrashStep
<1>5. ASSUME NEW s \in Stores, Open(s) PROVE IInv'
  BY <1>5, OpenStep
<1>6. ASSUME NEW s \in Stores, ListEvents(s) PROVE IInv'
  BY <1>6, ListEventsStep
<1>7. ASSUME NEW parent \in {None} \cup 1..appended, AppendEvent(parent) PROVE IInv'
  BY <1>7, AppendStep
<1>8. CASE UNCHANGED vars
  BY <1>8 DEF vars, IInv, Noted, Decided, RefusedAreListed, IsOpen
<1> QED
  BY <1>1, <1>2, <1>3, <1>4, <1>5, <1>6, <1>7, <1>8 DEF Next

\* Everything the ledger keeps, whatever crashes and whoever seals.
THEOREM Invariant == Spec => []IInv
<1>1. BrainAssumption
  BY BrainAssumption
<1> QED
  BY <1>1, InitIsSound, NextStep, PTL DEF Spec

-----------------------------------------------------------------------------
(* What follows of it. *)

\* Every variable keeps its type.
THEOREM TypeCorrect == Spec => []TypeOK
<1>1. BrainAssumption /\ IInv => TypeOK
  <2> SUFFICES ASSUME BrainAssumption, IInv PROVE TypeOK
    OBVIOUS
  <2>1. /\ disk.files \in [FileIds -> [month : Months \cup {None}, events : SUBSET Events]]
        /\ disk.live \in FileIds \cup {None}
        /\ disk.archive \in [Months -> FileIds \cup {None}]
        /\ disk.listed \subseteq Months
        /\ disk.locator \in [Events -> Months \cup {None, InLive}]
    BY Known DEF Disks
  <2>2. refused \subseteq Events
    BY Known DEF Noted, Events, BrainAssumption
  <2>3. /\ month \in Months
        /\ sweep \in [seals : Months \cup {None}, opens : Months \cup {None}]
        /\ appended \in 0..MaxEvents /\ crashes \in 0..MaxCrashes
        /\ {behind, misfiled, stale} \subseteq BOOLEAN
    BY Known DEF Noted
  <2> QED
    BY <2>1, <2>2, <2>3, Known DEF TypeOK, Connection
<1>2. BrainAssumption
  BY BrainAssumption
<1> QED
  BY <1>1, <1>2, Invariant, PTL

\* What an open store reads as the archive of a month is its archive.
LEMMA ReadsTheArchive ==
    ASSUME IInv, ~misfiled, NEW s \in Stores, IsOpen(s), NEW k \in Months
    PROVE  EventsIn(ArchiveOf(s, k)) = IF disk.archive[k] = None THEN {} ELSE EventsOf(disk, k)
<1>1. store[s].cached[k] # None => store[s].cached[k] = disk.archive[k]
  BY Known DEF Filed, Current, IsOpen
<1>2. ArchiveOf(s, k) = disk.archive[k]
  BY <1>1 DEF ArchiveOf
<1> QED
  BY <1>2 DEF EventsIn, EventsOf

\* An acknowledged event is in the live file and in no archive, or in the one archive of
\* a past month that the catalog names, for as long as a store is open.
LEMMA WhereAnEventIs ==
    ASSUME BrainAssumption, IInv, ~misfiled, NEW s \in Stores, IsOpen(s), NEW e \in 1..appended
    PROVE  /\ disk.locator[e] \in Months \cup {InLive}
           /\ disk.locator[e] = InLive =>
                e \in Live(disk).events
                /\ \A k \in Months : disk.archive[k] # None => e \notin EventsOf(disk, k)
           /\ disk.locator[e] \in Months =>
                /\ disk.locator[e] \in disk.listed /\ disk.archive[disk.locator[e]] # None
                /\ e \in EventsOf(disk, disk.locator[e]) /\ e \notin Live(disk).events
                /\ \A k \in Months : disk.archive[k] # None /\ k # disk.locator[e] =>
                                        e \notin EventsOf(disk, k)
<1>1. Filed(disk, store, month, appended) /\ disk.live # None /\ store[s].live # None
  BY Known DEF IsOpen, SoundStores
<1>2. e \in Events
  BY Known DEF Events, BrainAssumption
<1>3. disk.locator[e] \in Months \cup {InLive}
  BY <1>2, Known DEF SoundDisk, Disks
<1>4. Live(disk).month \in Nat
  BY <1>1, Known, LiveIsSound DEF Months
<1>5. \A k \in Months : disk.archive[k] # None =>
         EventsOf(disk, k) \cap Live(disk).events = {}
  <2> SUFFICES ASSUME NEW k \in Months, disk.archive[k] # None
               PROVE  EventsOf(disk, k) \cap Live(disk).events = {}
    OBVIOUS
  <2>1. k # Live(disk).month
    BY <1>1, <1>4 DEF Filed, Current, Months
  <2> QED
    BY <1>1, <2>1 DEF Filed, Apart
<1>6. ASSUME disk.locator[e] = InLive PROVE e \in Live(disk).events
  BY <1>1, <1>6 DEF Filed
<1>7. ASSUME disk.locator[e] \in Months
      PROVE  /\ disk.locator[e] \in disk.listed /\ disk.archive[disk.locator[e]] # None
             /\ e \in EventsOf(disk, disk.locator[e])
  BY <1>1, <1>7 DEF Filed, Located
<1>8. ASSUME disk.locator[e] \in Months, NEW k \in Months, disk.archive[k] # None,
             k # disk.locator[e]
      PROVE  e \notin EventsOf(disk, k)
  BY <1>1, <1>7, <1>8 DEF Filed, Apart
<1> QED
  BY <1>3, <1>5, <1>6, <1>7, <1>8

\* A store that holds the live file, or need not, finds every acknowledged event.
LEMMA FindsEveryEvent ==
    ASSUME BrainAssumption, IInv, ~misfiled, NEW s \in Stores, IsOpen(s), NEW e \in 1..appended,
           store[s].live = disk.live \/ Live(disk).events = {}
    PROVE  Finds(s, e) = TRUE
<1>1. CASE disk.locator[e] = InLive
  <2>1. e \in Live(disk).events /\ store[s].live = disk.live /\ disk.live # None
    BY <1>1, WhereAnEventIs DEF IsOpen
  <2>2. e \in EventsIn(store[s].live)
    BY <2>1 DEF EventsIn, Live
  <2>3. Finds(s, e) = (e \in EventsIn(store[s].live))
    BY <1>1 DEF Finds, InLive, Months
  <2> QED
    BY <2>2, <2>3
<1>2. CASE disk.locator[e] \in Months
  <2>1. disk.locator[e] \in disk.listed /\ e \in EventsIn(ArchiveOf(s, disk.locator[e]))
    BY <1>2, WhereAnEventIs, ReadsTheArchive
  <2>2. Finds(s, e) = (disk.locator[e] \in disk.listed
                       /\ e \in EventsIn(ArchiveOf(s, disk.locator[e])))
    BY <1>2 DEF Finds, InLive, Months
  <2> QED
    BY <2>1, <2>2
<1> QED
  BY <1>1, <1>2, WhereAnEventIs

LEMMA MemoryFindsEveryEvent ==
    ASSUME BrainAssumption, IInv, ~misfiled, IsOpen("memory"), NEW e \in 1..appended
    PROVE  Finds("memory", e) = TRUE
<1>1. store["memory"].live = disk.live \/ Live(disk).events = {}
  BY Known DEF Filed, IsOpen
<1> QED
  BY <1>1, FindsEveryEvent DEF Stores

\* While no file was exported under the name of another month, the memory store finds every
\* event it has acknowledged, after any crash inside a seal and any seal by another party.
THEOREM NothingIsLost == Spec => []LostOnlyByMisfiling
<1>1. BrainAssumption /\ IInv => LostOnlyByMisfiling
  BY MemoryFindsEveryEvent DEF LostOnlyByMisfiling, AppendOnly
<1>2. BrainAssumption
  BY BrainAssumption
<1> QED
  BY <1>1, <1>2, Invariant, PTL

\* A listing meets every event in one shard, unless the live file was replaced behind the
\* memory store or an event was exported to a wrong place.
THEOREM EventsShowOnce == Spec => []ShownOnce
<1>1. BrainAssumption /\ IInv => ShownOnce
  <2> SUFFICES ASSUME BrainAssumption, IInv, IsOpen("memory"), ~behind, ~misfiled,
                      NEW e \in 1..appended
               PROVE  Cardinality(Shown("memory", e)) = 1
    BY DEF ShownOnce
  <2> DEFINE s == "memory"
             archives == {m \in disk.listed : e \in EventsIn(ArchiveOf(s, m))}
             live == {None : f \in {g \in {store[s].live} : e \in EventsIn(g)}}
  <2>1. s \in Stores /\ store[s].live = disk.live /\ disk.live # None
    BY Known DEF Noted, Stores, IsOpen
  <2>2. EventsIn(store[s].live) = Live(disk).events
    BY <2>1 DEF EventsIn, Live
  <2>3. \A m \in Months : EventsIn(ArchiveOf(s, m)) =
                            IF disk.archive[m] = None THEN {} ELSE EventsOf(disk, m)
    BY <2>1, ReadsTheArchive
  <2>4. disk.listed \subseteq Months
    BY Known DEF Disks
  <2>5. CASE disk.locator[e] = InLive
    <3>1. archives = {}
      BY <2>1, <2>3, <2>4, <2>5, WhereAnEventIs
    <3>2. live = {None}
      BY <2>1, <2>2, <2>5, WhereAnEventIs
    <3> QED
      BY <3>1, <3>2, FS_Singleton DEF Shown
  <2>6. CASE disk.locator[e] \in Months
    <3>1. archives = {disk.locator[e]}
      BY <2>1, <2>3, <2>4, <2>6, WhereAnEventIs
    <3>2. live = {}
      BY <2>1, <2>2, <2>6, WhereAnEventIs
    <3> QED
      BY <3>1, <3>2, FS_Singleton DEF Shown
  <2> QED
    BY <2>1, <2>5, <2>6, WhereAnEventIs
<1>2. BrainAssumption
  BY BrainAssumption
<1> QED
  BY <1>1, <1>2, Invariant, PTL

\* The socket reader finds what the memory store finds until the live file is replaced
\* under its connection.
THEOREM ReadersAgree == Spec => []ReaderAgrees
<1>1. BrainAssumption /\ IInv => ReaderAgrees
  <2> SUFFICES ASSUME BrainAssumption, IInv, IsOpen("memory"), IsOpen("reader"), ~stale,
                      ~misfiled, NEW e \in 1..appended
               PROVE  Finds("reader", e) = Finds("memory", e)
    BY DEF ReaderAgrees
  <2>1. store["reader"].live = disk.live /\ "reader" \in Stores
    BY Known DEF Noted, Stores
  <2>2. Finds("reader", e) = TRUE
    BY <2>1, FindsEveryEvent
  <2> QED
    BY <2>2, MemoryFindsEveryEvent
<1>2. BrainAssumption
  BY BrainAssumption
<1> QED
  BY <1>1, <1>2, Invariant, PTL

\* An append is refused only for a parent in the archive of a month that is over.
THEOREM RefusalMeansSealed == Spec => []RefusedOnlyWhenSealed
<1>1. BrainAssumption /\ IInv => RefusedOnlyWhenSealed
  <2> SUFFICES ASSUME IInv, ~misfiled, NEW e \in refused
               PROVE  disk.locator[e] \in disk.listed /\ disk.locator[e] < month
    BY DEF RefusedOnlyWhenSealed
  <2>1. disk.locator[e] \in disk.listed /\ disk.listed \subseteq Months
    BY Known DEF RefusedAreListed, Disks
  <2> QED
    BY <2>1, Known DEF SoundDisk
<1>2. BrainAssumption
  BY BrainAssumption
<1> QED
  BY <1>1, <1>2, Invariant, PTL

=============================================================================
