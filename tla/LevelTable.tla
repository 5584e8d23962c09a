------------------------------- MODULE LevelTable -------------------------------
(* A table of sorted files in levels, LevelTable.cpp, with its manifest.       *)
(* Whatever runs under the write lock of the table is a sequence of writes to  *)
(* the manifest and to files.  It is computed here as the trace of the states  *)
(* it passes through: the action takes the last of them, and a crash leaves    *)
(* any one of them behind.  A write is durable once it is made.                *)
EXTENDS Integers, FiniteSets, Sequences, SequencesExt

CONSTANTS
    Key,         \* a set of numbers, ordered as keys are
    Fiber,       \* fibers that write at the same time
    Options,     \* the options a table may be opened with, see Option
    Level,       \* bound: 0 .. the last level a component is put on
    Spare,       \* whether no crash falls between SaveComponent and SetPrevViewId
    MaxWrites,   \* bound: actions written
    MaxCrashes   \* bound: times the process is killed

ASSUME KeyAssumption == IsFiniteSet(Key) /\ Key \subseteq Int /\ IsFiniteSet(Fiber)

\* maxSizeOfMem_, counting one for each action, maxSizeOfImMems_, and the limits
\* maxViewOfComponent_ and maxTableOfComponent_, zero for none.
Option == [mem : Nat, imms : Nat \ {0}, views : Nat, tables : Nat]

ASSUME OptionAssumption == Options \subseteq Option /\ Spare \in BOOLEAN
ASSUME LevelAssumption == 0 \in Level /\ Level \subseteq Nat /\ MaxWrites \in Nat /\ MaxCrashes \in Nat

VARIABLES
    option,
    table,    \* the manifest, the files and the cached views
    up,       \* whether the process runs and the constructor has returned
    used,     \* usedMemory_
    upgrading,\* fibers waiting in UpgradeFromRead
    truth,    \* history: the last value written to each key
    writes, crashes

vars == <<option, table, up, used, upgrading, truth, writes, crashes>>

Deleted == 0
Nothing == [x \in {} |-> x]

\* f with x bound to y, and f without the ids of a set.
Set(f, x, y) == [z \in DOMAIN f \cup {x} |-> IF z = x THEN y ELSE f[z]]
Unset(f, xs) == [z \in DOMAIN f \ xs |-> f[z]]

\* The entries of f, and those of g for keys f does not have.
Over(f, g) == [k \in DOMAIN f \cup DOMAIN g |-> IF k \in DOMAIN f THEN f[k] ELSE g[k]]

LowKey(content) == CHOOSE k \in DOMAIN content : \A j \in DOMAIN content : k <= j
HighKey(content) == CHOOSE k \in DOMAIN content : \A j \in DOMAIN content : j <= k
Entry(t, content) == [id |-> t, lo |-> LowKey(content), hi |-> HighKey(content)]

IsNotOverlapped(view, e) == \A x \in view : x.hi < e.lo \/ e.hi < x.lo

--------------------------------------------------------------------------------
\* The queries

\* A view is loaded from the manifest once; a view the manifest does not know is empty.
GetView(s, v) ==
    IF v \in DOMAIN s.cache THEN s.cache[v] ELSE IF v \in DOMAIN s.views THEN s.views[v] ELSE {}
Cached(s, vs) == [v \in DOMAIN s.cache \cup vs |-> GetView(s, v)]

GetTableCount(s, c) ==
    FoldLeft(LAMBDA n, v : n + Cardinality(GetView(s, v)), 0, s.comps[c])

\* A file that is not there is opened as an empty one.
FileOf(files, id) == IF id \in DOMAIN files THEN files[id] ELSE Nothing

\* What a view says of its keys.
ViewContent(s, v) ==
    LET all == {[key |-> k, id |-> e.id] : k \in Key, e \in GetView(s, v)}
        found == {x \in all : x.key \in DOMAIN FileOf(s.tables, x.id)}
        of(k) == CHOOSE x \in found : x.key = k IN
    [k \in {x.key : x \in found} |-> s.tables[of(k).id][k]]

\* What a component says of its keys, the last view first.
Component(s, c) == FoldLeft(LAMBDA f, v : Over(ViewContent(s, v), f), Nothing, s.comps[c])

\* What the memory tables from one id up to another say, the last one first.
Memory(s, from, to) ==
    FoldLeft(LAMBDA f, i : Over(FileOf(s.wals, from + i), f), Nothing, [i \in 1 .. to - from + 1 |-> i - 1])

\* TryGet, for all keys: the memory tables, then the levels up to the last one.
Lookup(s) ==
    FoldLeft(LAMBDA f, c : Over(f, IF c <= s.maxLevel THEN Component(s, c) ELSE Nothing),
             Memory(s, s.pmid, s.cmid), [i \in 1 .. Cardinality(Level) |-> i - 1])

--------------------------------------------------------------------------------
\* AddToComponent, as the trace of the states it passes through.  Deleting the tables
\* of a view is one state: nothing refers to them any more.

\* The trace goes on unless the process loops forever or dies.
Then(trace, Next_(_)) ==
    IF Last(trace).stop = "no" THEN trace \o Next_(Last(trace)) ELSE trace

\* A view of its own for the table.  Only an empty component lets the view be collected
\* no longer before it refers to it.
AddNewView(s, t, c) ==
    LET v == s.cvid
        s1 == [s EXCEPT !.cvid = v + 1]
        s2 == [s1 EXCEPT !.ptid = s.ctid]
        s3 == [s2 EXCEPT !.views = Set(@, v, {Entry(t, s.tables[t])})]
        kept == [s3 EXCEPT !.pvid = v + 1]
        known == [s3 EXCEPT !.comps[c] = Append(@, v)] IN
    <<s1, s2, s3,
      IF s.comps[c] = <<>> THEN kept ELSE known,
      [known EXCEPT !.pvid = v + 1]>>

\* Mutant: the view is not saved.
AddUnsaved(s, t, c) ==
    LET v == Last(s.comps[c])
        view == GetView(s, v) \cup {Entry(t, s.tables[t])} IN
    <<[s EXCEPT !.ptid = s.ctid, !.cache = Set(@, v, view)]>>

AddToView(s, t, c) ==
    LET v == Last(s.comps[c])
        view == GetView(s, v) \cup {Entry(t, s.tables[t])}
        s1 == [s EXCEPT !.ptid = s.ctid, !.cache = Set(@, v, view)] IN
    <<s1, [s1 EXCEPT !.views = Set(@, v, view)]>>

\* The entries of a sorted file.  It is written as one block: no block but the last is
\* ever full.
Build(s, t, entries) == [s EXCEPT !.tables = Set(@, t, entries)]

\* Ordered tables are copied block by block, by a loop that does not move on.
CombineTables(s) == [s EXCEPT !.stop = "loops"]

\* Mutant: the first table that has the key gives its value.
MergeOldest(s, t, old, new, erase) == Build(s, t, Over(old, new))

\* The newest value of each key.  The last key of the block is asked for even when all
\* of it was erased.
MergeSorted(s, t, old, new, erase) ==
    LET all == Over(new, old)
        left == IF erase THEN {k \in DOMAIN all : all[k] # Deleted} ELSE DOMAIN all IN
    [Build(s, t, [k \in left |-> all[k]]) EXCEPT !.stop = IF left = {} THEN "dies" ELSE "no"]

\* Table t is newer than the component.  When there is one view and t is beside its
\* tables they are taken for ordered.
MergeTables(s, t, c) ==
    LET ordered == Len(s.comps[c]) = 1
                   /\ IsNotOverlapped(GetView(s, Last(s.comps[c])), Entry(t, s.tables[t])) IN
    IF ordered THEN CombineTables(Build(s, s.ctid - 1, Nothing))
    ELSE MergeSorted(s, s.ctid - 1, Component(s, c), s.tables[t],
                     s.maxLevel = c /\ Len(s.comps[c]) = 1)

DeleteViews(s, old, t) ==
    LET Tables(v) == {e.id : e \in GetView(s, v)}
        gone(i) == UNION {Tables(old[j]) : j \in 1 .. i}
        files(i) == [s EXCEPT !.tables = Unset(@, gone(i)),
                              !.views = Unset(@, {old[j] : j \in 1 .. i - 1})]
        keys(i) == [files(i) EXCEPT !.views = Unset(@, {old[i]})] IN
    FlattenSeq([i \in 1 .. Len(old) |-> <<files(i), keys(i)>>])
    \o <<[keys(Len(old)) EXCEPT !.tables = Unset(@, {t})]>>

LowerMaxLevel(s, c) ==
    IF c # 0 /\ s.maxLevel = c THEN <<[s EXCEPT !.maxLevel = c - 1]>> ELSE <<>>

RECURSIVE AddToComponent(_, _, _)

\* Mutant: the files of the component are deleted before it is cleared.
DeleteFirst(s, t, c) ==
    LET old == s.comps[c]
        n == s.ctid
        s1 == [s EXCEPT !.ctid = n + 1]
        merged == MergeTables(s1, t, c)
        s2 == [merged EXCEPT !.cache = Cached(merged, ToSet(old))] IN
    Then(Then(Then(Then(<<s1, s2>>,
        LAMBDA x : AddToComponent(x, n, c + 1)),
        LAMBDA x : DeleteViews(x, old, t)),
        LAMBDA x : <<[x EXCEPT !.comps[c] = <<>>]>>),
        LAMBDA x : LowerMaxLevel(x, c))

\* The component and the table become one table of the next component.
MergeUp(s, t, c) ==
    LET old == s.comps[c]
        n == s.ctid
        s1 == [s EXCEPT !.ctid = n + 1]
        merged == MergeTables(s1, t, c)
        s2 == [merged EXCEPT !.cache = Cached(merged, ToSet(old))] IN
    Then(Then(Then(Then(<<s1, s2>>,
        LAMBDA x : AddToComponent(x, n, c + 1)),
        LAMBDA x : <<[x EXCEPT !.comps[c] = <<>>]>>),
        LAMBDA x : DeleteViews(x, old, t)),
        LAMBDA x : LowerMaxLevel(x, c))

AddToComponent(s, t, c) ==
    IF s.tables[t] = Nothing
    THEN LET s1 == [s EXCEPT !.ptid = s.ctid] IN
         IF s.maxLevel = c /\ s.comps[c] = <<>>
         THEN <<s1, [s1 EXCEPT !.maxLevel = @ - 1]>> ELSE <<s1>>
    ELSE LET raised == [s EXCEPT !.maxLevel = IF @ < c THEN c ELSE @]
             opened == [raised EXCEPT !.cache = Cached(raised, ToSet(s.comps[c]))]
             full == option.tables # 0 /\ GetTableCount(s, c) = option.tables
             crowded == option.views # 0 /\ Len(s.comps[c]) = option.views
             fits == IsNotOverlapped(GetView(s, Last(s.comps[c])), Entry(t, s.tables[t])) IN
         <<opened>> \o
         (IF s.comps[c] = <<>> THEN AddNewView(opened, t, c)
          ELSE IF full THEN MergeUp(opened, t, c)
          ELSE IF fits THEN AddToView(opened, t, c)
          ELSE IF crowded THEN MergeUp(opened, t, c)
          ELSE AddNewView(opened, t, c))

--------------------------------------------------------------------------------
\* Memory tables

\* Mutant: the log of the new memory table is counted as dumped.
RemoveAllLogs(s) == <<[s EXCEPT !.wals = Unset(@, s.pmid .. s.cmid), !.pmid = s.cmid + 1]>>

\* The logs of the immutable tables are removed one after another, the oldest first.
RemoveLogs(s) ==
    [i \in 1 .. s.cmid - s.pmid |-> [s EXCEPT !.wals = Unset(@, s.pmid .. s.pmid + i - 1)]]
    \o <<[s EXCEPT !.wals = Unset(@, s.pmid .. s.cmid - 1), !.pmid = s.cmid]>>

DummpImmutableTables(s) ==
    LET t == s.ctid
        s1 == [s EXCEPT !.ctid = t + 1]
        s2 == Build(s1, t, Memory(s, s.pmid, s.cmid - 1)) IN
    Then(Then(<<s1, s2>>, LAMBDA x : AddToComponent(x, t, 0)), LAMBDA x : RemoveLogs(x))

\* MakeNewMemoryTable, and what Action does when there are enough immutable tables.
Rotate(s) ==
    LET s1 == [s EXCEPT !.cmid = @ + 1]
        s2 == [s1 EXCEPT !.wals = Set(@, s1.cmid, Nothing)] IN
    <<s1, s2>> \o (IF s2.cmid - s2.pmid = option.imms THEN DummpImmutableTables(s2) ELSE <<>>)

--------------------------------------------------------------------------------
\* The constructor

InitTables(s) ==
    LET s1 == [s EXCEPT !.wals = [i \in DOMAIN @ \cup (s.pmid .. s.cmid) |-> FileOf(@, i)]] IN
    <<s1>> \o (IF s1.cmid - s1.pmid >= option.imms THEN DummpImmutableTables(s1) ELSE <<>>)

\* From the last view down.
GcViews(s) ==
    [i \in 1 .. s.cvid - s.pvid |-> [s EXCEPT !.views = Unset(@, s.cvid - i .. s.cvid - 1)]]
    \o (IF s.pvid = s.cvid THEN <<>>
        ELSE <<[s EXCEPT !.views = Unset(@, s.pvid .. s.cvid - 1), !.cvid = s.pvid]>>)

\* The entries of the tables that are collected; the first of them is missed, and no id
\* is as large as the last.
Collected(s, v) == {e \in GetView(s, v) : e.id > s.ptid /\ e.id <= s.ctid}

GcTables(s) ==
    IF s.ptid = s.ctid THEN <<>>
    ELSE LET left(v) == GetView(s, v) \ Collected(s, v)
             comps == [c \in Level |-> SelectSeq(s.comps[c], LAMBDA v : c > s.maxLevel \/ left(v) # {})]
             ids == UNION {ToSet(s.comps[c]) : c \in {d \in Level : d <= s.maxLevel}}
             s1 == [s EXCEPT !.cache = [v \in DOMAIN @ \cup ids |-> IF v \in ids THEN left(v) ELSE @[v]],
                             !.views = [v \in DOMAIN @ |->
                                 IF v \in ids /\ Collected(s, v) # {} /\ left(v) # {} THEN left(v) ELSE @[v]],
                             !.comps = comps]
             filled == {c \in Level : c <= s.maxLevel /\ comps[c] # <<>>}
             s2 == [s1 EXCEPT !.maxLevel =
                       IF filled = {} THEN 0 ELSE CHOOSE c \in filled : \A d \in filled : d <= c]
             s3 == [s2 EXCEPT !.tables = Unset(@, s.ptid .. s.ctid - 1)] IN
         <<s1, s2, s3, [s3 EXCEPT !.ctid = s.ptid]>>

Open(s) == Then(Then(InitTables(s), GcViews), GcTables)

--------------------------------------------------------------------------------
\* The processes

Init ==
    /\ option \in Options
    /\ table = [ctid |-> 0, cvid |-> 0, cmid |-> 0, ptid |-> 0, pvid |-> 0, pmid |-> 0, maxLevel |-> 0,
                comps |-> [c \in Level |-> <<>>], views |-> Nothing, tables |-> Nothing,
                wals |-> [i \in {0} |-> Nothing], cache |-> Nothing, stop |-> "no"]
    /\ up = TRUE /\ used = 0 /\ upgrading = {} /\ writes = 0 /\ crashes = 0
    /\ truth = [k \in Key |-> Deleted]

\* Put and Delete, up to the return or to UpgradeFromRead: the memory table is written
\* under the read lock.
Action(f, k, value) ==
    /\ up /\ table.stop = "no" /\ f \notin upgrading /\ writes < MaxWrites
    /\ table' = [table EXCEPT !.wals[table.cmid] = Set(@, k, value)]
    /\ truth' = [truth EXCEPT ![k] = value]
    /\ used' = used + 1
    /\ upgrading' = IF used' > option.mem THEN upgrading \cup {f} ELSE upgrading
    /\ writes' = writes + 1
    /\ UNCHANGED <<option, up, crashes>>

\* The rest of it, under the write lock: somebody else may have changed the table.
Upgraded(f) ==
    /\ up /\ table.stop = "no" /\ f \in upgrading
    /\ upgrading' = upgrading \ {f}
    /\ used' = 0
    /\ table' = IF used = 0 THEN table ELSE Last(Rotate(table))
    /\ UNCHANGED <<option, up, truth, writes, crashes>>

\* Every view a component refers to is below the ids that GcViews collects.
ViewsKept(s) == \A c \in Level : \A v \in ToSet(s.comps[c]) : v < s.pvid

\* The process is killed between two writes of whatever it is doing.
Killed(s) ==
    /\ Spare => ViewsKept(s)
    /\ table' = [s EXCEPT !.cache = Nothing, !.stop = "no"]
    /\ up' = FALSE /\ used' = 0 /\ upgrading' = {}
    /\ UNCHANGED <<truth, writes>>

\* The next process may open the table with other options.
Kill(s) ==
    /\ crashes < MaxCrashes
    /\ crashes' = crashes + 1
    /\ option' \in Options
    /\ Killed(s)

CrashIdle == up /\ Kill(table)

CrashInRotate(f) ==
    /\ up /\ table.stop = "no" /\ f \in upgrading /\ used # 0
    /\ \E s \in ToSet(Rotate(table)) : Kill(s)

\* One crash more than the bound may fall into an opening.
CrashInOpen ==
    /\ ~up /\ crashes <= MaxCrashes
    /\ \E s \in ToSet(Open(table)) : Killed(s)
    /\ crashes' = crashes + 1
    /\ UNCHANGED option

Restart ==
    LET s == Last(Open(table)) IN
    /\ ~up
    /\ up' = TRUE /\ table' = s
    /\ used' = Cardinality(DOMAIN s.wals[s.cmid])
    /\ UNCHANGED <<option, upgrading, truth, writes, crashes>>

Next ==
    \/ \E f \in Fiber, k \in Key :
        Action(f, k, writes + 1) \/ Action(f, k, Deleted)
    \/ \E f \in Fiber : Upgraded(f) \/ CrashInRotate(f)
    \/ CrashIdle \/ CrashInOpen \/ Restart

Spec == Init /\ [][Next]_vars

--------------------------------------------------------------------------------
\* Every key reads as the last value written to it, over all merges, all deletions that
\* are dropped on the way, and all crashes between two writes of a merge.
ReadsNewest ==
    up /\ table.stop = "no" =>
        LET found == Lookup(table) IN
        \A k \in Key : truth[k] = IF k \in DOMAIN found THEN found[k] ELSE Deleted

\* Nothing a component refers to is missing from the manifest or from the disk, whenever
\* the process is killed.
NothingDangles ==
    \A c \in Level : \A v \in ToSet(table.comps[c]) :
        /\ v \in DOMAIN table.views
        /\ \A e \in table.views[v] : e.id \in DOMAIN table.tables

\* A cached view is the one in the manifest, unless the manifest has dropped it.
CacheIsCurrent ==
    \A v \in DOMAIN table.cache \cap DOMAIN table.views : table.cache[v] = table.views[v]

\* What InitImmutableTables, GcViews and GcTables start from is never past what has been
\* given out: they count up to it with !=.
TypeOK ==
    /\ table.ptid \in 0 .. table.ctid /\ table.pvid \in 0 .. table.cvid
    /\ table.pmid \in 0 .. table.cmid /\ table.maxLevel \in Level
    /\ table.stop \in {"no", "loops", "dies"}
    /\ used \in Nat /\ upgrading \subseteq Fiber
================================================================================
