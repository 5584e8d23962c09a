# TLA+ specifications of Sharpen

Sharpen is a multithreaded C++ library: event loops and fibers, asynchronous locks, a quorum helper, timers,
a Raft state machine, network and file channels, and two storage engines built on them. This directory models
its concurrent core, the Raft node, the network channel and the log-structured storage engine in TLA+,
model-checks them with TLC on small instances and proves the main invariants with TLAPS for every size.

`PROJECT.json` lists, for the tools, the components, the runs, the mutants, the source lines of every
definition (`map`), the findings, the hazards and the theorems. This file is for the reader.

Contents: 1 inventory, 2 modules, 3 runs and bounds, 4 fairness, 5 what is proved, 6 findings,
7 what is not modelled, 8 what could come next.

## 1 Inventory

Paths are relative to the repository (`src/` and `include/sharpen/`).

### Engine

| part | state | operations | what makes it correct |
| --- | --- | --- | --- |
| `EventLoop`, `EpollSelector` | `pendingTasks_`, `tasks_`, `exectingTask_`, `running_`, `waiting_`, the event descriptor | `RunInLoop(Soon)`, `Run`, `ExecuteTask`, `Stop` | a queued task is run once, in order, although most pushes skip the wake-up; Stop ends the loop |
| `Future`, `AwaitableFuture` | state, result, callback, the waiting fiber | `Complete`, `Fail`, `SetCallback`, `Wait`, `Await`, `Reset` | the fiber is resumed once, after it has left its stack, and only with a result |
| `EventEngine`, `Fiber` | loops, workers, round-robin position, each thread's switch callback | `Schedule`, `ProcessFiber`, `Launch`, `Startup`, `Stop` | no fiber is lost or run by two workers |

A task runs on its loop's thread. A fiber runs inside a task (`ProcessFiber`), leaves it by a switch back to
the loop's own fiber, and comes back as another task, maybe on another loop. Everything above is built on
`AwaitableFuture`: a lock is a spin lock, a list of futures of sleeping fibers, and `Complete`.

### Locks

| part | state | operations | what makes it correct |
| --- | --- | --- | --- |
| `AsyncReadWriteLock` | state, reader count, two lists of futures | lock, try, unlock, upgrade, downgrade | count and state always tell who has the lock, sleeping owners included; no waiter without a holder |
| `AsyncMutex` | locked flag, list of futures | lock, try, unlock | the hand-over leaves no gap |
| `AsyncSemaphore` | counter, list of futures | lock, unlock, unlock of several | permits are neither made nor lost |
| `AsyncBarrier` | counter, list of futures | `WaitAsync`, `Notice`, `Reset`, `AddCount` | everybody waits until zero and nobody longer |

### Agreement and time

| part | state | operations | what makes it correct |
| --- | --- | --- | --- |
| `Quorum` | three atomic counters, the caller's two futures, a timer | (time limited) propose, completion and timeout callbacks | one verdict, the right one; `finish` last |
| `TimerLoop`, `LinuxTimer` | token, future of the loop; future and armed state of the timer | `Start`, `Terminate`, `Cancel`, rounds | one entry at a time; Terminate waits for it; Start is not lost |
| `TimeWheel` | buckets of callbacks with rounds, position | `Put`, `Tick` | a callback fires at its tick |
| `RaftWrapper` | term, vote, log, role, commit and applied index | `RequestVote`, `AppendEntries`, `RaiseElection`, `ApplyLogs`, ... | one leader per term unless a vote was forgotten; applied entries agree until a log or a commit index slips |

### Storage and I/O

| part | state | operations | what makes it correct |
| --- | --- | --- | --- |
| `MemoryTable`, `BinaryLogger`, `WriteBatch` | ordered map, log file, offset | `Action`, `Restore`, `Clear` | what was acknowledged is there after a restart, in the same order |
| `LevelTable` | memory tables, views, components, manifest | `Put`, `Delete`, `Get`, dump, merge, recovery | reads see the last write through dumps, merges and crashes |
| `BalancedTable`, `FileMemory` | blocks in a file, cache, free list | `Put`, `Delete`, split, scan | a tree of ordered blocks; no block in two places |
| sorted string tables, caches, Bloom filter | immutable files, recency lists, bits | build, merge, look up | what was put is found |
| network channel | readiness flags, buffers and callbacks under way and pending | read, write, poll, accept, connect, cancel | every call is answered once and in order; no edge of epoll is forgotten |
| file and pipe channels | pending operations | read, write | every operation completes once |
| `IoUringQueue` | submission and completion overflow queues | submit, reap | no request lost, doubled or out of order |

Storage uses `AsyncReadWriteLock` and `AsyncMutex` for its locks, `AwaitableFuture` for its I/O, and the
channels are served by an `EventLoop`.

### What is hard

Fibers of several threads interleave at every unlocked step, futures are completed before, during and after
their awaiter leaves its stack, locks change hands while the next owner sleeps, timers expire while they are
cancelled, and the storage engines write several files per operation and may crash between them. The list
`hazards` in `PROJECT.json` names each place with its line, and either the properties that cover it or why
none does yet.


## 2 Modules

| module | models | builds on |
| --- | --- | --- |
| `TaskQueue` | what an event loop promises: a FIFO queue of tasks, each run once | |
| `EventLoop` | one loop, its selector, the threads that push to it and the one that stops it | implements `TaskQueue` |
| `AwaitableFuture` | fibers that await futures on the workers of an engine, and whoever completes them | the queue of each loop is that of `TaskQueue` |
| `ReadWriteLock` | what a read-write lock promises: readers together, a writer alone, upgrades and downgrades | |
| `AsyncReadWriteLock` | the lock of fibers with its hand-over | implements `ReadWriteLock` |
| `AsyncSemaphore` | the counting semaphore of fibers, `Unlock(count)` included | |
| `MajorityVote` | what a quorum promises its caller | |
| `QuorumProposal` | `Quorum::ProposeAsync` and its time limited form, callback by callback | implements `MajorityVote` |
| `TimerLoop` | a timer loop on a `LinuxTimer` | |
| `RaftWrapper` | the nodes of a Raft group, their network, their crashes and a driver | |
| `WriteBatch` | the byte format of a batch of writes | |
| `MemoryTable` | a table over its write-ahead log, failed writes and kills included | batches are those of `WriteBatch` |
| `LevelTable` | the storage engine: memory tables, views, components, manifest | |
| `PosixNetStreamChannel` | a TCP channel under an edge-triggered epoll | |

`MCX` instantiates `X` for TLC; `X_proofs` holds the theorems about `X`, and `EventLoop_proofs` also those about
`TimerLoop`. Every constant a bound hides behind is
named in the module (`Calls`, `Posts`, `MaxStarts`). Operators marked "mutant" are wrong variants of the
definition after them; each property has one that breaks it.

**EventLoop.** `RunInLoopSoon` is cut where the code leaves its spin lock: the locked push and flag swap is one
step, the write to the event descriptor (`Notify`) another. `Run` is cut at each access to something another
thread sees: `running_`, `waiting_`, the selector, the locked swap in `ExecuteTask`. The descriptor is edge
triggered and never read, hence one Boolean `signalled` that a report consumes; a report of a channel may or may
not carry it. `Stop` is its three accesses. The owner's thread may push or run tasks from inside a handler or a
task.

**AwaitableFuture.** A fiber that awaits goes through `NewFuture`, the unlocked test `IsPending`,
`SwitchToProcesserFiber` with a switch callback, and `NotifyIfCompleted`, run by the worker after the switch. A
completer goes through `Complete` or `Fail` under the lock, `NotifyAwaiter` under the lock again, and `Schedule`.
`Schedule` queues the fiber on any loop, or switches to it at once when the caller is a worker's own fiber. A
future is used for one await; `Reset` is not modelled.

**AsyncReadWriteLock, AsyncSemaphore.** An operation is one critical section of a spin lock. Whoever releases
rewrites the lock's fields for the fibers it wakes, which go on sleeping until their future is completed outside
the section (`waking`); in between the lock belongs to sleepers. In the semaphore a future is named by the fiber
and the number of its call, so that a pointer kept too long is told apart from the next future at its address.

**QuorumProposal.** Each atomic operation of `CompletedCallback` is a step (`CountDown`, `Vote`, `Decide`,
`CancelTimer`, `Finish`), so that callbacks of several event loop threads interleave. The timeout callback is
`Expire`, one `Scan` per turn of its loop, and `CancelHeld` after it. `Init` chooses which of the two calls was
made: a timer waits, or there is none. The continuation pointer is swapped without synchronisation; the model
makes that swap one step and `NoDecisionRace`, part of the invariant, shows that no two callbacks get there.

**TimerLoop.** The owner's `Start` and `Terminate`, the canceller's `Cancel`, the entry's rounds and the timer's
own `WaitAsync`, `Cancel` and `OnEvent` are cut at every atomic exchange, store and system call. `Overtaking`
says whether the owner may run between the handler's return of `LoopStatus::Terminate` and the end of the entry.
On an engine with one thread it cannot, because nothing switches fibers there.

**RaftWrapper.** A node is a record of the class's fields; an action is one call of the class by the network or
the driver, with every call it makes on the persistent storage. The persistent term, vote and log are written
one by one, so each action comes with a `Crash...` twin that stops after any of its writes and restarts the node
from what was written. Calls of `RequestVote` and `AppendEntries` are sets of messages that may be lost,
delivered twice, late or in any order. A log is the term of the entry at each index, 0 where there is none: an
index can be missing below a later one, because a conflicting entry is removed and not replaced
(`RaftWrapper.hpp:276`). The repository leaves the driver to its user. The modelled one counts votes honestly and puts new
entries at the end of the leader's log, and is otherwise free: it may send any piece of the leader's log, none, one or
several entries, with any commit index it set, and it may set any commit index. A vote may be asked for at any time.
The class is not safe under all of this, and two history variables, which no action reads, say when it stopped being so.
`forgot` has the node and term whose vote `AppendEntries` made it forget (`:248`), after which a late
`RequestVote` of that term is granted again. `slips` has the kinds of steps after which applied entries may differ:
"gap", a conflict left a log with an index missing below a later one; "tail", a node took a commit index for
entries behind those of the call, because it is cut to the last index only (`:295`); "commit", the driver set a
commit index for an entry of an older term, or one that no majority has. `ElectionSafety` and `AppliedAgree` name
these as the only exceptions. `match`, how far a node has taken over the log of a term's leader, `leaderLog`, the log of
each term's leader as far as it got in that term, and `ballots` with `led`, the votes given and elections won, are what
the invariant speaks of. `ReactVote` reads `ballots`, which stands for the answers that the network carries back; no
other guard reads any of these.

**WriteBatch, MemoryTable.** A batch is a sequence of cells, and `LoadFrom` is the code's loop over them, its
missing step past a value included. The log file is a sequence of cells too, with a cell for a record's length.
A fiber logs its batch (`write` may fail, be short, or be under way when the process is killed), then takes the
write lock and applies it. A kill leaves any prefix of each record that was being written (`Tear`). `Restart` is the
constructor of the log, `ReadOne` one round of `GetWriteBatchs` with the code's reused buffer, which cuts the file at
a record it cannot load, `ReplayOne` one batch that `Restore` applies, and `Restore` its return; the process may be
killed again between any two of them. The history variables say which records the log has (`records`), where it
was cut while it went on (`damage`), and which keys were in two batches at once (`raced`).

**LevelTable.** What runs under the write lock is a sequence of writes to the manifest and to files. It is
computed as the trace of durable states it passes through: an action takes the last of them, a kill
leaves any of them. `Rotate` replaces the memory table, dumps when there are too many immutable ones, and merges
views down through the components; `Open` is the constructor with `InitImmutableTables`, `GcTables`, `GcViews`.
Two fibers may both find the memory full, since `Action` upgrades its lock between the test and the replacement. A
sorted file is a map from keys to values, one block long. Two places where the code does not come back are kept
as the state `stop`: the loop of `CombineTables` that never moves on, and a merge of nothing but deletions,
which asks an empty block for its last key. `Spare` leaves out the one kill of `LevelTable_view`.

**PosixNetStreamChannel.** The flags, the buffers under way and pending, the poll, accept and connect callbacks
are one record for reading and one for writing. An operation of the code is a function of such a record; the
system call in it gives its several outcomes. Everything runs on the loop's thread, so an action is one task, or one
`OnEvent`. The kernel is `avail`, `room`, how the stream ended, and `edge`, set by whatever arrives and taken by
`OnEvent`, which sees the levels of that moment. Freed room raises an edge only if the kernel had seen
the room too small. `cut` remembers the writes whose buffer went out in two pieces. What is sent from such a
buffer after the first piece comes from an address made of its length, so those bytes belong to no call: `BytesOf`
books them under `NoCall`.

## 3 Runs and bounds

| run | instance | shows |
| --- | --- | --- |
| `EventLoop` | 2 posters, the owner, 4 tasks | no wake-up is lost although a push that finds the flag set skips it; FIFO queue; queued tasks run; a Stop that saw the loop running ends it |
| `AwaitableFuture` | 2 fibers, 2 workers, 1 outside completer, 2 futures | a fiber is in exactly one place, is resumed once and with a result, and a settled await returns |
| `AsyncReadWriteLock` | 4 fibers, 2 calls each | fields match holders, waiters have a holder, the abstract lock is implemented, every waiter is served |
| `AsyncSemaphore` | 3 fibers, 1 permit, 2 calls each, 2 batches of 1 to 3 | nobody waits beside a free permit; until the first batch permits are conserved and waiters served |
| `QuorumProposal` | 4 proposers, 2 wanted, with and without a timeout | one verdict, the right one; the abstract vote is implemented; both futures completed |
| `TimerLoop` | 3 starts | one entry at a time; quiet after Terminate; Start is heard; Terminate returns |
| `RaftWrapper` | 3 nodes, 2 terms, 2 entries, 2 elections, 1 crash, 2 different calls of `AppendEntries`, each late, twice, in any order or never | two leaders of a term only through a forgotten vote; applied entries agree until then and until something slips, and are final in any case; the inductive invariant of the proofs (1,143,359 states) |
| `MemoryTable` | 2 fibers, 3 batches, 2 kills, in the middle of a restore too, 1 failed or short write or `ClearLogs` | a restart brings back whole batches up to a point, every acknowledged one among them; the table is what the log says (719,096 states) |
| `MemoryTable_batch` | 1 fiber, 2 batches of 2 actions, 1 kill | violation: an acknowledged batch comes back changed or not at all |
| `LevelTable` | 2 keys, 2 fibers, 4 sets of limits, 4 writes, 1 kill and another while opening | every key reads as last written through dumps, merges and kills; nothing dangles; cached views are current (1,403,006 states) |
| `LevelTable_view` | 1 fiber, 6 writes, 1 kill | violation: keys behind a cached view of a reused id are not found |
| `PosixNetStreamChannel` | 4 calls of 1 or 2 bytes, 3 bytes or connections in, a send buffer of 2 that is emptied twice | calls answered once and in order, every byte that came accounted for, uncut writes sent whole, no edge forgotten, with the exceptions in 6 (4,027,777 states) |

Why these sizes suffice. A wake-up is skipped because of one earlier push, so two pushers, the owner and a few
tasks give every order of push, skip, swap and report. A fiber protocol has one fiber, one completer and two
workers; the second fiber is there to complete the first one's future and to compete for the workers. The lock
needs two readers inside, an upgrader and a writer waiting. The semaphore needs lists longer and shorter than a
batch and a fiber that comes back while a stale future of it is around. A vote of four with two wanted has ties,
verdicts before and after the last answer, and answers after the verdict. Three starts let an entry meet what
two predecessors left behind. Raft needs two candidates in a term, a leader of the next one that meets the first one's entries, a conflict below a
second entry, and two calls to arrive in the wrong order. The run gets to every exception that its properties name: two
leaders of one term (10 steps), a commit index taken for a stale tail (11), a gap (13), and nodes that have applied different
entries (17). A state in which the driver has just set an unbacked commit index is checked, and what follows it is not
explored (`Explored`), because there `AppliedAgree` claims nothing; `AppliedIsFinal` and the votes, which do not depend
on it, are proved for these states too. That more terms, entries, nodes, calls and crashes add nothing is what the proofs
say, of all four properties. For the memory table, two records can be under way
while a third is behind them, and the second kill meets what a restart after the first one made of the file, or
cuts that restart short; the proofs say that more of either adds nothing. In the level
table four writes fill two memory tables twice over, which merges into the third level; the sets of limits
are those where the number of views, of tables, or of immutable tables decides. In the channel a batch of two
buffers, a call behind it and one after it are the cases `Execute` distinguishes, and a buffer of two is needed
to be cut.

`CHECK_DEADLOCK FALSE` stands where the system may rest: tasks, calls, writes and futures run out, or the loop has
ended. `TimerLoop` never rests and is checked for deadlock.

What the properties leave out, by name: `AckedSurvives` the batches behind a place where the file was cut while
the log went on, and behind one that was still being written; `TableIsLog` the keys that two fibers wrote at
once; `ReadsNewest` a table that hangs or dies; `NothingForgotten` the cases in 6; `WritesInOrder` what a write
cut in two sends after its first piece and what it reports; `ElectionSafety` forgotten votes and groups of even
size; `AppliedAgree` what follows two leaders of a term or a slip. In each of these the stronger statement is false of
the code.

## 4 Fairness

Fairness is weak and only ever says that a thread, or a fiber that some thread is running, takes its next step,
with one exception: `ProcessFiber` is strongly fair per fiber, because a queued fiber is served in FIFO order
(which `EventLoop` proves of its queue) while the worker is in and out of its loop. Nobody is obliged to push a
task, to ask for a lock, to call `Stop`, `Start`, `Terminate` or `Cancel`, or to complete a future. The liveness
properties are conditional on what the environment did: a task *that was queued*, an await *whose future is
settled*, a waiter *while holders release*. Two assumptions are about the environment: who holds a lock or a
permit gives it back, and proposers answer by themselves if the call has no timeout. The timer's countdown ends.
The Raft, storage and channel modules are checked for safety only: what a Raft group achieves
depends on a driver that is not there, and the storage actions are single steps of whoever calls.
`BothComplete` also assumes that the timeout comes after the last proposal was made: the code starts the timer
first, and a proposal made after the scan is never cancelled.

## 5 What is proved

TLAPS checks, for all values of the constants:

| module | theorem | from |
| --- | --- | --- |
| `EventLoop_proofs` | `NoWakeUpIsLost`, `LoopImplementsTaskQueue` | the owner is not a poster |
| `AwaitableFuture_proofs` | `FiberNeverLost`, `NoResumeLost`, `ResumedFiberHasResult` | fibers, workers and outside threads are distinct |
| `AsyncReadWriteLock_proofs` | `LockImplementsReadWriteLock` | finitely many fibers |
| `AsyncSemaphore_proofs` | `TypesHold`, `NobodyWaitsInVain`, `PermitsAreConserved` | finitely many fibers; the last until `Unlock(count)` is called |
| `QuorumProposal_proofs` | `VerdictIsRight`, `FinishComesLast`, `QuorumImplementsVote` | 1 <= Majority <= Size |
| `EventLoop_proofs` | `EntriesNeverOverlap`, `TerminateLeavesNobody`, `StartIsNeverLost` | no overtaking |
| `RaftWrapper_proofs` | `LogSafety`, `AppliedSafety`, `VoteSafety`, `OneLeaderInATerm`, `AgreementSafety`, `AppliedEntriesAgree` | finitely many nodes |
| `MemoryTable_proofs` | `TypeCorrect`, `TableFollowsLog`, `PrefixRestored`, `AcknowledgedSurvive` | batches load back; torn records are noticed |
| `PosixNetStreamChannel_proofs` | `CallsHaveOnePlace`, `ReadsAreInOrder`, `WritesAreInOrder`, `NothingIsForgotten` | lengths and the send buffer are not zero |

Each rests on an inductive invariant, `Spec => []IInv`, proved with one lemma per action. The invariants and why the property
alone does not do:

- *EventLoop.* `NoLostWakeUp` says that a queued task has a signal, or a pusher about to give one. A pusher that
  skips its signal must know that somebody else owes it: `FlagMeansPending`, the flag is set exactly while the
  queue is not empty. `BatchDrained`, the batch is empty outside `ExecuteTask`, makes the swap put an empty list
  in place of the queue, on which both the flag and the FIFO order depend.
- *AwaitableFuture.* That a fiber is in one place is inductive only with what each place says of the fiber:
  queued or in a completer's hands, its future is settled; behind a callback or in a future, it is away; and a
  call in progress belongs to an actor that is doing nothing else. Steps that move a fiber then find it nowhere
  else. The proof states the invariant place by place, without the set `Places`, and shows the two forms equal.
- *AsyncReadWriteLock.* The fields match the holders, sleepers included (`FieldsMatchHolders`), which needs that
  a fiber is listed or granted once (`WaitsOnce`) and that nobody waits for a free lock (`WaitersHaveHolder`).
  Cardinalities of the holder sets before and after each hand-over are related by the library's theorems.
- *AsyncSemaphore.* Conservation counts the futures on their way as a set, so the invariant says that a future is
  on its way once (`GrantedOnce`): a completion then takes exactly one away. That a future is not listed twice, nor
  both listed and on its way, follows from its being that of a call that still waits.
- *QuorumProposal.* The three counters are the cardinalities of the sets of callbacks that have passed the
  increment; the sides of the vote are disjoint, so a threshold crossed on one side is out of reach on the
  other (`SidesBounded`). Hence one callback crosses one threshold, and it finds the continuation untouched.
  The refinement uses that two sets that together exceed the proposers meet.
- *TimerLoop.* The last entry is the only one alive, and the token, the loop's future and the owner's place
  tell its life (`LifeMatchesOwner`). An entry that stops itself leaves with its future completed before the
  token is clear, which the invariant can only allow while the owner stays away.

- *RaftWrapper.* Three layers. `LogInv` says of the log alone that a node never commits past its last index and
  never applies what is not there; every handler and every torn handler `Grows` a node: the applied index does not fall
  and no applied entry changes. `VoteInv` is about elections: a voter remembers its vote in a term or a leader's call
  made it forget (`VotesRemembered`), so that nobody else votes twice in a term (`VotedAgain`), and every leader has the
  votes of half the group or more (`LedByVotes`, `Winning`). The vote is remembered because the code writes the term first
  when it raises it, and a torn raise leaves an old vote standing in a new term, which stops the node from voting but
  never makes it vote twice. In an odd group the voters of two leaders of a term meet (`SecondLeader`), so one of them
  voted twice and was made to forget. Both layers hold whatever the driver does.
  The third is `Sound => AgreeInv`: agreement as long as terms had one leader and nothing slipped. `Sound` never comes
  back once it is gone (`SoundBefore`), so each step may assume it before and after. `AgreeInv` measures every log
  against `leaderLog`. A log is made of its leaders' (`LogsAreLeaders`): an entry of term `t` is where `t`'s leader has it and
  agrees with that leader below, so equal entries mean equal logs up to there. A node that is counted for an entry the leader
  of `t` appended itself has that entry and all below it (`CopiesKept`), and every leader of a later term has them
  (`LeadersComplete`), unless half the group has left term `t` without being counted (`Blocked`), so that nobody can commit
  it any more. Between the two stands the election: who votes has nothing that the candidate, whose log is the one it told of
  (`Candidates`), lacks (`VotesSafe`), and one of the voters was counted. A commit index is backed by such an entry
  (`CommitsBacked`), and a call carries no more than its leader has and has committed (`FromLeader`). Two nodes' applied
  entries are then both the later leader's. On the receiving side a call may carry several entries: as long as no gap
  appears, the log is kept, cut behind the entries that agree, or extended by the leader's (`CopyTakes`); what counts
  as taken over agrees with the leader (`TakenAgrees`); and a commit index that stays within the call's entries
  reaches no further than what was compared (`CommitAgrees`).

- *PosixNetStreamChannel.* `ChannelInv` joins one invariant for each half of the channel with what `epoll` knows,
  so that an operation is proved once, as a fact about the record of its half (`ReaderInv`, `WriterInv`), and an
  action puts two such facts together. The calls of one operation form a line (`InLine`): the answered ones
  first, in call order, then those in the buffers under way, then the pending ones. A partial read or write
  answers a front part of that line (`Leads`), whichever batch the buffers came from, and so order and "one place
  or one answer" are one argument. For bytes, `Total` counts a sum as the cardinality of a set of cells,
  which turns sums over sequences into facts on finite sets; `Wire` says that a waiting write that was not
  cut has nothing on the wire and its buffer its whole length, that an answered one that was not cut is on the wire
  whole, and that no call has more bytes on the wire than it has. `Noted` holds when no event is pending and is inductive with `Phase`: what `status_` says of the
  connection, and that before it is up nothing waits, nothing has arrived and the send buffer is empty. Room that
  is used up without the kernel having noted it would lose the next edge: hence `WriteNoted` says that a
  kernel that noted nothing has a writer that is ready and has nothing to send.

- *MemoryTable.* The theorems hold for any number of fibers, batches, kills and failures, and wherever a write is cut.
  They ask two things of the encoding, as premises. `LoadsBack`: every batch is read back from its bytes.
  This is not so for a batch with a `Put` before another action, which is the finding of `MemoryTable_batch`.
  `TornIsNoticed`: a body of which only a part is there, followed by zeros and by what the buffer held, fails its checksum.
  That idealises `Crc16`, which has sixteen bits. `MCMemoryTable` has TLC evaluate both for the batches of the run, and the
  first as false for those of `MemoryTable_batch`; that the byte loop of `LoadFrom` has them for every batch would be an
  induction over data. Four layers lie on each other. `Places`: records do not overlap. `Cells`: of every
  record some first cells are in the file and zeros in place of the others, all of them if it is written and
  nothing was cut below; a cell that belongs to no record is zero or starts the stub of one that failed
  (`Ghost`). So a read that starts at a record's place finds that record whole, torn, or gone. `Owners` and `Table` relate
  the records to the fibers and the map: an unacknowledged record has a fiber, and for a key that was never in
  two batches at once the batch still to be applied is the newest. `Restoring` is the invariant of the two loops,
  round by round: while reading is `Going`, what was read is exactly the records below the offset and the buffer
  holds the last of them; once it has `Stopped`, at a point behind which no record is `Firm`, what was read
  besides is empty or repeats the last batch, once, and so leaves the same table. The repetition is real: the length
  of a record is there and nothing else, the buffer still holds the batch before, of the same size, and its checksum
  is right; `GetWriteBatchs` reads it twice. `TableOf` is the map as a function of the set of entries
  read, and `AppendTable` shows that applying one more batch goes from one to the next.

Only model-checked: all liveness (fairness and `ENABLED` are out of the prover's reach) and `LevelTable`. The lock's
`WaitersHaveHolder` is a conjunct of a proved invariant. `LevelTable` computes the durable states of one operation
as a trace, folds over views and recurses through the levels (`AddToComponent`, which takes the tables it merges as
data): what such an operator returns for every input needs an induction over data, and the prover takes no theorem in
a module that declares one. That the bytes of a batch load back is of the same kind.

## 6 Findings

With a run that shows them:

- `WriteBatch::LoadFrom` does not step over a value, so that a batch with anything behind a `Put` is not
  restored (`MemoryTable_batch`; `WriteBatch.cpp:107`).
- A view is put into a component before its id is out of reach of `GcViews`; after a kill in between the id is
  given out twice, and `GetView` answers with the old, cached view (`LevelTable_view`; `LevelTable.cpp:544`).

Seen in the models, or on the way to them; the properties of the runs leave these cases out:

- `EventLoop::Stop` before `Run` has set `running_` is lost, and the loop never ends (`EventLoop.cpp:134`);
  `EventLoopThread.cpp:12` then joins it.
- `Future::Complete` changes its state under its lock and runs the callback after it (`Future.hpp:95`). An awaiter
  that tests the state in between never waits and may destroy the future under the completer.
- A `TimerLoop` that stops itself completes its future before clearing its token; on several threads a
  `Terminate` and `Start` in between are swallowed (`TimerLoop.cpp:40`, `Overtaking`).
- `AsyncSemaphore::Unlock(count)` keeps the futures it has woken when there are more waiters than permits, and
  completes them again later (`AsyncSemaphore.cpp:85`). The branch for fewer waiters takes their number from the
  list after swapping it out, so that all of `count` is added to the counter beside the waiters woken.
- On several threads the last callback of a quorum can complete `finish` before an earlier one has completed
  `continuation`, because the countdown comes before the vote. On one event loop thread it cannot.
- `RaftWrapper`, the exceptions that `ElectionSafety` and `AppliedAgree` name; the run reaches all of them but the
  group of even size.
  A call of `RequestVote` that comes after one of `AppendEntries` of the same term, whose leader's call made the node
  forget its vote (`RaftWrapper.hpp:248`), is granted again, and the term gets a second leader.
  The commit index is cut to the node's last index only (`:295`), not to the entries of the call, so a node applies
  stale entries behind them.
  The entry that conflicts is removed and not put back while the ones behind it are appended (`:276`). A node can then
  hold entries 2 and 3 without entry 1, be elected with that gap, and send 2 and 3 to a node that still has a stale
  entry 1, which is never compared and is applied where others apply another. With a driver that is careful in everything
  else this takes 3 nodes, 5 terms, 3 entries and 42 steps.
  In a group of even size, `members/2` other votes and the candidate's own are only half of the group (`:189`), so two
  candidates can both win a term.
  A driver that commits an entry of an older term, or one that no majority has, is not stopped (`:433`); that
  is Raft's rule and no comment of the class states it.
- `MemoryTable`: two writers of one key may be logged in one order and applied in the other
  (`MemoryTable.hpp:249`); a failed write cuts batches off that later writers have logged already
  (`BinaryLogger.cpp:42`); `Clear` keeps the offset, so that the next batch is behind a hole of zeros
  (`BinaryLogger.cpp:26`).
- `LevelTable`: tables written in ascending order of keys are combined by a loop that never moves on, under the
  write lock (`SortedStringTableBuilder.hpp:233`); a merge in which every key is deleted asks an empty block for
  its last key.
- `PosixNetStreamChannel`: an end of stream that came with the last bytes of a short read is forgotten, and the
  next read waits for ever; a read that was called while an earlier batch waited is not tried when that batch is
  just filled, though bytes are there (`PosixNetStreamChannel.cpp:59`); an accept that meets an aborted
  connection takes it for an empty queue and leaves the next connection waiting (`:41`); a poll is answered at once by
  a flag that says no more than that the last read did not block. After a partial write the rest is sent from an
  address made of the length (`PosixIoWriter.cpp:60`), which fails or sends bytes of something else, and
  the write reports the length of its rest only (`NetworkTest.cpp:30` expects the whole); `WritesInOrder` says nothing of
  a write that was cut, except that it is answered in its turn and its own bytes keep their order. `RequestSendFile` adds the
  rounding of the length to the address where it means that of the offset (`PosixNetStreamChannel.cpp:267-285`).

## 7 What is not modelled

`PROJECT.json` has the status of every component. The modules stand for a few per cent of the repository's lines,
and cannot stand for most of them: a third is the vendored llhttp, and much of the rest the Windows backends, HTTP,
DNS and console code, plain data types, serialisation and parsers, which are sequential, wrap system calls or are
generated. What is left without a model and has state worth one is in 8.

Left out of modelled components: exceptions other than `Fail`, `Reset` and blocking `Wait` of futures,
allocation failures, move construction, the dispatch of events to several channels, spurious lock failures of the
`Try` operations (they change nothing). Of `RaftWrapper`, `InstallSnapshot`, members that change and the apply
policy that skips lost entries. Of `LevelTable`, an exception out of a flush, the first creation of the manifest
(a kill between its first `Put`s leaves a manifest the constructor does not expect), `Destory`, range queries and
the encoding of sorted files. Of the channel, `SendFileAsync`, a `connect` that
succeeds at once (a non-blocking one over TCP answers `EINPROGRESS` on Linux), buffers of no bytes, closing with calls outstanding
and the descriptor of a registered but unconnected socket on other systems than Linux.

Abstractions. Spin-locked sections are single steps, and memory is sequentially consistent: the atomics are used
with their default order. A write to a file is durable when it was made. The driver and the storage of a Raft
node, the kernel and the peer are modelled from how the code uses them, and are marked external in `map`.

## 8 What could come next

1. **BalancedTable and FileMemory**: allocation of blocks, splits and the order of their writes.
2. **IoUringQueue** with the file channels: the overflow queues at their limits, short transfers.
3. `AsyncBarrier`, `TimeWheel`, `ParallelFor` and the caches, as small modules.
4. **EventEngine start and stop**, composing `EventLoop` with the threads that run it.
5. Proofs about `LevelTable`, with the merges as maps from keys to values instead of a recursion, and an abstract
   store that both it and `MemoryTable` implement.
