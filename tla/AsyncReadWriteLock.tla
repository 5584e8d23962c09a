------------------------- MODULE AsyncReadWriteLock -------------------------
(***************************************************************************)
(* sharpen::AsyncReadWriteLock (src/AsyncReadWriteLock.cpp).               *)
(*                                                                         *)
(* Every operation is one critical section of a spin lock.  A fiber that   *)
(* cannot get the lock leaves its future in a list and awaits it; whoever  *)
(* releases the lock gives it to waiters in its own critical section,      *)
(* before they know, and completes their futures afterwards, outside it.   *)
(* Between the two the lock is held by fibers that are still asleep.       *)
(***************************************************************************)
EXTENDS Naturals, Sequences, FiniteSets

CONSTANTS
  Fibers,
  Calls       \* bound: how often a fiber asks for the lock

ASSUME Assumption == IsFiniteSet(Fibers) /\ Calls \in Nat

VARIABLES
  state,          \* state_
  readers,        \* readers_
  readWaiters,    \* readWaiters_; it is only ever taken as a whole
  writeWaiters,   \* writeWaiters_, a vector used as a stack, its back first
  pc,             \* what each fiber holds or waits for
  waking,         \* the futures each fiber took out and has yet to complete
  calls           \* how often each fiber may still ask for the lock

vars == <<state, readers, readWaiters, writeWaiters, pc, waking, calls>>

States == {"Free", "SharedReading", "UniquedWriting"}
Pcs == {"idle", "waitRead", "waitWrite", "reading", "writing"}

TypeOK ==
  /\ state \in States
  /\ readers \in Nat
  /\ readWaiters \in SUBSET Fibers
  /\ writeWaiters \in Seq(Fibers)
  /\ pc \in [Fibers -> Pcs]
  /\ waking \in [Fibers -> SUBSET Fibers]
  /\ calls \in [Fibers -> 0..Calls]

Init ==
  /\ state = "Free"
  /\ readers = 0
  /\ readWaiters = {}
  /\ writeWaiters = <<>>
  /\ pc = [f \in Fibers |-> "idle"]
  /\ waking = [f \in Fibers |-> {}]
  /\ calls = [f \in Fibers |-> Calls]

----------------------------------------------------------------------------
(* A fiber calls again only when it has completed all it took out. *)
At(f, p) == pc[f] = p /\ waking[f] = {}

Asks(f) ==
  /\ At(f, "idle")
  /\ calls[f] > 0
  /\ calls' = [calls EXCEPT ![f] = @ - 1]

Goto(f, p) == pc' = [pc EXCEPT ![f] = p]

(* The locked part of LockRead and TryLockRead when no writer has the lock.*)
ShareRead(f) ==
  /\ Asks(f)
  /\ state # "UniquedWriting"
  /\ readers' = readers + 1
  /\ state' = "SharedReading"
  /\ Goto(f, "reading")
  /\ UNCHANGED <<readWaiters, writeWaiters, waking>>

AwaitRead(f) ==
  /\ Asks(f)
  /\ state = "UniquedWriting"
  /\ readWaiters' = readWaiters \cup {f}
  /\ Goto(f, "waitRead")
  /\ UNCHANGED <<state, readers, writeWaiters, waking>>

LockRead(f) == ShareRead(f) \/ AwaitRead(f)

TryLockRead(f) == ShareRead(f)

(* Mutant: a writer is let in beside readers. *)
TakeWriteUnlessWriting(f) ==
  /\ Asks(f)
  /\ state # "UniquedWriting"
  /\ state' = "UniquedWriting"
  /\ Goto(f, "writing")
  /\ UNCHANGED <<readers, readWaiters, writeWaiters, waking>>

TakeWrite(f) ==
  /\ Asks(f)
  /\ state = "Free"
  /\ state' = "UniquedWriting"
  /\ Goto(f, "writing")
  /\ UNCHANGED <<readers, readWaiters, writeWaiters, waking>>

AwaitWrite(f) ==
  /\ Asks(f)
  /\ state # "Free"
  /\ writeWaiters' = <<f>> \o writeWaiters
  /\ Goto(f, "waitWrite")
  /\ UNCHANGED <<state, readers, readWaiters, waking>>

LockWrite(f) == TakeWrite(f) \/ AwaitWrite(f)

(* It also fails, and changes nothing, when it misses the spin lock. *)
TryLockWrite(f) == TakeWrite(f)

----------------------------------------------------------------------------
(* The last waiting writer is given the lock; f will complete its future.  *)
GrantWriter(f) ==
  /\ writeWaiters # <<>>
  /\ writeWaiters' = Tail(writeWaiters)
  /\ waking' = [waking EXCEPT ![f] = {Head(writeWaiters)}]
  /\ state' = "UniquedWriting"
  /\ UNCHANGED readWaiters

(* WriteUnlock: a writer first, otherwise all the readers that wait. *)
WriteUnlock(f) ==
  /\ At(f, "writing")
  /\ Goto(f, "idle")
  /\ \/ GrantWriter(f) /\ UNCHANGED readers
     \/ /\ writeWaiters = <<>> /\ readWaiters # {}
        /\ readers' = Cardinality(readWaiters)
        /\ state' = "SharedReading"
        /\ waking' = [waking EXCEPT ![f] = readWaiters]
        /\ readWaiters' = {}
        /\ UNCHANGED writeWaiters
     \/ /\ writeWaiters = <<>> /\ readWaiters = {}
        /\ state' = "Free"
        /\ UNCHANGED <<readers, readWaiters, writeWaiters, waking>>
  /\ UNCHANGED calls

(* Mutant: the last reader frees the lock although a writer waits. *)
ReadUnlockForgetsWriters(f) ==
  /\ At(f, "reading")
  /\ Goto(f, "idle")
  /\ readers' = readers - 1
  /\ state' = IF readers = 1 THEN "Free" ELSE state
  /\ UNCHANGED <<readWaiters, writeWaiters, waking, calls>>

(* ReadUnlock: the last reader gives the lock to a writer that waits. *)
ReadUnlock(f) ==
  /\ At(f, "reading")
  /\ Goto(f, "idle")
  /\ readers' = readers - 1
  /\ \/ readers' # 0 /\ UNCHANGED <<state, readWaiters, writeWaiters, waking>>
     \/ readers' = 0 /\ GrantWriter(f)
     \/ /\ readers' = 0 /\ writeWaiters = <<>>
        /\ state' = "Free"
        /\ UNCHANGED <<readWaiters, writeWaiters, waking>>
  /\ UNCHANGED calls

(* Mutant: an upgrade that does not give its read share back. *)
UpgradeKeepsShare(f) ==
  /\ At(f, "reading")
  /\ \/ /\ readers = 1
        /\ readers' = 0
        /\ state' = "UniquedWriting"
        /\ Goto(f, "writing")
        /\ UNCHANGED writeWaiters
     \/ /\ readers # 1
        /\ writeWaiters' = <<f>> \o writeWaiters
        /\ Goto(f, "waitWrite")
        /\ UNCHANGED <<state, readers>>
  /\ UNCHANGED <<readWaiters, waking, calls>>

(* UpgradeFromRead gives the read share back in any case: with other       *)
(* readers inside, the fiber waits for the lock like any writer.           *)
UpgradeFromRead(f) ==
  /\ At(f, "reading")
  /\ readers' = readers - 1
  /\ \/ /\ readers' = 0
        /\ state' = "UniquedWriting"
        /\ Goto(f, "writing")
        /\ UNCHANGED writeWaiters
     \/ /\ readers' # 0
        /\ writeWaiters' = <<f>> \o writeWaiters
        /\ Goto(f, "waitWrite")
        /\ UNCHANGED state
  /\ UNCHANGED <<readWaiters, waking, calls>>

(* DowngradeFromWrite lets in all the readers that wait. *)
DowngradeFromWrite(f) ==
  /\ At(f, "writing")
  /\ Goto(f, "reading")
  /\ readers' = 1 + Cardinality(readWaiters)
  /\ waking' = [waking EXCEPT ![f] = readWaiters]
  /\ readWaiters' = {}
  /\ state' = "SharedReading"
  /\ UNCHANGED <<writeWaiters, calls>>

(* Outside the critical section: f completes the future of g. *)
Complete(f, g) ==
  /\ g \in waking[f]
  /\ waking' = [waking EXCEPT ![f] = @ \ {g}]
  /\ Goto(g, IF pc[g] = "waitRead" THEN "reading" ELSE "writing")
  /\ UNCHANGED <<state, readers, readWaiters, writeWaiters, calls>>

----------------------------------------------------------------------------
(* Unlock reads the state without the spin lock to see what to release. *)
Unlock(f) ==
  \/ state = "UniquedWriting" /\ WriteUnlock(f)
  \/ state = "SharedReading" /\ ReadUnlock(f)

Next ==
  \E f \in Fibers :
    \/ LockRead(f) \/ TryLockRead(f)
    \/ LockWrite(f) \/ TryLockWrite(f)
    \/ Unlock(f) \/ UpgradeFromRead(f) \/ DowngradeFromWrite(f)
    \/ \E g \in Fibers : Complete(f, g)

Spec == Init /\ [][Next]_vars

(* A fiber that holds the lock releases it some time, and one that has     *)
(* taken futures out completes them.                                       *)
Fairness ==
  \A f \in Fibers :
    /\ WF_vars(Unlock(f))
    /\ \A g \in Fibers : WF_vars(Complete(f, g))

LiveSpec == Spec /\ Fairness

----------------------------------------------------------------------------
(* Granted: a fiber still asleep that already has the lock. *)
Granted(g) == \E f \in Fibers : g \in waking[f]

ReadHolders ==
  {f \in Fibers : pc[f] = "reading" \/ (pc[f] = "waitRead" /\ Granted(f))}
WriteHolders ==
  {f \in Fibers : pc[f] = "writing" \/ (pc[f] = "waitWrite" /\ Granted(f))}

(* The fields say who holds the lock, those still asleep included: the     *)
(* count is exact, and a writer is never given the lock beside anyone.     *)
FieldsMatchHolders ==
  /\ readers = Cardinality(ReadHolders)
  /\ state = "Free" => WriteHolders = {} /\ ReadHolders = {}
  /\ state = "SharedReading" => WriteHolders = {} /\ ReadHolders # {}
  /\ state = "UniquedWriting" =>
       ReadHolders = {} /\ \E f \in Fibers : WriteHolders = {f}

(* Nobody waits for a lock that nobody will release: a reader waits only   *)
(* behind a writer, a writer only behind a holder.                         *)
WaitersHaveHolder ==
  /\ readWaiters # {} => state = "UniquedWriting"
  /\ writeWaiters # <<>> => state # "Free"

(* A fiber waits in one list, once, or is granted by one other; otherwise  *)
(* its future would be completed twice, the second time after it is gone.  *)
ListedWriters == {writeWaiters[i] : i \in DOMAIN writeWaiters}

WaitsOnce ==
  /\ \A i, j \in DOMAIN writeWaiters :
       writeWaiters[i] = writeWaiters[j] => i = j
  /\ \A f, g, h \in Fibers : h \in waking[f] /\ h \in waking[g] => f = g
  /\ \A f \in Fibers :
       /\ f \in readWaiters => pc[f] = "waitRead" /\ ~Granted(f)
       /\ f \in ListedWriters => pc[f] = "waitWrite" /\ ~Granted(f)
       /\ Granted(f) => pc[f] \in {"waitRead", "waitWrite"}
       /\ pc[f] = "waitRead" => f \in readWaiters \/ Granted(f)
       /\ pc[f] = "waitWrite" => f \in ListedWriters \/ Granted(f)

IInv == TypeOK /\ FieldsMatchHolders /\ WaitersHaveHolder /\ WaitsOnce

(* Seen by the fibers that have returned from their calls, it is a lock.   *)
Abstract == INSTANCE ReadWriteLock
  WITH readers <- {f \in Fibers : pc[f] = "reading"},
       writers <- {f \in Fibers : pc[f] = "writing"}
ImplementsReadWriteLock == Abstract!Spec

(* When fibers ask for the lock finitely often, every one gets it. *)
WaiterServed ==
  \A f \in Fibers :
    /\ pc[f] = "waitRead" ~> pc[f] = "reading"
    /\ pc[f] = "waitWrite" ~> pc[f] = "writing"

============================================================================
