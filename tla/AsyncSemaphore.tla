--------------------------- MODULE AsyncSemaphore ---------------------------
(***************************************************************************)
(* sharpen::AsyncSemaphore (src/AsyncSemaphore.cpp).                       *)
(*                                                                         *)
(* A permit is given either to the counter or to a fiber that waits, whose *)
(* future is then completed outside the spin lock.  The futures live in    *)
(* the frames of LockAsync: one that is completed a second time is gone,   *)
(* or is the future of the fiber's next call, at the same address.         *)
(***************************************************************************)
EXTENDS Naturals, Sequences, FiniteSets

CONSTANTS
  Fibers,     \* they take permits and give them back one by one
  Poster,     \* whoever gives several permits at once
  Permits,    \* the initial count
  Batches,    \* the arguments of Unlock(count)
  Calls,      \* bound: how often a fiber asks for a permit
  Posts       \* bound: how often Unlock(count) is called

ASSUME Assumption ==
  /\ IsFiniteSet(Fibers) /\ Poster \notin Fibers
  /\ Permits \in Nat /\ Calls \in Nat /\ Posts \in Nat
  /\ Batches \subseteq Nat

VARIABLES
  counter,    \* counter_
  waiters,    \* waiters_: the futures, each the n-th call of its fiber
  pc,         \* what each fiber does
  call,       \* how many calls each fiber has made
  waking,     \* the futures each actor has taken and will complete, in order
  posts,      \* how often Unlock(count) was called
  released,   \* history: the permits given back
  acquired    \* history: the permits fibers have returned with

vars == <<counter, waiters, pc, call, waking, posts, released, acquired>>

Actors == Fibers \cup {Poster}
FutureSet == [fiber : Fibers, call : 1..Calls]

TypeOK ==
  /\ counter \in Nat
  /\ waiters \in Seq(FutureSet)
  /\ pc \in [Fibers -> {"idle", "waiting", "holding"}]
  /\ call \in [Fibers -> 0..Calls]
  /\ waking \in [Actors -> Seq(FutureSet)]
  /\ posts \in 0..Posts
  /\ released \in Nat /\ acquired \in Nat

Init ==
  /\ counter = Permits
  /\ waiters = <<>>
  /\ pc = [f \in Fibers |-> "idle"]
  /\ call = [f \in Fibers |-> 0]
  /\ waking = [a \in Actors |-> <<>>]
  /\ posts = 0 /\ released = 0 /\ acquired = 0

----------------------------------------------------------------------------
Asks(f) ==
  /\ pc[f] = "idle" /\ waking[f] = <<>>
  /\ call[f] < Calls
  /\ call' = [call EXCEPT ![f] = @ + 1]
  /\ UNCHANGED <<waking, posts, released>>

Take(f) ==
  /\ Asks(f)
  /\ counter # 0
  /\ counter' = counter - 1
  /\ pc' = [pc EXCEPT ![f] = "holding"]
  /\ acquired' = acquired + 1
  /\ UNCHANGED waiters

Await(f) ==
  /\ Asks(f)
  /\ counter = 0
  /\ waiters' = Append(waiters, [fiber |-> f, call |-> call'[f]])
  /\ pc' = [pc EXCEPT ![f] = "waiting"]
  /\ UNCHANGED <<counter, acquired>>

LockAsync(f) == Take(f) \/ Await(f)

TryLock(f) == Take(f)

----------------------------------------------------------------------------
(* Mutants: a permit goes to the counter although a fiber waits; the one   *)
(* that is woken stays in the list.                                        *)
GiveToCounter(a) ==
  /\ counter' = counter + 1
  /\ UNCHANGED <<waiters, waking>>

GiveAndKeep(a) ==
  \/ /\ waiters = <<>>
     /\ counter' = counter + 1
     /\ UNCHANGED <<waiters, waking>>
  \/ /\ waiters # <<>>
     /\ waking' = [waking EXCEPT ![a] = <<waiters[Len(waiters)]>>]
     /\ UNCHANGED <<counter, waiters>>

(* One permit: to the fiber that waits for the shortest time, if any. *)
Give(a) ==
  \/ /\ waiters = <<>>
     /\ counter' = counter + 1
     /\ UNCHANGED <<waiters, waking>>
  \/ /\ waiters # <<>>
     /\ waking' = [waking EXCEPT ![a] = <<waiters[Len(waiters)]>>]
     /\ waiters' = SubSeq(waiters, 1, Len(waiters) - 1)
     /\ UNCHANGED counter

Unlock(f) ==
  /\ pc[f] = "holding" /\ waking[f] = <<>>
  /\ pc' = [pc EXCEPT ![f] = "idle"]
  /\ Give(f)
  /\ released' = released + 1
  /\ UNCHANGED <<call, posts, acquired>>

(* Mutant: a batch is given to all although it is too small for them. *)
GiveAllAnyway(n) ==
  /\ waiters # <<>>
  /\ waiters' = <<>>
  /\ counter' = counter + (n - Len(waiters))
  /\ waking' = [waking EXCEPT ![Poster] = waiters]

(* A batch for all that wait.  The list is swapped out before its length   *)
(* is taken from the count.                                                *)
GiveAll(n) ==
  /\ waiters # <<>> /\ n >= Len(waiters)
  /\ waiters' = <<>>
  /\ counter' = counter + (n - Len(waiters'))
  /\ waking' = [waking EXCEPT ![Poster] = waiters]

(* A batch for the oldest of them, who stay in the list. *)
GiveSome(n) ==
  /\ n < Len(waiters)
  /\ waking' = [waking EXCEPT ![Poster] = SubSeq(waiters, 1, n)]
  /\ UNCHANGED <<counter, waiters>>

(* Unlock(count). *)
UnlockMany(n) ==
  /\ posts < Posts /\ waking[Poster] = <<>>
  /\ \/ waiters = <<>> /\ counter' = counter + n /\ UNCHANGED <<waiters, waking>>
     \/ GiveAll(n)
     \/ GiveSome(n)
  /\ posts' = posts + 1
  /\ released' = released + n
  /\ UNCHANGED <<pc, call, acquired>>

----------------------------------------------------------------------------
Live(x) == pc[x.fiber] = "waiting" /\ call[x.fiber] = x.call

Wakes(f) ==
  /\ pc' = [pc EXCEPT ![f] = "holding"]
  /\ acquired' = acquired + 1

(* Outside the spin lock, the next future is completed.  One whose fiber   *)
(* has returned is memory of a dead frame: nothing happens, or the fiber's *)
(* next call has its future there.                                         *)
Complete(a) ==
  /\ waking[a] # <<>>
  /\ waking' = [waking EXCEPT ![a] = Tail(@)]
  /\ LET x == Head(waking[a])
     IN  \/ Live(x) /\ Wakes(x.fiber)
         \/ ~Live(x) /\ pc[x.fiber] = "waiting" /\ Wakes(x.fiber)
         \/ ~Live(x) /\ UNCHANGED <<pc, acquired>>
  /\ UNCHANGED <<counter, waiters, call, posts, released>>

Next ==
  \/ \E f \in Fibers : LockAsync(f) \/ TryLock(f) \/ Unlock(f)
  \/ \E n \in Batches : UnlockMany(n)
  \/ \E a \in Actors : Complete(a)

Spec == Init /\ [][Next]_vars

(* A permit holder gives it back, and a caller completes what it took. *)
Fairness ==
  /\ \A f \in Fibers : WF_vars(Unlock(f))
  /\ \A a \in Actors : WF_vars(Complete(a))

LiveSpec == Spec /\ Fairness

----------------------------------------------------------------------------
(* The permits on their way to a fiber that sleeps. *)
Granted ==
  {x \in FutureSet : \E a \in Actors : \E i \in DOMAIN waking[a] :
                       waking[a][i] = x}

(* No permit is made or lost: what was given back and not yet taken is in  *)
(* the counter or on its way, exactly once.                                *)
PermitsConserved ==
  counter + Cardinality(Granted) + acquired = Permits + released

(* A fiber waits only while there is no permit to take. *)
NoIdlePermit == waiters # <<>> => counter = 0

(* A future in the list or on its way to completion is that of a call that *)
(* still waits; it is there once.                                          *)
NoStaleWaiter ==
  /\ \A i, j \in DOMAIN waiters : waiters[i] = waiters[j] => i = j
  /\ \A i \in DOMAIN waiters : Live(waiters[i]) /\ waiters[i] \notin Granted
  /\ \A x \in Granted : Live(x)

(* As long as permits are given back one by one.  Unlock(count) breaks     *)
(* both, see PermitsConserved and NoStaleWaiter.                           *)
SinglesConservePermits == posts = 0 => PermitsConserved /\ NoStaleWaiter

(* A fiber that waits gets a permit, when those who hold permits give them *)
(* back one by one and the fibers ask finitely often.                      *)
WaiterServed ==
  \A f \in Fibers : pc[f] = "waiting" ~> pc[f] = "holding" \/ posts > 0

============================================================================
