-------------------------- MODULE AwaitableFuture --------------------------
(***************************************************************************)
(* Fibers that await futures on the workers of an EventEngine, and whoever *)
(* completes those futures (AwaitableFuture.hpp, Future.hpp,               *)
(* EventEngine.cpp, Fiber.cpp).                                            *)
(*                                                                         *)
(* A fiber that finds its future pending cannot publish itself: another    *)
(* worker could then switch to it before its context is saved.  It leaves  *)
(* a switch callback instead, which the worker's own fiber runs after the  *)
(* switch, and which looks at the future again under its lock.  A          *)
(* completer changes the state under the lock and takes the awaiter under  *)
(* the lock a second time.  The module asks whether a fiber can be lost,   *)
(* or be in two hands, between those four steps.                           *)
(*                                                                         *)
(* The queue of a loop is the abstract TaskQueue that EventLoop implements,*)
(* here a set because only fibers are in it.                               *)
(***************************************************************************)
CONSTANTS
  Fibers,     \* the fibers
  Workers,    \* the threads of the engine; also names a worker's own fiber
  Drivers,    \* threads outside the engine that complete futures
  Futures,    \* every await uses a future of its own
  NoFiber,
  NoFuture

Actors == Fibers \cup Workers \cup Drivers

ASSUME Assumption ==
  /\ NoFiber \notin Fibers
  /\ NoFuture \notin Futures
  /\ Fibers \cap (Workers \cup Drivers) = {}
  /\ Workers \cap Drivers = {}

VARIABLES
  state,          \* state_ of each future
  pendingFiber,   \* pendingFiber_ of each future
  awaiter,        \* awaiter_ of each future
  released,       \* the futures whose awaiter has returned from Await
  pc,             \* where each fiber is
  mine,           \* the future a fiber awaits
  running,        \* the fiber a worker runs, NoFiber for the worker's own
  switchCb,       \* switchCb_ of a worker, as the future it is bound to
  queue,          \* the fibers scheduled on a worker's loop
  notifying,      \* the future whose completion an actor is announcing
  handing         \* the fiber an actor has taken from it, to schedule it

vars == <<state, pendingFiber, awaiter, released, pc, mine, running,
          switchCb, queue, notifying, handing>>
futureVars == <<state, pendingFiber, awaiter, released>>
workerVars == <<running, switchCb, queue>>
callVars == <<notifying, handing>>

States == {"unused", "pending", "completed", "error"}
Pcs == {"run", "check", "leave", "away", "back", "finished"}

TypeOK ==
  /\ state \in [Futures -> States]
  /\ pendingFiber \in [Futures -> Fibers \cup {NoFiber}]
  /\ awaiter \in [Futures -> Fibers \cup {NoFiber}]
  /\ released \in SUBSET Futures
  /\ pc \in [Fibers -> Pcs]
  /\ mine \in [Fibers -> Futures \cup {NoFuture}]
  /\ running \in [Workers -> Fibers \cup {NoFiber}]
  /\ switchCb \in [Workers -> Futures \cup {NoFuture}]
  /\ queue \in [Workers -> SUBSET Fibers]
  /\ notifying \in [Actors -> Futures \cup {NoFuture}]
  /\ handing \in [Actors -> Fibers \cup {NoFiber}]

Settled(x) == state[x] \in {"completed", "error"}

(* Launch has scheduled every fiber on some loop. *)
Init ==
  /\ state = [x \in Futures |-> "unused"]
  /\ pendingFiber = [x \in Futures |-> NoFiber]
  /\ awaiter = [x \in Futures |-> NoFiber]
  /\ released = {}
  /\ pc = [f \in Fibers |-> "run"]
  /\ mine = [f \in Fibers |-> NoFuture]
  /\ running = [w \in Workers |-> NoFiber]
  /\ switchCb = [w \in Workers |-> NoFuture]
  /\ \E loop \in [Fibers -> Workers] :
       queue = [w \in Workers |-> {f \in Fibers : loop[f] = w}]
  /\ notifying = [a \in Actors |-> NoFuture]
  /\ handing = [a \in Actors |-> NoFiber]

----------------------------------------------------------------------------
(* What a worker's own fiber does. *)

NotCalling(a) == notifying[a] = NoFuture /\ handing[a] = NoFiber

InLoop(w) == running[w] = NoFiber /\ switchCb[w] = NoFuture /\ NotCalling(w)

(* The loop runs a scheduled fiber: ProcessFiber switches to it. *)
ProcessFiber(w, f) ==
  /\ InLoop(w)
  /\ f \in queue[w]
  /\ queue' = [queue EXCEPT ![w] = @ \ {f}]
  /\ running' = [running EXCEPT ![w] = f]
  /\ pc' = [pc EXCEPT ![f] = IF mine[f] = NoFuture THEN "run" ELSE "back"]
  /\ UNCHANGED <<futureVars, mine, switchCb, callVars>>

(* The second look at the future, under its lock.                         *)
LooksPending(x) == TRUE     \* mutant: no second look
StillPending(x) == ~Settled(x)

(* CallSwitchCallback runs NotifyIfCompleted after the fiber has left.  A  *)
(* future still pending keeps its awaiter; on a settled one the worker's   *)
(* own fiber schedules the fiber, which Schedule runs at once.             *)
NotifyIfCompleted(w) ==
  /\ running[w] = NoFiber /\ switchCb[w] # NoFuture
  /\ LET x == switchCb[w]
         f == pendingFiber[x]
     IN  /\ pendingFiber' = [pendingFiber EXCEPT ![x] = NoFiber]
         /\ \/ /\ StillPending(x)
               /\ awaiter' = [awaiter EXCEPT ![x] = f]
               /\ UNCHANGED <<running, pc>>
            \/ /\ ~StillPending(x)
               /\ running' = [running EXCEPT ![w] = f]
               /\ pc' = [pc EXCEPT ![f] = "back"]
               /\ UNCHANGED awaiter
  /\ switchCb' = [switchCb EXCEPT ![w] = NoFuture]
  /\ UNCHANGED <<state, released, mine, queue, callVars>>

----------------------------------------------------------------------------
(* What a fiber does. *)

Running(f) == \E w \in Workers : running[w] = f

(* It starts an operation that will complete a new future. *)
NewFuture(f, x) ==
  /\ pc[f] = "run" /\ Running(f) /\ NotCalling(f)
  /\ state[x] = "unused"
  /\ state' = [state EXCEPT ![x] = "pending"]
  /\ mine' = [mine EXCEPT ![f] = x]
  /\ pc' = [pc EXCEPT ![f] = "check"]
  /\ UNCHANGED <<pendingFiber, awaiter, released, workerVars, callVars>>

(* WaitAsync reads the state without the lock. *)
IsPending(f) ==
  /\ pc[f] = "check"
  /\ ~Settled(mine[f])
  /\ pc' = [pc EXCEPT ![f] = "leave"]
  /\ UNCHANGED <<futureVars, mine, workerVars, callVars>>

(* Await returns the result, at once or after the fiber was resumed; while *)
(* the future is pending Get would block.  A future of the caller's frame  *)
(* ends here.                                                              *)
Get(f) ==
  /\ pc[f] \in {"check", "back"}
  /\ Settled(mine[f])
  /\ released' = released \cup {mine[f]}
  /\ mine' = [mine EXCEPT ![f] = NoFuture]
  /\ pc' = [pc EXCEPT ![f] = "run"]
  /\ UNCHANGED <<state, pendingFiber, awaiter, workerVars, callVars>>

(* Mutant: the awaiter is published before the fiber has left. *)
LeaveEarly(f, w) ==
  /\ pc[f] = "leave" /\ running[w] = f
  /\ awaiter' = [awaiter EXCEPT ![mine[f]] = f]
  /\ pendingFiber' = [pendingFiber EXCEPT ![mine[f]] = f]
  /\ switchCb' = [switchCb EXCEPT ![w] = mine[f]]
  /\ running' = [running EXCEPT ![w] = NoFiber]
  /\ pc' = [pc EXCEPT ![f] = "away"]
  /\ UNCHANGED <<state, released, mine, queue, callVars>>

(* SetSwitchCallback and SwitchToProcesserFiber. *)
SwitchToProcesserFiber(f, w) ==
  /\ pc[f] = "leave" /\ running[w] = f
  /\ pendingFiber' = [pendingFiber EXCEPT ![mine[f]] = f]
  /\ switchCb' = [switchCb EXCEPT ![w] = mine[f]]
  /\ running' = [running EXCEPT ![w] = NoFiber]
  /\ pc' = [pc EXCEPT ![f] = "away"]
  /\ UNCHANGED <<state, awaiter, released, mine, queue, callVars>>

(* The fiber's function returns: FiberEntry switches to the worker. *)
FiberEntryEnds(f, w) ==
  /\ pc[f] = "run" /\ running[w] = f /\ NotCalling(f)
  /\ running' = [running EXCEPT ![w] = NoFiber]
  /\ pc' = [pc EXCEPT ![f] = "finished"]
  /\ UNCHANGED <<futureVars, mine, switchCb, queue, callVars>>

----------------------------------------------------------------------------
(* What a completer does: a fiber, a handler on a worker's own fiber, or a *)
(* thread outside the engine.                                              *)

MayComplete(a) ==
  /\ NotCalling(a)
  /\ a \in Fibers => pc[a] = "run" /\ Running(a)
  /\ a \in Workers => InLoop(a)

Settle(a, x, outcome) ==
  /\ MayComplete(a)
  /\ state' = [state EXCEPT ![x] = outcome]
  /\ notifying' = [notifying EXCEPT ![a] = x]
  /\ UNCHANGED <<pendingFiber, awaiter, released, pc, mine, workerVars,
                 handing>>

(* Under the lock; a second Complete returns at once. *)
Complete(a, x) == state[x] = "pending" /\ Settle(a, x, "completed")

(* Fail does not look at the state: it may override a result, and announce *)
(* a second time, until the awaiter has returned (RunAndSetFuture, when a  *)
(* callback of Complete throws).  A future is failed once.                 *)
Fail(a, x) ==
  /\ state[x] \in {"pending", "completed"} /\ x \notin released
  /\ Settle(a, x, "error")

(* Mutant: the awaiter is left in place when it is taken. *)
NotifyAwaiterCopies(a) ==
  /\ notifying[a] # NoFuture
  /\ handing' = [handing EXCEPT ![a] = awaiter[notifying[a]]]
  /\ notifying' = [notifying EXCEPT ![a] = NoFuture]
  /\ UNCHANGED <<futureVars, pc, mine, workerVars>>

(* ExecuteCallback: wake blocked threads, run the callback, then take the  *)
(* awaiter under the lock.                                                 *)
NotifyAwaiter(a) ==
  /\ notifying[a] # NoFuture
  /\ LET x == notifying[a]
     IN  /\ handing' = [handing EXCEPT ![a] = awaiter[x]]
         /\ awaiter' = [awaiter EXCEPT ![x] = NoFiber]
  /\ notifying' = [notifying EXCEPT ![a] = NoFuture]
  /\ UNCHANGED <<state, pendingFiber, released, pc, mine, workerVars>>

(* Schedule: a worker's own fiber switches to the fiber at once, any other *)
(* caller queues it on a waiting loop or on the next one in turn.          *)
Schedule(a) ==
  /\ handing[a] # NoFiber
  /\ LET f == handing[a]
     IN  \/ /\ a \in Workers
            /\ running' = [running EXCEPT ![a] = f]
            /\ pc' = [pc EXCEPT ![f] = "back"]
            /\ UNCHANGED queue
         \/ /\ a \notin Workers
            /\ \E w \in Workers :
                 queue' = [queue EXCEPT ![w] = @ \cup {f}]
            /\ UNCHANGED <<running, pc>>
  /\ handing' = [handing EXCEPT ![a] = NoFiber]
  /\ UNCHANGED <<futureVars, mine, switchCb, notifying>>

----------------------------------------------------------------------------
FiberStep(f) ==
  \/ \E x \in Futures : NewFuture(f, x)
  \/ IsPending(f) \/ Get(f)
  \/ \E w \in Workers : SwitchToProcesserFiber(f, w) \/ FiberEntryEnds(f, w)

WorkerStep(w) ==
  \/ \E f \in Fibers : ProcessFiber(w, f)
  \/ NotifyIfCompleted(w)

Announce(a) == NotifyAwaiter(a) \/ Schedule(a)

Next ==
  \/ \E f \in Fibers : FiberStep(f)
  \/ \E w \in Workers : WorkerStep(w)
  \/ \E a \in Actors : Announce(a)
  \/ \E a \in Actors, x \in Futures : Complete(a, x) \/ Fail(a, x)

Spec == Init /\ [][Next]_vars

(* Threads are scheduled: a fiber that runs goes on to its next await or   *)
(* its end, a worker in its loop takes the next task, and a completer      *)
(* finishes the call.  Nothing makes anyone complete a future.             *)
Fairness ==
  /\ \A f \in Fibers : WF_vars(FiberStep(f))
  /\ \A w \in Workers : WF_vars(NotifyIfCompleted(w))
  /\ \A w \in Workers, f \in Fibers : SF_vars(ProcessFiber(w, f))
  /\ \A a \in Actors : WF_vars(Announce(a))

LiveSpec == Spec /\ Fairness

----------------------------------------------------------------------------
(* Where a fiber can be.  It is in exactly one of these places at a time:  *)
(* on a worker, queued on a loop, behind a switch callback, waiting in its *)
(* future, or in the hands of a completer.                                 *)
Places(f) ==
  {<<"worker", w>> : w \in {w \in Workers : running[w] = f}} \cup
  {<<"loop", w>> : w \in {w \in Workers : f \in queue[w]}} \cup
  {<<"switch", x>> : x \in {x \in Futures : pendingFiber[x] = f}} \cup
  {<<"future", x>> : x \in {x \in Futures : awaiter[x] = f}} \cup
  {<<"caller", a>> : a \in {a \in Actors : handing[a] = f}}

(* A fiber is never lost and never given to two workers, whatever the      *)
(* order in which it leaves its worker and its future is completed.        *)
FiberInOnePlace ==
  \A f \in Fibers :
    /\ pc[f] # "finished" => Places(f) # {}
    /\ \A p, q \in Places(f) : p = q

(* No fiber waits in a future that is settled, unless the completer has    *)
(* still to take it from there: the second look under the lock closes the  *)
(* window between the unlocked test and the switch.                        *)
NoLostResume ==
  \A x \in Futures :
    awaiter[x] # NoFiber /\ Settled(x) =>
      \E a \in Actors : notifying[a] = x

(* A fiber is switched to again only when its result is there; otherwise   *)
(* Get would block the whole worker in Wait.                               *)
ResumedWhenSettled == \A f \in Fibers : pc[f] = "back" => Settled(mine[f])

(* The rest of the inductive invariant: what each place says of the fiber  *)
(* in it, and who may be in a call.                                        *)
AwaitMatchesPc ==
  \A f \in Fibers :
    /\ mine[f] = NoFuture <=> pc[f] \in {"run", "finished"}
    /\ mine[f] # NoFuture => state[mine[f]] # "unused"
    /\ \A g \in Fibers : mine[f] = mine[g] /\ mine[f] # NoFuture => f = g

PlaceMatchesPc ==
  \A f \in Fibers :
    /\ \A w \in Workers :
         /\ running[w] = f => pc[f] \notin {"away", "finished"}
         /\ f \in queue[w] =>
              pc[f] = "run" \/ (pc[f] = "away" /\ Settled(mine[f]))
    /\ \A x \in Futures :
         pendingFiber[x] = f \/ awaiter[x] = f => pc[f] = "away" /\ mine[f] = x
    /\ \A a \in Actors : handing[a] = f => pc[f] = "away" /\ Settled(mine[f])

SwitchMatchesPending ==
  /\ \A w \in Workers :
       switchCb[w] # NoFuture =>
         /\ running[w] = NoFiber
         /\ pendingFiber[switchCb[w]] # NoFiber
         /\ \A v \in Workers : switchCb[v] = switchCb[w] => v = w
  /\ \A x \in Futures :
       pendingFiber[x] # NoFiber => \E w \in Workers : switchCb[w] = x

CallsInProgress ==
  \A a \in Actors :
    /\ notifying[a] # NoFuture => handing[a] = NoFiber /\ Settled(notifying[a])
    /\ ~NotCalling(a) =>
         /\ a \in Workers => running[a] = NoFiber /\ switchCb[a] = NoFuture
         /\ a \in Fibers => pc[a] = "run" /\ Running(a)

IInv ==
  /\ TypeOK
  /\ AwaitMatchesPc /\ PlaceMatchesPc /\ SwitchMatchesPending
  /\ CallsInProgress
  /\ FiberInOnePlace /\ NoLostResume /\ ResumedWhenSettled

(* An await whose future is settled returns. *)
SettledAwaitReturns ==
  \A f \in Fibers, x \in Futures :
    (mine[f] = x /\ Settled(x)) ~> (mine[f] # x)

============================================================================
