----------------------------- MODULE EventLoop -----------------------------
(***************************************************************************)
(* One sharpen::EventLoop with the selector it sleeps in (src/EventLoop.cpp*)
(* and src/EpollSelector.cpp), the threads that give it tasks, and the     *)
(* thread that stops it.                                                   *)
(*                                                                         *)
(* A push takes the spin lock; the wake-up of the selector is written      *)
(* after the lock is released, and only when the flag exectingTask_ was    *)
(* still clear.  The question this module answers is whether that elision  *)
(* can lose a wake-up, and whether Stop stops.                             *)
(***************************************************************************)
EXTENDS Sequences, FiniteSets

CONSTANTS
  Posters,    \* threads outside the loop that call RunInLoop(Soon)
  Owner,      \* the thread that runs the loop
  Tasks       \* the tasks; each is given to the loop at most once

ASSUME OwnerAssumption == Owner \notin Posters

VARIABLES
  pendingTasks,   \* pendingTasks_
  tasks,          \* what is left of tasks_ while ExecuteTask runs it
  exectingTask,   \* exectingTask_
  running,        \* running_
  waiting,        \* waiting_, read without a lock by EventEngine::Schedule
  signalled,      \* the eventfd was written since epoll_wait reported it
  loopPc,         \* where Run is
  pc,             \* where each thread is in RunInLoopSoon
  stopPc,         \* where the thread that calls Stop is
  done            \* history: the tasks that were run

vars == <<pendingTasks, tasks, exectingTask, running, waiting, signalled,
          loopPc, pc, stopPc, done>>
queueVars == <<pendingTasks, tasks, exectingTask, done>>

Threads == Posters \cup {Owner}

(* Where Run can be: "tasks" is the loop of ExecuteTask between two tasks, *)
(* "dispatch" and "body" run a handler's or a task's own code.             *)
LoopPcs == {"start", "check", "select", "woken", "dispatch",
            "tasks", "body", "exited"}

TypeOK ==
  /\ pendingTasks \in Seq(Tasks)
  /\ tasks \in Seq(Tasks)
  /\ exectingTask \in BOOLEAN
  /\ running \in BOOLEAN
  /\ waiting \in BOOLEAN
  /\ signalled \in BOOLEAN
  /\ loopPc \in LoopPcs
  /\ pc \in [Threads -> {"idle", "notify"}]
  /\ stopPc \in {"idle", "store", "notify", "returned"}
  /\ done \in SUBSET Tasks

Init ==
  /\ pendingTasks = <<>>
  /\ tasks = <<>>
  /\ exectingTask = FALSE
  /\ running = FALSE
  /\ waiting = FALSE
  /\ signalled = FALSE
  /\ loopPc = "start"
  /\ pc = [p \in Threads |-> "idle"]
  /\ stopPc = "idle"
  /\ done = {}

----------------------------------------------------------------------------
(* The tasks accepted and not yet run, oldest first. *)
Backlog == tasks \o pendingTasks

Fresh(t) == /\ t \notin done
            /\ \A i \in DOMAIN tasks : tasks[i] # t
            /\ \A i \in DOMAIN pendingTasks : pendingTasks[i] # t

(* The loop's thread is inside a handler or a task, free to call the loop. *)
OwnerInside == loopPc \in {"dispatch", "body"} /\ pc[Owner] = "idle"

MayCall(p) == IF p = Owner THEN OwnerInside ELSE pc[p] = "idle"

(* A clear flag leaves the caller with a wake-up to write.                 *)
AfterPushInverted == IF exectingTask THEN "notify" ELSE "idle"  \* mutant
AfterPush == IF exectingTask THEN "idle" ELSE "notify"

(* RunInLoopSoon under the lock: push, and swap the flag. *)
RunInLoopSoon(p, t) ==
  /\ MayCall(p)
  /\ Fresh(t)
  /\ pendingTasks' = Append(pendingTasks, t)
  /\ exectingTask' = TRUE
  /\ pc' = [pc EXCEPT ![p] = AfterPush]
  /\ UNCHANGED <<tasks, running, waiting, signalled, loopPc, stopPc, done>>

(* Mutant: the write to the eventfd is lost. *)
NotifyLost(p) ==
  /\ pc[p] = "notify"
  /\ pc' = [pc EXCEPT ![p] = "idle"]
  /\ UNCHANGED <<queueVars, running, waiting, signalled, loopPc, stopPc>>

(* RunInLoopSoon after the lock: selector_->Notify(). *)
Notify(p) ==
  /\ pc[p] = "notify"
  /\ signalled' = TRUE
  /\ pc' = [pc EXCEPT ![p] = "idle"]
  /\ UNCHANGED <<queueVars, running, waiting, loopPc, stopPc>>

(* RunInLoop on the loop's own thread runs the task at once. *)
RunInLoop(t) ==
  /\ OwnerInside
  /\ Fresh(t)
  /\ done' = done \cup {t}
  /\ UNCHANGED <<pendingTasks, tasks, exectingTask, running, waiting,
                 signalled, loopPc, pc, stopPc>>

----------------------------------------------------------------------------
(* Run, one step per access to what other threads see. *)
Enter ==
  /\ loopPc = "start"
  /\ running' = TRUE
  /\ loopPc' = "check"
  /\ UNCHANGED <<queueVars, waiting, signalled, pc, stopPc>>

CheckRunning ==
  /\ loopPc = "check"
  /\ loopPc' = IF running THEN "select" ELSE "exited"
  /\ waiting' = running
  /\ UNCHANGED <<queueVars, running, signalled, pc, stopPc>>

(* epoll_wait returns because of the eventfd.  It is edge-triggered and    *)
(* never read: a report consumes the edge.                                 *)
SelectNotified ==
  /\ loopPc = "select"
  /\ signalled
  /\ signalled' = FALSE
  /\ loopPc' = "woken"
  /\ UNCHANGED <<queueVars, running, waiting, pc, stopPc>>

(* epoll_wait returns because a channel is ready.  Its buffer holds a few  *)
(* events only, so that the eventfd may or may not be reported with it.    *)
SelectChannel ==
  /\ loopPc = "select"
  /\ signalled' \in {FALSE, signalled}
  /\ loopPc' = "woken"
  /\ UNCHANGED <<queueVars, running, waiting, pc, stopPc>>

StopWaiting ==
  /\ loopPc = "woken"
  /\ waiting' = FALSE
  /\ loopPc' = "dispatch"
  /\ UNCHANGED <<queueVars, running, signalled, pc, stopPc>>

(* Mutants: the flag is left set; the tasks are copied and not swapped. *)
ExecuteTaskKeepsFlag ==
  /\ loopPc = "dispatch" /\ pc[Owner] = "idle"
  /\ tasks' = pendingTasks
  /\ pendingTasks' = <<>>
  /\ loopPc' = "tasks"
  /\ UNCHANGED <<exectingTask, running, waiting, signalled, pc, stopPc, done>>

ExecuteTaskCopies ==
  /\ loopPc = "dispatch" /\ pc[Owner] = "idle"
  /\ exectingTask' = FALSE
  /\ tasks' = pendingTasks
  /\ loopPc' = "tasks"
  /\ UNCHANGED <<pendingTasks, running, waiting, signalled, pc, stopPc, done>>

(* The locked part of ExecuteTask, once the handlers have returned. *)
ExecuteTask ==
  /\ loopPc = "dispatch" /\ pc[Owner] = "idle"
  /\ exectingTask' = FALSE
  /\ IF pendingTasks # <<>>
       THEN tasks' = pendingTasks /\ pendingTasks' = tasks
       ELSE UNCHANGED <<tasks, pendingTasks>>
  /\ loopPc' = "tasks"
  /\ UNCHANGED <<running, waiting, signalled, pc, stopPc, done>>

RunTask ==
  /\ loopPc = "tasks"
  /\ tasks # <<>>
  /\ tasks' = Tail(tasks)
  /\ done' = done \cup {Head(tasks)}
  /\ loopPc' = "body"
  /\ UNCHANGED <<pendingTasks, exectingTask, running, waiting, signalled,
                 pc, stopPc>>

TaskReturns ==
  /\ loopPc = "body" /\ pc[Owner] = "idle"
  /\ loopPc' = "tasks"
  /\ UNCHANGED <<queueVars, running, waiting, signalled, pc, stopPc>>

TasksCleared ==
  /\ loopPc = "tasks"
  /\ tasks = <<>>
  /\ loopPc' = "check"
  /\ UNCHANGED <<queueVars, running, waiting, signalled, pc, stopPc>>

----------------------------------------------------------------------------
(* Stop: nothing happens unless running_ is seen set. *)
StopTest ==
  /\ stopPc = "idle"
  /\ stopPc' = IF running THEN "store" ELSE "returned"
  /\ UNCHANGED <<queueVars, running, waiting, signalled, loopPc, pc>>

StopStore ==
  /\ stopPc = "store"
  /\ running' = FALSE
  /\ stopPc' = "notify"
  /\ UNCHANGED <<queueVars, waiting, signalled, loopPc, pc>>

(* Mutant: Stop does not wake the selector. *)
StopSilently ==
  /\ stopPc = "notify"
  /\ stopPc' = "returned"
  /\ UNCHANGED <<queueVars, running, waiting, signalled, loopPc, pc>>

StopNotify ==
  /\ stopPc = "notify"
  /\ signalled' = TRUE
  /\ stopPc' = "returned"
  /\ UNCHANGED <<queueVars, running, waiting, loopPc, pc>>

Stop == StopTest \/ StopStore \/ StopNotify

LoopStep ==
  \/ Enter \/ CheckRunning \/ SelectNotified \/ StopWaiting
  \/ ExecuteTask \/ RunTask \/ TaskReturns \/ TasksCleared

Next ==
  \/ \E p \in Threads : Notify(p) \/ \E t \in Tasks : RunInLoopSoon(p, t)
  \/ \E t \in Tasks : RunInLoop(t)
  \/ LoopStep
  \/ SelectChannel
  \/ Stop

Spec == Init /\ [][Next]_vars

(* A thread that has started Run, RunInLoopSoon or Stop is scheduled until *)
(* it is done; nobody has to give a task, to call Stop, or to make a       *)
(* channel ready.                                                          *)
Fairness ==
  /\ WF_vars(LoopStep)
  /\ \A p \in Threads : WF_vars(Notify(p))
  /\ WF_vars(StopStore) /\ WF_vars(StopNotify)

LiveSpec == Spec /\ Fairness

----------------------------------------------------------------------------
(* The loop never sleeps on a task: while the queue has one and the loop   *)
(* is past the point of taking it, the selector is signalled or a pusher   *)
(* is about to signal it.  This is what eliding Notify must not break.     *)
WakeUpOwed == signalled \/ \E p \in Threads : pc[p] = "notify"

NoLostWakeUp ==
  loopPc \notin {"woken", "dispatch"} /\ pendingTasks # <<>> => WakeUpOwed

(* The flag says exactly that the queue has something in it, so that a     *)
(* push that skips the wake-up always has an earlier push to rely on.      *)
FlagMeansPending == exectingTask <=> pendingTasks # <<>>

(* A pass over the tasks leaves none behind: the swap of ExecuteTask puts  *)
(* an empty list in place of the pending one.                              *)
BatchDrained == loopPc \notin {"tasks", "body"} => tasks = <<>>

(* The inductive invariant: the proofs in EventLoop_proofs rest on it. *)
IInv == TypeOK /\ FlagMeansPending /\ NoLostWakeUp /\ BatchDrained

(* The loop implements the queue its callers see. *)
Abstract == INSTANCE TaskQueue WITH queue <- Backlog
ImplementsTaskQueue == Abstract!Spec

(* A queued task runs, unless the loop is told to stop. *)
QueuedTaskRuns ==
  \A t \in Tasks :
    ~Fresh(t) ~> (t \in done \/ loopPc = "exited")

(* A Stop that saw the loop running ends it. *)
StopEndsTheLoop == (stopPc = "notify") ~> (loopPc = "exited")

============================================================================
