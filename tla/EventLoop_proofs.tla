-------------------------- MODULE EventLoop_proofs --------------------------
(***************************************************************************)
(* For every set of threads and of tasks: eliding the wake-up never leaves *)
(* a queued task behind a sleeping loop, and the loop is a FIFO queue of   *)
(* tasks to its callers.  For any number of starts of a timer loop on it:  *)
(* entries never overlap, and its owner's calls have the effect they name. *)
(***************************************************************************)
EXTENDS EventLoop, TimerLoop, SequenceTheorems, TLAPS

(* The invariant is inductive: FlagMeansPending says when a push may skip  *)
(* the wake-up, NoLostWakeUp says that an earlier one is then still owed.  *)
LEMMA IInvInductive == IInv /\ [Next]_vars => IInv'
<1> SUFFICES ASSUME IInv, [Next]_vars
             PROVE  IInv'
  OBVIOUS
<1> USE DEF IInv, TypeOK, FlagMeansPending, NoLostWakeUp, WakeUpOwed, LoopPcs,
            BatchDrained, queueVars
<1>1. ASSUME NEW p \in Threads, Notify(p)
      PROVE  IInv'
  BY <1>1 DEF Notify
<1>2. ASSUME NEW p \in Threads, NEW t \in Tasks, RunInLoopSoon(p, t)
      PROVE  IInv'
  <2>1. Append(pendingTasks, t) # <<>> /\ Append(pendingTasks, t) \in Seq(Tasks)
    BY AppendProperties
  <2>2. TypeOK' /\ FlagMeansPending' /\ BatchDrained'
    BY <1>2, <2>1 DEF RunInLoopSoon, AfterPush
  <2>3. NoLostWakeUp'
    BY <1>2, <2>1 DEF RunInLoopSoon, AfterPush, MayCall, OwnerInside
  <2> QED
    BY <2>2, <2>3
<1>3. ASSUME NEW t \in Tasks, RunInLoop(t)
      PROVE  IInv'
  BY <1>3 DEF RunInLoop, OwnerInside
<1>4. CASE Enter
  BY <1>4 DEF Enter
<1>5. CASE CheckRunning
  BY <1>5 DEF CheckRunning
<1>6. CASE SelectNotified
  BY <1>6 DEF SelectNotified
<1>13. CASE SelectChannel
  BY <1>13 DEF SelectChannel
<1>7. CASE StopWaiting
  BY <1>7 DEF StopWaiting
<1>8. CASE ExecuteTask
  BY <1>8 DEF ExecuteTask
<1>9. CASE RunTask
  BY <1>9, HeadTailProperties DEF RunTask
<1>10. CASE TaskReturns \/ TasksCleared
  BY <1>10 DEF TaskReturns, TasksCleared
<1>11. CASE StopTest
  BY <1>11 DEF StopTest
<1>15. CASE StopStore
  BY <1>15 DEF StopStore
<1>14. CASE StopNotify
  BY <1>14 DEF StopNotify
<1>12. CASE UNCHANGED vars
  BY <1>12 DEF vars
<1> QED
  BY <1>1, <1>2, <1>3, <1>4, <1>5, <1>6, <1>7, <1>8, <1>9, <1>10, <1>11, <1>12,
     <1>13, <1>14, <1>15
     DEF Next, LoopStep, Stop

THEOREM InvariantHolds == Spec => []IInv
<1>1. Init => IInv
  <2>1. <<>> \in Seq(Tasks)
    BY EmptySeq
  <2>2. Init => TypeOK
    BY <2>1 DEF Init, TypeOK, LoopPcs
  <2> QED
    BY <2>2 DEF Init, IInv, FlagMeansPending, NoLostWakeUp, BatchDrained
<1> QED
  BY <1>1, IInvInductive, PTL DEF Spec

(* No task waits behind a sleeping loop without a wake-up on its way. *)
THEOREM NoWakeUpIsLost == Spec => []NoLostWakeUp
<1>1. IInv => NoLostWakeUp
  BY DEF IInv
<1> QED
  BY <1>1, InvariantHolds, PTL

(* A task that is fresh for the loop is fresh for the abstract queue. *)
LEMMA FreshInBacklog ==
  ASSUME TypeOK, NEW t \in Tasks, Fresh(t)
  PROVE  Abstract!Fresh(t)
<1> USE DEF TypeOK, Fresh, Backlog
<1>1. /\ DOMAIN tasks = 1..Len(tasks)
      /\ DOMAIN pendingTasks = 1..Len(pendingTasks)
      /\ Len(tasks) \in Nat /\ Len(pendingTasks) \in Nat
  BY LenProperties
<1>2. /\ Backlog \in Seq(Tasks)
      /\ Len(Backlog) = Len(tasks) + Len(pendingTasks)
      /\ \A i \in 1..Len(tasks) + Len(pendingTasks) :
           Backlog[i] = IF i <= Len(tasks) THEN tasks[i]
                        ELSE pendingTasks[i - Len(tasks)]
  BY ConcatProperties
<1>3. ASSUME NEW i \in DOMAIN Backlog
      PROVE  Backlog[i] # t
  <2>1. i \in 1..Len(tasks) + Len(pendingTasks)
    BY <1>2, LenProperties
  <2>2. CASE i <= Len(tasks)
    <3>1. i \in DOMAIN tasks /\ Backlog[i] = tasks[i]
      BY <1>1, <1>2, <2>1, <2>2
    <3> QED
      BY <3>1
  <2>3. CASE ~(i <= Len(tasks))
    <3>1. /\ i - Len(tasks) \in DOMAIN pendingTasks
          /\ Backlog[i] = pendingTasks[i - Len(tasks)]
      BY <1>1, <1>2, <2>1, <2>3
    <3> QED
      BY <3>1
  <2> QED
    BY <2>2, <2>3
<1> QED
  BY <1>3 DEF Abstract!Fresh, Abstract!Queued

(* The head of a non-empty batch is the head of the backlog. *)
LEMMA BacklogHead ==
  ASSUME TypeOK, tasks # <<>>
  PROVE  /\ Backlog # <<>>
         /\ Head(Backlog) = Head(tasks)
         /\ Tail(Backlog) = Tail(tasks) \o pendingTasks
<1> DEFINE h == <<Head(tasks)>>
<1>1. /\ Head(tasks) \in Tasks
      /\ Tail(tasks) \in Seq(Tasks)
      /\ h \in Seq(Tasks)
      /\ pendingTasks \in Seq(Tasks)
      /\ tasks \in Seq(Tasks)
  BY HeadTailProperties DEF TypeOK
<1>2. tasks = h \o Tail(tasks)
  BY <1>1
<1>3. Backlog = h \o (Tail(tasks) \o pendingTasks)
  BY <1>1, <1>2, ConcatAssociative DEF Backlog
<1>4. Tail(tasks) \o pendingTasks \in Seq(Tasks)
  BY <1>1, ConcatProperties
<1> HIDE DEF h
<1>5. Backlog = <<Head(tasks)>> \o (Tail(tasks) \o pendingTasks)
  BY <1>3 DEF h
<1> QED
  BY <1>1, <1>4, <1>5

(* The loop is a FIFO queue of tasks to its callers. *)
THEOREM LoopImplementsTaskQueue == Spec => ImplementsTaskQueue
<1>1. Init => Abstract!Init
  BY DEF Init, Abstract!Init, Backlog
<1>2. IInv /\ [Next]_vars => [Abstract!Next]_(Abstract!vars)
  <2> SUFFICES ASSUME IInv, [Next]_vars
               PROVE  [Abstract!Next]_(Abstract!vars)
    OBVIOUS
  <2> USE DEF Abstract!vars, queueVars
  <2>0. TypeOK
    BY DEF IInv
  <2>1. ASSUME NEW p \in Threads, NEW t \in Tasks, RunInLoopSoon(p, t)
        PROVE  Abstract!Next
    <3>1. Abstract!Fresh(t)
      BY <2>0, <2>1, FreshInBacklog DEF RunInLoopSoon
    <3>2. /\ Append(pendingTasks, t) = pendingTasks \o <<t>>
          /\ Append(Backlog, t) = Backlog \o <<t>>
      BY <2>0, AppendIsConcat, ConcatProperties DEF TypeOK, Backlog
    <3>3. Backlog' = tasks \o (pendingTasks \o <<t>>)
      BY <2>1, <3>2 DEF RunInLoopSoon, Backlog
    <3>4. Backlog' = Append(Backlog, t)
      BY <2>0, <3>2, <3>3, ConcatAssociative DEF TypeOK, Backlog
    <3> QED
      BY <2>1, <3>1, <3>4 DEF RunInLoopSoon, Abstract!Next, Abstract!Post
  <2>2. ASSUME NEW t \in Tasks, RunInLoop(t)
        PROVE  Abstract!Next
    BY <2>0, <2>2, FreshInBacklog
       DEF RunInLoop, Abstract!Next, Abstract!RunNow, Backlog
  <2>3. CASE RunTask
    <3>1. /\ Backlog # <<>>
          /\ Head(Backlog) = Head(tasks)
          /\ Tail(Backlog) = Tail(tasks) \o pendingTasks
      BY <2>0, <2>3, BacklogHead DEF RunTask
    <3>2. Backlog' = Tail(tasks) \o pendingTasks
      BY <2>3 DEF RunTask, Backlog
    <3> QED
      BY <2>3, <3>1, <3>2 DEF RunTask, Abstract!Next, Abstract!RunOldest
  <2>4. CASE ExecuteTask
    <3>1. tasks = <<>> /\ pendingTasks \in Seq(Tasks)
      BY <2>0, <2>4 DEF ExecuteTask, IInv, BatchDrained, TypeOK
    <3>2. /\ Backlog = pendingTasks
          /\ pendingTasks \o <<>> = pendingTasks
      BY <3>1, ConcatEmptySeq DEF Backlog
    <3>3. Backlog' = Backlog
      BY <2>4, <3>1, <3>2 DEF ExecuteTask, Backlog
    <3> QED
      BY <2>4, <3>3 DEF ExecuteTask
  <2>5. ASSUME NEW p \in Threads, Notify(p)
        PROVE  UNCHANGED Abstract!vars
    BY <2>5 DEF Notify, Backlog
  <2>6. CASE \/ Enter \/ CheckRunning \/ SelectNotified \/ SelectChannel
             \/ StopWaiting \/ TaskReturns \/ TasksCleared \/ Stop
             \/ UNCHANGED vars
    BY <2>6 DEF Enter, CheckRunning, SelectNotified, SelectChannel, StopWaiting,
                TaskReturns, TasksCleared, Stop, StopTest, StopStore,
                StopNotify, vars, Backlog
  <2> QED
    BY <2>1, <2>2, <2>3, <2>4, <2>5, <2>6 DEF Next, LoopStep
<1> QED
  BY <1>1, <1>2, InvariantHolds, PTL DEF Spec, ImplementsTaskQueue, Abstract!Spec


-----------------------------------------------------------------------------
(* The timer loop that runs on it. *)

Alive == \E e \in Entries : Live(e)

(* The one entry that can be alive is the last one. *)
LEMMA AliveIsLast ==
  ASSUME OnlyLastLives
  PROVE  Alive <=> entries \in Entries /\ Live(entries)
BY DEF OnlyLastLives, Alive

(* Nothing runs in the beginning. *)
LEMMA TimerInitInvariant == TimerInit => TimerIInv
<1> SUFFICES ASSUME TimerInit PROVE TimerIInv
  OBVIOUS
<1>1. TimerTypeOK
  <2>1. entries \in 0..MaxStarts /\ timed \in Entries \cup {NoEntry}
    BY TimerLoopAssumption DEF TimerInit, NoEntry
  <2>2. /\ token \in BOOLEAN /\ armed \in BOOLEAN /\ reported \in BOOLEAN
        /\ wanted \in BOOLEAN /\ handled \in BOOLEAN
    BY DEF TimerInit
  <2> QED BY <2>1, <2>2 DEF TimerInit, TimerTypeOK
<1>2. OnlyLastLives
  BY DEF TimerInit, OnlyLastLives, Live, Entries
<1>3. LifeMatchesOwner
  BY DEF TimerInit, LifeMatchesOwner, Live, StopsItself
<1>4. StoredUntilTaken /\ WaitIsTimed
  BY DEF TimerInit, StoredUntilTaken, WaitIsTimed
<1> QED BY <1>1, <1>2, <1>3, <1>4 DEF TimerIInv

(* The countdown ends. *)
LEMMA ExpireStep ==
  ASSUME TimerIInv, Expire
  PROVE  TimerIInv'
<1> USE TimerLoopAssumption DEF StopsItself, OwnerRuns, TimerIInv, Expire, Goto, Take, descriptor, requests
<1>1. TimerTypeOK'
  BY DEF TimerTypeOK, Entries, NoEntry
<1>2. OnlyLastLives'
  BY DEF OnlyLastLives, Live, TimerTypeOK, Entries
<1>3. LifeMatchesOwner'
  BY <1>2, AliveIsLast DEF LifeMatchesOwner, OnlyLastLives, Live, TimerTypeOK, Entries
<1>4. StoredUntilTaken'
  BY DEF StoredUntilTaken, TimerTypeOK, OnlyLastLives, Live, Entries
<1>5. WaitIsTimed'
  BY DEF WaitIsTimed, StoredUntilTaken, TimerTypeOK, OnlyLastLives, Live, Entries
<1> QED BY <1>1, <1>2, <1>3, <1>4, <1>5

(* Its event wakes whoever the timer knows. *)
LEMMA OnEventStep ==
  ASSUME TimerIInv, OnEvent
  PROVE  TimerIInv'
<1> USE TimerLoopAssumption DEF StopsItself, OwnerRuns, TimerIInv, OnEvent, Goto, Take, descriptor, requests
<1>1. TimerTypeOK'
  BY DEF TimerTypeOK, Entries, NoEntry
<1>2. OnlyLastLives'
  BY DEF OnlyLastLives, Live, TimerTypeOK, Entries
<1>3. LifeMatchesOwner'
  BY <1>2, AliveIsLast DEF LifeMatchesOwner, OnlyLastLives, Live, TimerTypeOK, Entries
<1>4. StoredUntilTaken'
  BY DEF StoredUntilTaken, TimerTypeOK, OnlyLastLives, Live, Entries
<1>5. WaitIsTimed'
  <2> SUFFICES ASSUME NEW e \in Entries, entryPc'[e] = "await", woken'[e] = "pending"
               PROVE  FALSE
    BY DEF WaitIsTimed
  <2>1. woken[e] = "pending" /\ e # timed
    BY DEF TimerTypeOK, Entries, NoEntry
  <2> QED BY <2>1 DEF WaitIsTimed
<1> QED BY <1>1, <1>2, <1>3, <1>4, <1>5

(* The entry looks at the token. *)
LEMMA TestTokenStep ==
  ASSUME TimerIInv, NEW e \in Entries, TestToken(e)
  PROVE  TimerIInv'
<1> USE TimerLoopAssumption DEF StopsItself, OwnerRuns, TimerIInv, TestToken, Goto, Take, descriptor, requests
<1>1. TimerTypeOK'
  BY DEF TimerTypeOK, Entries, NoEntry
<1>2. OnlyLastLives'
  BY DEF OnlyLastLives, Live, TimerTypeOK, Entries
<1>3. LifeMatchesOwner'
  BY <1>2, AliveIsLast DEF LifeMatchesOwner, OnlyLastLives, Live, TimerTypeOK, Entries
<1>4. StoredUntilTaken'
  BY DEF StoredUntilTaken, TimerTypeOK, OnlyLastLives, Live, Entries
<1>5. WaitIsTimed'
  BY DEF WaitIsTimed, StoredUntilTaken, TimerTypeOK, OnlyLastLives, Live, Entries
<1> QED BY <1>1, <1>2, <1>3, <1>4, <1>5

(* The timer learns the future of the wait. *)
LEMMA StoreStep ==
  ASSUME TimerIInv, NEW e \in Entries, Store(e)
  PROVE  TimerIInv'
<1> USE TimerLoopAssumption DEF StopsItself, OwnerRuns, TimerIInv, Store, Goto, Take, descriptor, requests
<1>1. TimerTypeOK'
  BY DEF TimerTypeOK, Entries, NoEntry
<1>2. OnlyLastLives'
  BY DEF OnlyLastLives, Live, TimerTypeOK, Entries
<1>3. LifeMatchesOwner'
  BY <1>2, AliveIsLast DEF LifeMatchesOwner, OnlyLastLives, Live, TimerTypeOK, Entries
<1>4. StoredUntilTaken'
  BY DEF StoredUntilTaken, TimerTypeOK, OnlyLastLives, Live, Entries
<1>5. WaitIsTimed'
  BY DEF WaitIsTimed, StoredUntilTaken, TimerTypeOK, OnlyLastLives, Live, Entries
<1> QED BY <1>1, <1>2, <1>3, <1>4, <1>5

(* The descriptor is armed, unless the wait is over already. *)
LEMMA SetTimeStep ==
  ASSUME TimerIInv, NEW e \in Entries, SetTime(e)
  PROVE  TimerIInv'
<1> USE TimerLoopAssumption DEF StopsItself, OwnerRuns, TimerIInv, SetTime, Goto, Take, descriptor, requests
<1>1. TimerTypeOK'
  BY DEF TimerTypeOK, Entries, NoEntry
<1>2. OnlyLastLives'
  BY DEF OnlyLastLives, Live, TimerTypeOK, Entries
<1>3. LifeMatchesOwner'
  BY <1>2, AliveIsLast DEF LifeMatchesOwner, OnlyLastLives, Live, TimerTypeOK, Entries
<1>4. StoredUntilTaken'
  BY DEF StoredUntilTaken, TimerTypeOK, OnlyLastLives, Live, Entries
<1>5. WaitIsTimed'
  BY DEF WaitIsTimed, StoredUntilTaken, TimerTypeOK, OnlyLastLives, Live, Entries
<1> QED BY <1>1, <1>2, <1>3, <1>4, <1>5

(* A wait cancelled goes back to the token. *)
LEMMA CancelledStep ==
  ASSUME TimerIInv, NEW e \in Entries, Cancelled(e)
  PROVE  TimerIInv'
<1> USE TimerLoopAssumption DEF StopsItself, OwnerRuns, TimerIInv, Cancelled, Goto, Take, descriptor, requests
<1>1. TimerTypeOK'
  BY DEF TimerTypeOK, Entries, NoEntry
<1>2. OnlyLastLives'
  BY DEF OnlyLastLives, Live, TimerTypeOK, Entries
<1>3. LifeMatchesOwner'
  BY <1>2, AliveIsLast DEF LifeMatchesOwner, OnlyLastLives, Live, TimerTypeOK, Entries
<1>4. StoredUntilTaken'
  BY DEF StoredUntilTaken, TimerTypeOK, OnlyLastLives, Live, Entries
<1>5. WaitIsTimed'
  BY DEF WaitIsTimed, StoredUntilTaken, TimerTypeOK, OnlyLastLives, Live, Entries
<1> QED BY <1>1, <1>2, <1>3, <1>4, <1>5

(* The handler continues the loop or stops it. *)
LEMMA HandleStep ==
  ASSUME TimerIInv, NEW e \in Entries, Handle(e)
  PROVE  TimerIInv'
<1> USE TimerLoopAssumption DEF StopsItself, OwnerRuns, TimerIInv, Handle, Goto, Take, descriptor, requests
<1>1. TimerTypeOK'
  BY DEF TimerTypeOK, Entries, NoEntry
<1>2. OnlyLastLives'
  BY DEF OnlyLastLives, Live, TimerTypeOK, Entries
<1>3. LifeMatchesOwner'
  BY <1>2, AliveIsLast DEF LifeMatchesOwner, OnlyLastLives, Live, TimerTypeOK, Entries
<1>4. StoredUntilTaken'
  BY DEF StoredUntilTaken, TimerTypeOK, OnlyLastLives, Live, Entries
<1>5. WaitIsTimed'
  BY DEF WaitIsTimed, StoredUntilTaken, TimerTypeOK, OnlyLastLives, Live, Entries
<1> QED BY <1>1, <1>2, <1>3, <1>4, <1>5

(* The entry leaves and completes the future of the loop. *)
LEMMA LeaveStep ==
  ASSUME TimerIInv, NEW e \in Entries, Leave(e)
  PROVE  TimerIInv'
<1> USE TimerLoopAssumption DEF StopsItself, OwnerRuns, TimerIInv, Leave, Goto, Take, descriptor, requests
<1>1. TimerTypeOK'
  BY DEF TimerTypeOK, Entries, NoEntry
<1>2. OnlyLastLives'
  BY DEF OnlyLastLives, Live, TimerTypeOK, Entries
<1>3. LifeMatchesOwner'
  BY <1>2, AliveIsLast DEF LifeMatchesOwner, OnlyLastLives, Live, TimerTypeOK, Entries
<1>4. StoredUntilTaken'
  BY DEF StoredUntilTaken, TimerTypeOK, OnlyLastLives, Live, Entries
<1>5. WaitIsTimed'
  BY DEF WaitIsTimed, StoredUntilTaken, TimerTypeOK, OnlyLastLives, Live, Entries
<1> QED BY <1>1, <1>2, <1>3, <1>4, <1>5

(* An entry that has stopped itself clears the token and is gone. *)
LEMMA ClearTokenStep ==
  ASSUME TimerIInv, NEW e \in Entries, ClearToken(e)
  PROVE  TimerIInv'
<1> USE TimerLoopAssumption DEF StopsItself, OwnerRuns, TimerIInv, ClearToken, Goto, Take, descriptor, requests
<1>1. TimerTypeOK'
  BY DEF TimerTypeOK, Entries, NoEntry
<1>2. OnlyLastLives'
  BY DEF OnlyLastLives, Live, TimerTypeOK, Entries
<1>3. LifeMatchesOwner'
  BY <1>2, AliveIsLast DEF LifeMatchesOwner, OnlyLastLives, Live, TimerTypeOK, Entries
<1>4. StoredUntilTaken'
  BY DEF StoredUntilTaken, TimerTypeOK, OnlyLastLives, Live, Entries
<1>5. WaitIsTimed'
  BY DEF WaitIsTimed, StoredUntilTaken, TimerTypeOK, OnlyLastLives, Live, Entries
<1> QED BY <1>1, <1>2, <1>3, <1>4, <1>5

(* Terminate takes the token. *)
LEMMA TerminateExchangeStep ==
  ASSUME ~Overtaking, TimerIInv, TerminateExchange
  PROVE  TimerIInv'
<1> USE TimerLoopAssumption DEF StopsItself, OwnerRuns, TimerIInv, TerminateExchange, Goto, Take, descriptor, requests
<1>1. TimerTypeOK'
  BY DEF TimerTypeOK, Entries, NoEntry
<1>2. OnlyLastLives'
  BY DEF OnlyLastLives, Live, TimerTypeOK, Entries
<1>3. LifeMatchesOwner'
  BY <1>2, AliveIsLast DEF LifeMatchesOwner, OnlyLastLives, Live, TimerTypeOK, Entries
<1>4. StoredUntilTaken'
  BY DEF StoredUntilTaken, TimerTypeOK, OnlyLastLives, Live, Entries
<1>5. WaitIsTimed'
  BY DEF WaitIsTimed, StoredUntilTaken, TimerTypeOK, OnlyLastLives, Live, Entries
<1> QED BY <1>1, <1>2, <1>3, <1>4, <1>5

(* It looks at the future. *)
LEMMA TerminateLookStep ==
  ASSUME ~Overtaking, TimerIInv, TerminateLook
  PROVE  TimerIInv'
<1> USE TimerLoopAssumption DEF StopsItself, OwnerRuns, TimerIInv, TerminateLook, Goto, Take, descriptor, requests
<1>1. TimerTypeOK'
  BY DEF TimerTypeOK, Entries, NoEntry
<1>2. OnlyLastLives'
  BY DEF OnlyLastLives, Live, TimerTypeOK, Entries
<1>3. LifeMatchesOwner'
  BY <1>2, AliveIsLast DEF LifeMatchesOwner, OnlyLastLives, Live, TimerTypeOK, Entries
<1>4. StoredUntilTaken'
  BY DEF StoredUntilTaken, TimerTypeOK, OnlyLastLives, Live, Entries
<1>5. WaitIsTimed'
  BY DEF WaitIsTimed, StoredUntilTaken, TimerTypeOK, OnlyLastLives, Live, Entries
<1> QED BY <1>1, <1>2, <1>3, <1>4, <1>5

(* It returns after the entry. *)
LEMMA TerminateReturnStep ==
  ASSUME ~Overtaking, TimerIInv, TerminateReturn
  PROVE  TimerIInv'
<1> USE TimerLoopAssumption DEF StopsItself, OwnerRuns, TimerIInv, TerminateReturn, Goto, Take, descriptor, requests
<1>1. TimerTypeOK'
  BY DEF TimerTypeOK, Entries, NoEntry
<1>2. OnlyLastLives'
  BY DEF OnlyLastLives, Live, TimerTypeOK, Entries
<1>3. LifeMatchesOwner'
  BY <1>2, AliveIsLast DEF LifeMatchesOwner, OnlyLastLives, Live, TimerTypeOK, Entries
<1>4. StoredUntilTaken'
  BY DEF StoredUntilTaken, TimerTypeOK, OnlyLastLives, Live, Entries
<1>5. WaitIsTimed'
  BY DEF WaitIsTimed, StoredUntilTaken, TimerTypeOK, OnlyLastLives, Live, Entries
<1> QED BY <1>1, <1>2, <1>3, <1>4, <1>5

(* Start sets the token. *)
LEMMA StartExchangeStep ==
  ASSUME ~Overtaking, TimerIInv, StartExchange
  PROVE  TimerIInv'
<1> USE TimerLoopAssumption DEF StopsItself, OwnerRuns, TimerIInv, StartExchange, Goto, Take, descriptor, requests
<1>1. TimerTypeOK'
  BY DEF TimerTypeOK, Entries, NoEntry
<1>2. OnlyLastLives'
  BY DEF OnlyLastLives, Live, TimerTypeOK, Entries
<1>3. LifeMatchesOwner'
  BY <1>2, AliveIsLast DEF LifeMatchesOwner, OnlyLastLives, Live, TimerTypeOK, Entries
<1>4. StoredUntilTaken'
  BY DEF StoredUntilTaken, TimerTypeOK, OnlyLastLives, Live, Entries
<1>5. WaitIsTimed'
  BY DEF WaitIsTimed, StoredUntilTaken, TimerTypeOK, OnlyLastLives, Live, Entries
<1> QED BY <1>1, <1>2, <1>3, <1>4, <1>5

(* It launches the next entry. *)
LEMMA StartLaunchStep ==
  ASSUME ~Overtaking, TimerIInv, StartLaunch
  PROVE  TimerIInv'
<1> USE TimerLoopAssumption DEF StopsItself, OwnerRuns, TimerIInv, StartLaunch, Goto, Take, descriptor, requests
<1>0. entries \in Nat /\ entries + 1 \in Entries /\ ~Alive
  BY DEF LifeMatchesOwner, TimerTypeOK, Entries, Alive
<1>1. TimerTypeOK'
  <2>1. entries' \in 0..MaxStarts
    BY <1>0 DEF Entries
  <2>2. entryPc' = [entryPc EXCEPT ![entries + 1] = "loop"]
    OBVIOUS
  <2> QED BY <1>0, <2>1, <2>2 DEF TimerTypeOK
<1>2. OnlyLastLives'
  <2>1. \A e \in Entries :
          entryPc'[e] = IF e = entries + 1 THEN "loop" ELSE entryPc[e]
    BY <1>0 DEF TimerTypeOK
  <2>2. \A e \in Entries : e \in Nat
    BY DEF Entries
  <2> QED BY <1>0, <2>1, <2>2 DEF OnlyLastLives, Live, Alive
<1>3. LifeMatchesOwner'
  BY <1>2, AliveIsLast DEF LifeMatchesOwner, OnlyLastLives, Live, TimerTypeOK, Entries
<1>4. StoredUntilTaken'
  BY DEF StoredUntilTaken, TimerTypeOK, OnlyLastLives, Live, Entries
<1>5. WaitIsTimed'
  BY DEF WaitIsTimed, StoredUntilTaken, TimerTypeOK, OnlyLastLives, Live, Entries
<1> QED BY <1>1, <1>2, <1>3, <1>4, <1>5

(* The canceller looks at token and future. *)
LEMMA CancelLookStep ==
  ASSUME TimerIInv, CancelLook
  PROVE  TimerIInv'
<1> USE TimerLoopAssumption DEF StopsItself, OwnerRuns, TimerIInv, CancelLook, Goto, Take, descriptor, requests
<1>1. TimerTypeOK'
  BY DEF TimerTypeOK, Entries, NoEntry
<1>2. OnlyLastLives'
  BY DEF OnlyLastLives, Live, TimerTypeOK, Entries
<1>3. LifeMatchesOwner'
  BY <1>2, AliveIsLast DEF LifeMatchesOwner, OnlyLastLives, Live, TimerTypeOK, Entries
<1>4. StoredUntilTaken'
  BY DEF StoredUntilTaken, TimerTypeOK, OnlyLastLives, Live, Entries
<1>5. WaitIsTimed'
  BY DEF WaitIsTimed, StoredUntilTaken, TimerTypeOK, OnlyLastLives, Live, Entries
<1> QED BY <1>1, <1>2, <1>3, <1>4, <1>5

(* It disarms the descriptor. *)
LEMMA DisarmStep ==
  ASSUME TimerIInv, Disarm
  PROVE  TimerIInv'
<1> USE TimerLoopAssumption DEF StopsItself, OwnerRuns, TimerIInv, Disarm, Goto, Take, descriptor, requests
<1>1. TimerTypeOK'
  BY DEF TimerTypeOK, Entries, NoEntry
<1>2. OnlyLastLives'
  BY DEF OnlyLastLives, Live, TimerTypeOK, Entries
<1>3. LifeMatchesOwner'
  BY <1>2, AliveIsLast DEF LifeMatchesOwner, OnlyLastLives, Live, TimerTypeOK, Entries
<1>4. StoredUntilTaken'
  BY DEF StoredUntilTaken, TimerTypeOK, OnlyLastLives, Live, Entries
<1>5. WaitIsTimed'
  BY DEF WaitIsTimed, StoredUntilTaken, TimerTypeOK, OnlyLastLives, Live, Entries
<1> QED BY <1>1, <1>2, <1>3, <1>4, <1>5

(* It completes whatever future the timer has. *)
LEMMA CancelTakeStep ==
  ASSUME TimerIInv, CancelTake
  PROVE  TimerIInv'
<1> USE TimerLoopAssumption DEF StopsItself, OwnerRuns, TimerIInv, CancelTake, Goto, Take, descriptor, requests
<1>1. TimerTypeOK'
  BY DEF TimerTypeOK, Entries, NoEntry
<1>2. OnlyLastLives'
  BY DEF OnlyLastLives, Live, TimerTypeOK, Entries
<1>3. LifeMatchesOwner'
  BY <1>2, AliveIsLast DEF LifeMatchesOwner, OnlyLastLives, Live, TimerTypeOK, Entries
<1>4. StoredUntilTaken'
  BY DEF StoredUntilTaken, TimerTypeOK, OnlyLastLives, Live, Entries
<1>5. WaitIsTimed'
  <2> SUFFICES ASSUME NEW e \in Entries, entryPc'[e] = "await", woken'[e] = "pending"
               PROVE  FALSE
    BY DEF WaitIsTimed
  <2>1. woken[e] = "pending" /\ e # timed
    BY DEF TimerTypeOK, Entries, NoEntry
  <2> QED BY <2>1 DEF WaitIsTimed
<1> QED BY <1>1, <1>2, <1>3, <1>4, <1>5

(* Every step keeps the invariant, if the owner overtakes no entry.    *)
LEMMA TimerNextInvariant == ~Overtaking /\ TimerIInv /\ [TimerNext]_timerVars => TimerIInv'
<1> SUFFICES ASSUME ~Overtaking, TimerIInv, [TimerNext]_timerVars PROVE TimerIInv'
  OBVIOUS
<1>1. ASSUME NEW e \in Entries, EntryStep(e) PROVE TimerIInv'
  BY <1>1, TestTokenStep, StoreStep, SetTimeStep, CancelledStep, HandleStep,
     LeaveStep, ClearTokenStep DEF EntryStep
<1>2. CASE Expire \/ OnEvent
  BY <1>2, ExpireStep, OnEventStep
<1>3. CASE TerminateExchange \/ StartExchange \/ OwnerStep
  BY <1>3, TerminateExchangeStep, TerminateLookStep, TerminateReturnStep,
     StartExchangeStep, StartLaunchStep DEF OwnerStep
<1>4. CASE CancelLook \/ Disarm \/ CancelTake
  BY <1>4, CancelLookStep, DisarmStep, CancelTakeStep
<1>5. CASE UNCHANGED timerVars
  BY <1>5 DEF timerVars, TimerIInv, TimerTypeOK, OnlyLastLives, Live, LifeMatchesOwner,
     StopsItself, StoredUntilTaken, WaitIsTimed
<1> QED BY <1>1, <1>2, <1>3, <1>4, <1>5 DEF TimerNext

(* The last entry is the only one, its life follows the owner's calls, and *)
(* a wait is never left without somebody to end it.                        *)
THEOREM TimerInvariantHolds == ~Overtaking => (TimerSpec => []TimerIInv)
<1> SUFFICES ASSUME ~Overtaking PROVE TimerSpec => []TimerIInv
  OBVIOUS
<1>1. TimerIInv /\ [TimerNext]_timerVars => TimerIInv'
  BY TimerNextInvariant
<1> QED BY <1>1, TimerInitInvariant, PTL DEF TimerSpec

(* A start after a terminate never meets the entry of the start before. *)
THEOREM EntriesNeverOverlap == ~Overtaking => (TimerSpec => []OneEntry)
<1> SUFFICES ASSUME ~Overtaking PROVE TimerSpec => []OneEntry
  OBVIOUS
<1>1. TimerIInv => OneEntry
  BY DEF TimerIInv, OnlyLastLives, OneEntry
<1>2. TimerSpec => []TimerIInv
  BY TimerInvariantHolds
<1> QED BY <1>1, <1>2, PTL

(* The owner of a loop may destroy it when Terminate has returned. *)
THEOREM TerminateLeavesNobody == ~Overtaking => (TimerSpec => []StoppedIsQuiet)
<1> SUFFICES ASSUME ~Overtaking PROVE TimerSpec => []StoppedIsQuiet
  OBVIOUS
<1>1. TimerIInv => StoppedIsQuiet
  BY DEF TimerIInv, LifeMatchesOwner, StoppedIsQuiet
<1>2. TimerSpec => []TimerIInv
  BY TimerInvariantHolds
<1> QED BY <1>1, <1>2, PTL

(* A loop started and not terminated is on its way to the handler. *)
THEOREM StartIsNeverLost == ~Overtaking => (TimerSpec => []StartIsHeard)
<1> SUFFICES ASSUME ~Overtaking PROVE TimerSpec => []StartIsHeard
  OBVIOUS
<1>1. TimerIInv => StartIsHeard
  BY DEF TimerIInv, LifeMatchesOwner, OnlyLastLives, StartIsHeard, Live, StopsItself,
     TimerTypeOK
<1>2. TimerSpec => []TimerIInv
  BY TimerInvariantHolds
<1> QED BY <1>1, <1>2, PTL
=============================================================================
