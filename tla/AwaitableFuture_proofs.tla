----------------------- MODULE AwaitableFuture_proofs -----------------------
(***************************************************************************)
(* That no fiber is lost or doubled between an await and a completion, for *)
(* any number of fibers, workers, threads and futures.                     *)
(***************************************************************************)
EXTENDS AwaitableFuture, TLAPS

(* FiberInOnePlace without its set of tagged places. *)
Alone(f) ==
  /\ \A v, w \in Workers :
       /\ running[v] = f /\ running[w] = f => v = w
       /\ f \in queue[v] /\ f \in queue[w] => v = w
       /\ ~(running[v] = f /\ f \in queue[w])
  /\ \A x, y \in Futures :
       /\ pendingFiber[x] = f /\ pendingFiber[y] = f => x = y
       /\ awaiter[x] = f /\ awaiter[y] = f => x = y
       /\ ~(pendingFiber[x] = f /\ awaiter[y] = f)
  /\ \A a, b \in Actors : handing[a] = f /\ handing[b] = f => a = b
  /\ \A w \in Workers, x \in Futures :
       /\ ~(running[w] = f /\ pendingFiber[x] = f)
       /\ ~(running[w] = f /\ awaiter[x] = f)
       /\ ~(f \in queue[w] /\ pendingFiber[x] = f)
       /\ ~(f \in queue[w] /\ awaiter[x] = f)
  /\ \A a \in Actors, w \in Workers :
       ~(handing[a] = f /\ running[w] = f) /\ ~(handing[a] = f /\ f \in queue[w])
  /\ \A a \in Actors, x \in Futures :
       /\ ~(handing[a] = f /\ pendingFiber[x] = f)
       /\ ~(handing[a] = f /\ awaiter[x] = f)

Somewhere(f) ==
  \/ \E w \in Workers : running[w] = f \/ f \in queue[w]
  \/ \E x \in Futures : pendingFiber[x] = f \/ awaiter[x] = f
  \/ \E a \in Actors : handing[a] = f

OnePlace == \A f \in Fibers : Alone(f) /\ (pc[f] # "finished" => Somewhere(f))

(* The two forms say the same. *)
LEMMA OnePlaceEquiv == OnePlace <=> FiberInOnePlace
<1>1. ASSUME NEW f \in Fibers
      PROVE  Somewhere(f) <=> Places(f) # {}
  BY DEF Somewhere, Places
<1>2. ASSUME NEW f \in Fibers, Alone(f), NEW p \in Places(f), NEW q \in Places(f)
      PROVE  p = q
  BY <1>2, SMTT(60) DEF Alone, Places
<1>3. ASSUME NEW f \in Fibers, \A p, q \in Places(f) : p = q
      PROVE  Alone(f)
  <2>1. ASSUME NEW w \in Workers, running[w] = f PROVE <<"worker",
    w>> \in Places(f)
    BY <2>1 DEF Places
  <2>2. ASSUME NEW w \in Workers, f \in queue[w] PROVE <<"loop",
    w>> \in Places(f)
    BY <2>2 DEF Places
  <2>3. ASSUME NEW x \in Futures, pendingFiber[x] = f
        PROVE  <<"switch", x>> \in Places(f)
    BY <2>3 DEF Places
  <2>4. ASSUME NEW x \in Futures, awaiter[x] = f PROVE <<"future",
    x>> \in Places(f)
    BY <2>4 DEF Places
  <2>5. ASSUME NEW a \in Actors, handing[a] = f PROVE <<"caller",
    a>> \in Places(f)
    BY <2>5 DEF Places
  <2>6. \A v, w \in Workers :
          /\ running[v] = f /\ running[w] = f => v = w
          /\ f \in queue[v] /\ f \in queue[w] => v = w
          /\ ~(running[v] = f /\ f \in queue[w])
    BY <1>3, <2>1, <2>2
  <2>7. \A x, y \in Futures :
          /\ pendingFiber[x] = f /\ pendingFiber[y] = f => x = y
          /\ awaiter[x] = f /\ awaiter[y] = f => x = y
          /\ ~(pendingFiber[x] = f /\ awaiter[y] = f)
    BY <1>3, <2>3, <2>4
  <2>8. \A a, b \in Actors : handing[a] = f /\ handing[b] = f => a = b
    BY <1>3, <2>5
  <2>9. \A w \in Workers, x \in Futures :
          /\ ~(running[w] = f /\ pendingFiber[x] = f)
          /\ ~(running[w] = f /\ awaiter[x] = f)
          /\ ~(f \in queue[w] /\ pendingFiber[x] = f)
          /\ ~(f \in queue[w] /\ awaiter[x] = f)
    BY <1>3, <2>1, <2>2, <2>3, <2>4
  <2>10. \A a \in Actors, w \in Workers :
           ~(handing[a] = f /\ running[w] = f) /\ ~(handing[a] = f /\ f \in queue[w])
    BY <1>3, <2>1, <2>2, <2>5
  <2>11. \A a \in Actors, x \in Futures :
           /\ ~(handing[a] = f /\ pendingFiber[x] = f)
           /\ ~(handing[a] = f /\ awaiter[x] = f)
    BY <1>3, <2>3, <2>4, <2>5
  <2> QED BY <2>6, <2>7, <2>8, <2>9, <2>10, <2>11 DEF Alone
<1> QED BY <1>1, <1>2, <1>3 DEF OnePlace, FiberInOnePlace

(* What the invariant says, with OnePlace for FiberInOnePlace. *)
Inv ==
  /\ TypeOK
  /\ AwaitMatchesPc /\ PlaceMatchesPc /\ SwitchMatchesPending
  /\ CallsInProgress
  /\ OnePlace /\ NoLostResume /\ ResumedWhenSettled

(* A loop that takes a fiber from its queue keeps the invariant: the fiber *)
(* moves from the queue to the worker.                                     *)
LEMMA ProcessFiberStep ==
  ASSUME Inv, NEW w \in Workers, NEW f \in Fibers, ProcessFiber(w, f)
  PROVE  Inv'
<1> USE Assumption DEF Inv, TypeOK, States, Pcs, Settled, Actors
<1>1. TypeOK'
  BY DEF ProcessFiber, InLoop, NotCalling, futureVars, workerVars, callVars
<1>2. AwaitMatchesPc'
  BY DEF ProcessFiber, InLoop, NotCalling, futureVars, workerVars, callVars,
    AwaitMatchesPc
<1>3. PlaceMatchesPc'
  BY DEF ProcessFiber, InLoop, NotCalling, futureVars, workerVars, callVars,
    AwaitMatchesPc, PlaceMatchesPc, CallsInProgress, OnePlace, Alone,
    Somewhere, SwitchMatchesPending
<1>4. SwitchMatchesPending'
  BY DEF ProcessFiber, InLoop, NotCalling, futureVars, workerVars, callVars,
    SwitchMatchesPending, PlaceMatchesPc, CallsInProgress
<1>5. CallsInProgress'
  BY DEF ProcessFiber, InLoop, NotCalling, futureVars, workerVars, callVars,
    CallsInProgress, PlaceMatchesPc, SwitchMatchesPending, Running,
    AwaitMatchesPc
<1>6. OnePlace'
  <2>1. ASSUME NEW g \in Fibers
        PROVE  Alone(g)'
    BY SMTT(60) DEF ProcessFiber, InLoop, NotCalling, futureVars, workerVars,
      callVars, OnePlace, Alone
  <2>2. ASSUME NEW g \in Fibers, pc'[g] # "finished"
        PROVE  Somewhere(g)'
    <3>1. CASE g = f
      <4>1. running'[w] = g
        BY <3>1 DEF ProcessFiber
      <4> QED BY <4>1 DEF Somewhere
    <3>2. CASE g # f
      <4>1. pc'[g] = pc[g]
        BY <3>2 DEF ProcessFiber
      <4>2. Somewhere(g)
        BY <2>2, <4>1 DEF OnePlace
      <4>3. /\ \A v \in Workers : running[v] = g => running'[v] = g
            /\ \A v \in Workers : g \in queue[v] => g \in queue'[v]
        BY <3>2 DEF ProcessFiber, InLoop
      <4>4. UNCHANGED <<pendingFiber, awaiter, handing>>
        BY DEF ProcessFiber, futureVars, callVars
      <4> QED BY <4>2, <4>3, <4>4 DEF Somewhere
    <3> QED BY <3>1, <3>2
  <2> QED BY <2>1, <2>2 DEF OnePlace
<1>7. NoLostResume'
  BY DEF ProcessFiber, InLoop, NotCalling, futureVars, workerVars, callVars,
    NoLostResume, CallsInProgress
<1>8. ResumedWhenSettled'
  BY DEF ProcessFiber, InLoop, NotCalling, futureVars, workerVars, callVars,
    ResumedWhenSettled, PlaceMatchesPc, AwaitMatchesPc
<1> QED BY <1>1, <1>2, <1>3, <1>4, <1>5, <1>6, <1>7, <1>8 DEF Inv

(* The second look moves the fiber from the switch callback to its future, *)
(* or back to the worker when the future is settled.                       *)
LEMMA NotifyIfCompletedStep ==
  ASSUME Inv, NEW w \in Workers, NotifyIfCompleted(w)
  PROVE  Inv'
<1> USE Assumption DEF Inv, TypeOK, States, Pcs, Settled, Actors
<1>1. TypeOK'
  BY DEF NotifyIfCompleted, StillPending, futureVars, workerVars, callVars
<1>2. AwaitMatchesPc'
  BY DEF NotifyIfCompleted, StillPending, futureVars, workerVars, callVars,
    AwaitMatchesPc, PlaceMatchesPc, SwitchMatchesPending
<1>3. PlaceMatchesPc'
  BY DEF NotifyIfCompleted, StillPending, futureVars, workerVars, callVars,
    AwaitMatchesPc, PlaceMatchesPc, CallsInProgress, OnePlace, Alone,
    Somewhere, SwitchMatchesPending
<1>4. SwitchMatchesPending'
  BY DEF NotifyIfCompleted, StillPending, futureVars, workerVars, callVars,
    SwitchMatchesPending, PlaceMatchesPc, CallsInProgress
<1>5. CallsInProgress'
  BY DEF NotifyIfCompleted, StillPending, futureVars, workerVars, callVars,
    CallsInProgress, PlaceMatchesPc, SwitchMatchesPending, Running, NotCalling
<1>6. OnePlace'
  <2>1. ASSUME NEW g \in Fibers
        PROVE  Alone(g)'
    BY SMTT(60) DEF NotifyIfCompleted, StillPending, futureVars, workerVars,
      callVars, OnePlace, Alone, SwitchMatchesPending, PlaceMatchesPc
  <2>2. ASSUME NEW g \in Fibers, pc'[g] # "finished"
        PROVE  Somewhere(g)'
    <3>1. switchCb[w] \in Futures /\ pendingFiber[switchCb[w]] \in Fibers
      BY DEF NotifyIfCompleted, SwitchMatchesPending
    <3>2. pc[g] # "finished"
      BY <2>2, <3>1 DEF NotifyIfCompleted, StillPending, PlaceMatchesPc
    <3>3. Somewhere(g)
      BY <3>2 DEF OnePlace
    <3>4. CASE g = pendingFiber[switchCb[w]]
      BY <3>1, <3>4 DEF NotifyIfCompleted, Somewhere
    <3>5. CASE g # pendingFiber[switchCb[w]] /\ awaiter[switchCb[w]] # g
      BY <3>1, <3>3, <3>5 DEF NotifyIfCompleted, futureVars, callVars,
        Somewhere
    <3>6. CASE g # pendingFiber[switchCb[w]] /\ awaiter[switchCb[w]] = g
      <4>1. mine[g] = switchCb[w] /\ mine[pendingFiber[switchCb[w]]] = switchCb[w]
        BY <3>1, <3>6 DEF PlaceMatchesPc
      <4> QED BY <3>1, <3>6, <4>1 DEF AwaitMatchesPc
    <3> QED BY <3>4, <3>5, <3>6
  <2> QED BY <2>1, <2>2 DEF OnePlace
<1>7. NoLostResume'
  BY DEF NotifyIfCompleted, StillPending, futureVars, workerVars, callVars,
    NoLostResume, CallsInProgress
<1>8. ResumedWhenSettled'
  BY DEF NotifyIfCompleted, StillPending, futureVars, workerVars, callVars,
    ResumedWhenSettled, PlaceMatchesPc, AwaitMatchesPc
<1> QED BY <1>1, <1>2, <1>3, <1>4, <1>5, <1>6, <1>7, <1>8 DEF Inv

(* A fiber that starts an operation is on a worker, and its future is new. *)
LEMMA NewFutureStep ==
  ASSUME Inv, NEW f \in Fibers, NEW x \in Futures, NewFuture(f, x)
  PROVE  Inv'
<1> USE Assumption DEF Inv, TypeOK, States, Pcs, Settled, Actors
<1>1. TypeOK'
  BY DEF NewFuture, NotCalling, futureVars, workerVars, callVars
<1>2. AwaitMatchesPc'
  BY DEF NewFuture, NotCalling, futureVars, workerVars, callVars,
    AwaitMatchesPc
<1>3. PlaceMatchesPc'
  BY DEF NewFuture, NotCalling, futureVars, workerVars, callVars,
    AwaitMatchesPc, PlaceMatchesPc, CallsInProgress, OnePlace, Alone,
    Somewhere, SwitchMatchesPending, Running
<1>4. SwitchMatchesPending'
  BY DEF NewFuture, NotCalling, futureVars, workerVars, callVars,
    SwitchMatchesPending, PlaceMatchesPc, CallsInProgress
<1>5. CallsInProgress'
  BY DEF NewFuture, NotCalling, futureVars, workerVars, callVars,
    CallsInProgress, PlaceMatchesPc, SwitchMatchesPending, Running
<1>6. OnePlace'
  <2>1. ASSUME NEW g \in Fibers
        PROVE  Alone(g)' /\ (pc'[g] # "finished" => pc[g] # "finished")
    BY DEF NewFuture, NotCalling, futureVars, workerVars, callVars, OnePlace,
      Alone
  <2>2. ASSUME NEW g \in Fibers, Somewhere(g)
        PROVE  Somewhere(g)'
    BY <2>2 DEF NewFuture, NotCalling, futureVars, workerVars, callVars,
      Somewhere
  <2> QED BY <2>1, <2>2 DEF OnePlace
<1>7. NoLostResume'
  BY DEF NewFuture, NotCalling, futureVars, workerVars, callVars,
    NoLostResume, CallsInProgress
<1>8. ResumedWhenSettled'
  BY DEF NewFuture, NotCalling, futureVars, workerVars, callVars,
    ResumedWhenSettled, PlaceMatchesPc, AwaitMatchesPc
<1> QED BY <1>1, <1>2, <1>3, <1>4, <1>5, <1>6, <1>7, <1>8 DEF Inv

(* The unlocked test moves nobody.                                         *)
LEMMA IsPendingStep ==
  ASSUME Inv, NEW f \in Fibers, IsPending(f)
  PROVE  Inv'
<1> USE Assumption DEF Inv, TypeOK, States, Pcs, Settled, Actors
<1>1. TypeOK'
  BY DEF IsPending, futureVars, workerVars, callVars
<1>2. AwaitMatchesPc'
  BY DEF IsPending, futureVars, workerVars, callVars, AwaitMatchesPc
<1>3. PlaceMatchesPc'
  BY DEF IsPending, futureVars, workerVars, callVars, AwaitMatchesPc,
    PlaceMatchesPc, CallsInProgress, OnePlace, Alone, Somewhere,
    SwitchMatchesPending
<1>4. SwitchMatchesPending'
  BY DEF IsPending, futureVars, workerVars, callVars, SwitchMatchesPending,
    PlaceMatchesPc, CallsInProgress
<1>5. CallsInProgress'
  BY DEF IsPending, futureVars, workerVars, callVars, CallsInProgress,
    PlaceMatchesPc, SwitchMatchesPending, Running, NotCalling
<1>6. OnePlace'
  <2>1. ASSUME NEW g \in Fibers
        PROVE  Alone(g)' /\ (pc'[g] # "finished" => pc[g] # "finished")
    BY DEF IsPending, futureVars, workerVars, callVars, OnePlace, Alone
  <2>2. ASSUME NEW g \in Fibers, Somewhere(g)
        PROVE  Somewhere(g)'
    BY <2>2 DEF IsPending, futureVars, workerVars, callVars, Somewhere
  <2> QED BY <2>1, <2>2 DEF OnePlace
<1>7. NoLostResume'
  BY DEF IsPending, futureVars, workerVars, callVars, NoLostResume,
    CallsInProgress
<1>8. ResumedWhenSettled'
  BY DEF IsPending, futureVars, workerVars, callVars, ResumedWhenSettled,
    PlaceMatchesPc, AwaitMatchesPc
<1> QED BY <1>1, <1>2, <1>3, <1>4, <1>5, <1>6, <1>7, <1>8 DEF Inv

(* Await returns on a worker, and leaves its future.                       *)
LEMMA GetStep ==
  ASSUME Inv, NEW f \in Fibers, Get(f)
  PROVE  Inv'
<1> USE Assumption DEF Inv, TypeOK, States, Pcs, Settled, Actors
<1>1. TypeOK'
  BY DEF Get, futureVars, workerVars, callVars, AwaitMatchesPc
<1>2. AwaitMatchesPc'
  BY DEF Get, futureVars, workerVars, callVars, AwaitMatchesPc
<1>3. PlaceMatchesPc'
  BY DEF Get, futureVars, workerVars, callVars, AwaitMatchesPc,
    PlaceMatchesPc, CallsInProgress, OnePlace, Alone, Somewhere,
    SwitchMatchesPending
<1>4. SwitchMatchesPending'
  BY DEF Get, futureVars, workerVars, callVars, SwitchMatchesPending,
    PlaceMatchesPc, CallsInProgress
<1>5. CallsInProgress'
  BY DEF Get, futureVars, workerVars, callVars, CallsInProgress,
    PlaceMatchesPc, SwitchMatchesPending, Running, NotCalling
<1>6. OnePlace'
  <2>1. ASSUME NEW g \in Fibers
        PROVE  Alone(g)' /\ (pc'[g] # "finished" => pc[g] # "finished")
    BY DEF Get, futureVars, workerVars, callVars, OnePlace, Alone
  <2>2. ASSUME NEW g \in Fibers, Somewhere(g)
        PROVE  Somewhere(g)'
    BY <2>2 DEF Get, futureVars, workerVars, callVars, Somewhere
  <2> QED BY <2>1, <2>2 DEF OnePlace
<1>7. NoLostResume'
  BY DEF Get, futureVars, workerVars, callVars, NoLostResume, CallsInProgress
<1>8. ResumedWhenSettled'
  BY DEF Get, futureVars, workerVars, callVars, ResumedWhenSettled,
    PlaceMatchesPc, AwaitMatchesPc
<1> QED BY <1>1, <1>2, <1>3, <1>4, <1>5, <1>6, <1>7, <1>8 DEF Inv

(* A fiber that leaves goes behind the switch callback of its worker.      *)
LEMMA SwitchToProcesserFiberStep ==
  ASSUME Inv, NEW f \in Fibers, NEW w \in Workers, SwitchToProcesserFiber(f, w)
  PROVE  Inv'
<1> USE Assumption DEF Inv, TypeOK, States, Pcs, Settled, Actors
<1>1. TypeOK'
  BY DEF SwitchToProcesserFiber, futureVars, workerVars, callVars
<1>2. AwaitMatchesPc'
  BY DEF SwitchToProcesserFiber, futureVars, workerVars, callVars,
    AwaitMatchesPc
<1>3. PlaceMatchesPc'
  BY DEF SwitchToProcesserFiber, futureVars, workerVars, callVars,
    AwaitMatchesPc, PlaceMatchesPc, CallsInProgress, OnePlace, Alone,
    Somewhere, SwitchMatchesPending
<1>4. SwitchMatchesPending'
  BY DEF SwitchToProcesserFiber, futureVars, workerVars, callVars,
    SwitchMatchesPending, PlaceMatchesPc, CallsInProgress, AwaitMatchesPc
<1>5. CallsInProgress'
  BY DEF SwitchToProcesserFiber, futureVars, workerVars, callVars,
    CallsInProgress, PlaceMatchesPc, SwitchMatchesPending, Running, NotCalling
<1>6. OnePlace'
  <2>1. ASSUME NEW g \in Fibers
        PROVE  Alone(g)'
    BY SMTT(60) DEF SwitchToProcesserFiber, futureVars, workerVars, callVars,
      OnePlace, Alone, PlaceMatchesPc, SwitchMatchesPending
  <2>2. ASSUME NEW g \in Fibers, pc'[g] # "finished"
        PROVE  Somewhere(g)'
    <3>1. mine[f] \in Futures /\ pendingFiber[mine[f]] \notin Fibers \ {f}
      BY DEF SwitchToProcesserFiber, AwaitMatchesPc, PlaceMatchesPc
    <3>2. CASE g = f
      BY <3>1, <3>2 DEF SwitchToProcesserFiber, Somewhere
    <3>3. CASE g # f
      <4>1. Somewhere(g)
        BY <2>2, <3>3 DEF SwitchToProcesserFiber, OnePlace
      <4> QED BY <3>1, <3>3, <4>1 DEF SwitchToProcesserFiber, callVars,
        Somewhere
    <3> QED BY <3>2, <3>3
  <2> QED BY <2>1, <2>2 DEF OnePlace
<1>7. NoLostResume'
  BY DEF SwitchToProcesserFiber, futureVars, workerVars, callVars,
    NoLostResume, CallsInProgress
<1>8. ResumedWhenSettled'
  BY DEF SwitchToProcesserFiber, futureVars, workerVars, callVars,
    ResumedWhenSettled, PlaceMatchesPc, AwaitMatchesPc
<1> QED BY <1>1, <1>2, <1>3, <1>4, <1>5, <1>6, <1>7, <1>8 DEF Inv

(* A fiber that ends is in no place any more, and was in one only.         *)
LEMMA FiberEntryEndsStep ==
  ASSUME Inv, NEW f \in Fibers, NEW w \in Workers, FiberEntryEnds(f, w)
  PROVE  Inv'
<1> USE Assumption DEF Inv, TypeOK, States, Pcs, Settled, Actors
<1>1. TypeOK'
  BY DEF FiberEntryEnds, NotCalling, futureVars, workerVars, callVars
<1>2. AwaitMatchesPc'
  BY DEF FiberEntryEnds, NotCalling, futureVars, workerVars, callVars,
    AwaitMatchesPc
<1>3. PlaceMatchesPc'
  BY DEF FiberEntryEnds, NotCalling, futureVars, workerVars, callVars,
    AwaitMatchesPc, PlaceMatchesPc, CallsInProgress, OnePlace, Alone,
    Somewhere, SwitchMatchesPending
<1>4. SwitchMatchesPending'
  BY DEF FiberEntryEnds, NotCalling, futureVars, workerVars, callVars,
    SwitchMatchesPending, PlaceMatchesPc, CallsInProgress
<1>5. CallsInProgress'
  BY DEF FiberEntryEnds, NotCalling, futureVars, workerVars, callVars,
    CallsInProgress, PlaceMatchesPc, SwitchMatchesPending, Running
<1>6. OnePlace'
  <2>1. ASSUME NEW g \in Fibers
        PROVE  Alone(g)'
    BY SMTT(60) DEF FiberEntryEnds, NotCalling, futureVars, workerVars,
      callVars, OnePlace, Alone
  <2>2. ASSUME NEW g \in Fibers, pc'[g] # "finished"
        PROVE  Somewhere(g)'
    <3>1. g # f /\ Somewhere(g)
      BY <2>2 DEF FiberEntryEnds, OnePlace
    <3> QED BY <3>1 DEF FiberEntryEnds, futureVars, workerVars, callVars,
      Somewhere
  <2> QED BY <2>1, <2>2 DEF OnePlace
<1>7. NoLostResume'
  BY DEF FiberEntryEnds, NotCalling, futureVars, workerVars, callVars,
    NoLostResume, CallsInProgress
<1>8. ResumedWhenSettled'
  BY DEF FiberEntryEnds, NotCalling, futureVars, workerVars, callVars,
    ResumedWhenSettled, PlaceMatchesPc, AwaitMatchesPc
<1> QED BY <1>1, <1>2, <1>3, <1>4, <1>5, <1>6, <1>7, <1>8 DEF Inv

(* A completion settles a future of which its caller now owes the news.    *)
LEMMA SettleStep ==
  ASSUME Inv, NEW a \in Actors, NEW x \in Futures,
  NEW outcome \in {"completed", "error"}, state[x] # "unused", Settle(a, x,
  outcome)
  PROVE  Inv'
<1> USE Assumption DEF Inv, TypeOK, States, Pcs, Settled, Actors
<1>1. TypeOK'
  BY DEF Settle, MayComplete, InLoop, NotCalling, futureVars, workerVars,
    callVars
<1>2. AwaitMatchesPc'
  BY DEF Settle, MayComplete, InLoop, NotCalling, futureVars, workerVars,
    callVars, AwaitMatchesPc
<1>3. PlaceMatchesPc'
  BY DEF Settle, MayComplete, InLoop, NotCalling, futureVars, workerVars,
    callVars, AwaitMatchesPc, PlaceMatchesPc, CallsInProgress, OnePlace,
    Alone, Somewhere, SwitchMatchesPending
<1>4. SwitchMatchesPending'
  BY DEF Settle, MayComplete, InLoop, NotCalling, futureVars, workerVars,
    callVars, SwitchMatchesPending, PlaceMatchesPc, CallsInProgress
<1>5. CallsInProgress'
  BY DEF Settle, MayComplete, InLoop, NotCalling, futureVars, workerVars,
    callVars, CallsInProgress, PlaceMatchesPc, SwitchMatchesPending, Running
<1>6. OnePlace'
  <2>1. ASSUME NEW g \in Fibers
        PROVE  Alone(g)' /\ (pc'[g] # "finished" => pc[g] # "finished")
    BY DEF Settle, MayComplete, InLoop, NotCalling, futureVars, workerVars,
      callVars, OnePlace, Alone
  <2>2. ASSUME NEW g \in Fibers, Somewhere(g)
        PROVE  Somewhere(g)'
    BY <2>2 DEF Settle, MayComplete, InLoop, NotCalling, futureVars,
      workerVars, callVars, Somewhere
  <2> QED BY <2>1, <2>2 DEF OnePlace
<1>7. NoLostResume'
  BY DEF Settle, MayComplete, InLoop, NotCalling, futureVars, workerVars,
    callVars, NoLostResume, CallsInProgress
<1>8. ResumedWhenSettled'
  BY DEF Settle, MayComplete, InLoop, NotCalling, futureVars, workerVars,
    callVars, ResumedWhenSettled, PlaceMatchesPc, AwaitMatchesPc
<1> QED BY <1>1, <1>2, <1>3, <1>4, <1>5, <1>6, <1>7, <1>8 DEF Inv

(* NotifyAwaiter takes the awaiter: it is in the caller's hands only.      *)
LEMMA NotifyAwaiterStep ==
  ASSUME Inv, NEW a \in Actors, NotifyAwaiter(a)
  PROVE  Inv'
<1> USE Assumption DEF Inv, TypeOK, States, Pcs, Settled, Actors
<1>1. TypeOK'
  BY DEF NotifyAwaiter, futureVars, workerVars, callVars
<1>2. AwaitMatchesPc'
  BY DEF NotifyAwaiter, futureVars, workerVars, callVars, AwaitMatchesPc
<1>3. PlaceMatchesPc'
  BY DEF NotifyAwaiter, futureVars, workerVars, callVars, AwaitMatchesPc,
    PlaceMatchesPc, CallsInProgress, OnePlace, Alone, Somewhere,
    SwitchMatchesPending
<1>4. SwitchMatchesPending'
  BY DEF NotifyAwaiter, futureVars, workerVars, callVars,
    SwitchMatchesPending, PlaceMatchesPc, CallsInProgress
<1>5. CallsInProgress'
  BY DEF NotifyAwaiter, futureVars, workerVars, callVars, CallsInProgress,
    PlaceMatchesPc, SwitchMatchesPending, Running, NotCalling
<1>6. OnePlace'
  <2>1. ASSUME NEW g \in Fibers
        PROVE  Alone(g)'
    BY SMTT(60) DEF NotifyAwaiter, futureVars, workerVars, callVars, OnePlace,
      Alone, CallsInProgress
  <2>2. ASSUME NEW g \in Fibers, pc'[g] # "finished"
        PROVE  Somewhere(g)'
    BY <2>2, SMTT(60) DEF NotifyAwaiter, futureVars, workerVars, callVars,
      OnePlace, Alone, Somewhere, CallsInProgress
  <2> QED BY <2>1, <2>2 DEF OnePlace
<1>7. NoLostResume'
  BY DEF NotifyAwaiter, futureVars, workerVars, callVars, NoLostResume,
    CallsInProgress
<1>8. ResumedWhenSettled'
  BY DEF NotifyAwaiter, futureVars, workerVars, callVars, ResumedWhenSettled,
    PlaceMatchesPc, AwaitMatchesPc
<1> QED BY <1>1, <1>2, <1>3, <1>4, <1>5, <1>6, <1>7, <1>8 DEF Inv

(* Schedule gives the awaiter to a worker or to one queue.                 *)
LEMMA ScheduleStep ==
  ASSUME Inv, NEW a \in Actors, Schedule(a)
  PROVE  Inv'
<1> USE Assumption DEF Inv, TypeOK, States, Pcs, Settled, Actors
<1>1. TypeOK'
  BY DEF Schedule, futureVars, workerVars, callVars
<1>2. AwaitMatchesPc'
  BY DEF Schedule, futureVars, workerVars, callVars, AwaitMatchesPc,
    PlaceMatchesPc
<1>3. PlaceMatchesPc'
  BY DEF Schedule, futureVars, workerVars, callVars, AwaitMatchesPc,
    PlaceMatchesPc, CallsInProgress, OnePlace, Alone, Somewhere,
    SwitchMatchesPending
<1>4. SwitchMatchesPending'
  BY DEF Schedule, futureVars, workerVars, callVars, SwitchMatchesPending,
    PlaceMatchesPc, CallsInProgress, NotCalling
<1>5. CallsInProgress'
  BY DEF Schedule, futureVars, workerVars, callVars, CallsInProgress,
    PlaceMatchesPc, SwitchMatchesPending, Running, NotCalling
<1>6. OnePlace'
  <2>1. ASSUME NEW g \in Fibers
        PROVE  Alone(g)'
    <3>1. Alone(g) /\ handing[a] \in Fibers
      BY DEF Schedule, OnePlace
    <3>2. CASE g # handing[a]
      BY <3>1, <3>2, SMTT(60) DEF Schedule, futureVars, workerVars, callVars,
        Alone
    <3>3. CASE g = handing[a] /\ a \in Workers
      <4>1. running' = [running EXCEPT ![a] = g] /\ UNCHANGED queue
        BY <3>3 DEF Schedule
      <4> QED BY <3>1, <3>3, <4>1, SMTT(60) DEF Schedule, futureVars,
        workerVars, callVars, Alone
    <3>4. CASE g = handing[a] /\ a \notin Workers
      <4>1. PICK w \in Workers : queue' = [queue EXCEPT ![w] = @ \cup {g}]
        BY <3>4 DEF Schedule
      <4>2. UNCHANGED running
        BY <3>4 DEF Schedule
      <4> QED BY <3>1, <3>4, <4>1, <4>2, SMTT(60) DEF Schedule, futureVars,
        workerVars, callVars, Alone
    <3> QED BY <3>2, <3>3, <3>4
  <2>2. ASSUME NEW g \in Fibers, pc'[g] # "finished"
        PROVE  Somewhere(g)'
    <3>1. CASE g = handing[a] /\ a \in Workers
      <4>1. running'[a] = g
        BY <3>1 DEF Schedule
      <4> QED BY <3>1, <4>1 DEF Somewhere
    <3>2. CASE g = handing[a] /\ a \notin Workers
      <4>1. PICK w \in Workers : queue' = [queue EXCEPT ![w] = @ \cup {g}]
        BY <3>2 DEF Schedule
      <4>2. g \in queue'[w]
        BY <4>1
      <4> QED BY <4>2 DEF Somewhere
    <3>3. CASE g # handing[a]
      <4>1. pc'[g] = pc[g]
        BY <3>3 DEF Schedule
      <4>2. Somewhere(g)
        BY <2>2, <4>1 DEF OnePlace
      <4>3. \A x \in Futures : /\ pendingFiber'[x] = pendingFiber[x]
                               /\ awaiter'[x] = awaiter[x]
        BY DEF Schedule, futureVars
      <4>4. \A b \in Actors : handing[b] = g => handing'[b] = g
        BY <3>3 DEF Schedule
      <4>5. \A w \in Workers : g \in queue[w] => g \in queue'[w]
        <5>1. CASE a \in Workers
          BY <5>1 DEF Schedule
        <5>2. CASE a \notin Workers
          <6>1. PICK v \in Workers :
                  queue' = [queue EXCEPT ![v] = @ \cup {handing[a]}]
            BY <5>2 DEF Schedule
          <6> QED BY <6>1
        <5> QED BY <5>1, <5>2
      <4>6. \A w \in Workers : running[w] = g => running'[w] = g
        <5>1. a \in Workers => running[a] = NoFiber
          BY DEF Schedule, CallsInProgress, NotCalling
        <5> QED BY <5>1 DEF Schedule
      <4> QED BY <4>2, <4>3, <4>4, <4>5, <4>6 DEF Somewhere
    <3> QED BY <3>1, <3>2, <3>3
  <2> QED BY <2>1, <2>2 DEF OnePlace
<1>7. NoLostResume'
  BY DEF Schedule, futureVars, workerVars, callVars, NoLostResume,
    CallsInProgress
<1>8. ResumedWhenSettled'
  BY DEF Schedule, futureVars, workerVars, callVars, ResumedWhenSettled,
    PlaceMatchesPc, AwaitMatchesPc
<1> QED BY <1>1, <1>2, <1>3, <1>4, <1>5, <1>6, <1>7, <1>8 DEF Inv

(* Every step keeps the invariant.                                         *)
LEMMA InvInductive == Inv /\ [Next]_vars => Inv'
<1> SUFFICES ASSUME Inv, [Next]_vars
             PROVE  Inv'
  OBVIOUS
<1>1. ASSUME NEW f \in Fibers, FiberStep(f)
      PROVE  Inv'
  BY <1>1, NewFutureStep, IsPendingStep, GetStep, SwitchToProcesserFiberStep,
     FiberEntryEndsStep DEF FiberStep
<1>2. ASSUME NEW w \in Workers, WorkerStep(w)
      PROVE  Inv'
  BY <1>2, ProcessFiberStep, NotifyIfCompletedStep DEF WorkerStep
<1>3. ASSUME NEW a \in Actors, Announce(a)
      PROVE  Inv'
  BY <1>3, NotifyAwaiterStep, ScheduleStep DEF Announce
<1>4. ASSUME NEW a \in Actors, NEW x \in Futures, Complete(a, x) \/ Fail(a, x)
      PROVE  Inv'
  BY <1>4, SettleStep DEF Complete, Fail
<1>5. CASE UNCHANGED vars
  BY <1>5 DEF vars, Inv, TypeOK, AwaitMatchesPc, PlaceMatchesPc, Settled,
     SwitchMatchesPending, CallsInProgress, NotCalling, Running, OnePlace,
     Alone,
     Somewhere, NoLostResume, ResumedWhenSettled
<1> QED BY <1>1, <1>2, <1>3, <1>4, <1>5 DEF Next

(* The invariant holds when the fibers have been launched.                 *)
LEMMA InitInv == Init => Inv
<1> SUFFICES ASSUME Init
             PROVE  Inv
  OBVIOUS
<1> USE Assumption DEF Init, Actors
<1>1. PICK loop \in [Fibers -> Workers] :
        queue = [w \in Workers |-> {f \in Fibers : loop[f] = w}]
  OBVIOUS
<1>2. TypeOK
  BY <1>1 DEF TypeOK, States, Pcs
<1>3. OnePlace
  <2>1. ASSUME NEW f \in Fibers
        PROVE  Alone(f) /\ Somewhere(f)
    BY <1>1 DEF Alone, Somewhere
  <2> QED BY <2>1 DEF OnePlace
<1>4. AwaitMatchesPc /\ PlaceMatchesPc /\ SwitchMatchesPending
  BY <1>1 DEF AwaitMatchesPc, PlaceMatchesPc, SwitchMatchesPending
<1>5. CallsInProgress /\ NoLostResume /\ ResumedWhenSettled
  BY DEF CallsInProgress, NotCalling, NoLostResume, ResumedWhenSettled
<1> QED BY <1>2, <1>3, <1>4, <1>5 DEF Inv

(* Type correctness and the inductive invariant, for all fibers, workers   *)
(* and threads.                                                            *)
THEOREM InvariantHolds == Spec => []IInv
<1>1. Inv => IInv
  BY OnePlaceEquiv DEF Inv, IInv
<1> QED BY <1>1, InitInv, InvInductive, PTL DEF Spec

(* No fiber is lost, and none is given to two workers, whatever the order  *)
(* of its switch and the completion of its future.                         *)
THEOREM FiberNeverLost == Spec => []FiberInOnePlace
<1>1. IInv => FiberInOnePlace
  BY DEF IInv
<1> QED BY <1>1, InvariantHolds, PTL

(* No fiber waits in a settled future that nobody is about to take it      *)
(* from: the window between the unlocked test and the switch is closed.    *)
THEOREM NoResumeLost == Spec => []NoLostResume
<1>1. IInv => NoLostResume
  BY DEF IInv
<1> QED BY <1>1, InvariantHolds, PTL

(* A fiber that was switched away returns to a settled future, so that Get *)
(* never blocks its worker.                                                *)
THEOREM ResumedFiberHasResult == Spec => []ResumedWhenSettled
<1>1. IInv => ResumedWhenSettled
  BY DEF IInv
<1> QED BY <1>1, InvariantHolds, PTL

=============================================================================
