------------------------- MODULE AsyncSemaphore_proofs -------------------------
(***************************************************************************)
(* Theorems about AsyncSemaphore: nobody waits beside a free permit, and   *)
(* no permit is made or lost as long as they are given back one by one.    *)
(***************************************************************************)
EXTENDS AsyncSemaphore, FiniteSetTheorems, SequenceTheorems, TLAPS

(* A permit on its way is on its way once. *)
GrantedOnce ==
  \A a, b \in Actors : \A i \in DOMAIN waking[a], j \in DOMAIN waking[b] :
    waking[a][i] = waking[b][j] => a = b /\ i = j

Singles == PermitsConserved /\ NoStaleWaiter /\ GrantedOnce /\ IsFiniteSet(Granted)

IInv == TypeOK /\ NoIdlePermit /\ (posts = 0 => Singles)

----------------------------------------------------------------------------
(* The list and what is taken from it. *)
LEMMA ListSplit ==
  ASSUME NEW S, NEW s \in Seq(S), s # <<>>
  PROVE  /\ Len(s) \in Nat /\ Len(s) > 0 /\ s[Len(s)] \in S /\ Len(s) \in DOMAIN s
         /\ SubSeq(s, 1, Len(s) - 1) \in Seq(S)
         /\ DOMAIN SubSeq(s, 1, Len(s) - 1) = 1 .. Len(s) - 1
         /\ \A i \in 1 .. Len(s) - 1 : SubSeq(s, 1, Len(s) - 1)[i] = s[i]
<1>1. Len(s) \in Nat /\ Len(s) > 0 /\ DOMAIN s = 1 .. Len(s)
  OBVIOUS
<1>2. SubSeq(s, 1, Len(s) - 1) = [i \in 1 .. Len(s) - 1 |-> s[i]]
  BY <1>1
<1>3. \A i \in 1 .. Len(s) : s[i] \in S
  BY <1>1
<1>4. [i \in 1 .. Len(s) - 1 |-> s[i]] \in Seq(S)
  BY <1>1, <1>3, Len(s) - 1 \in Nat
<1> QED BY <1>1, <1>2, <1>3, <1>4

(* What a batch takes from the list. *)
LEMMA Prefix ==
  ASSUME NEW S, NEW s \in Seq(S), NEW n \in Nat, n <= Len(s)
  PROVE  SubSeq(s, 1, n) \in Seq(S)
<1>1. SubSeq(s, 1, n) = [i \in 1 .. n |-> s[i]]
  OBVIOUS
<1>2. \A i \in 1 .. n : s[i] \in S
  OBVIOUS
<1> QED BY <1>1, <1>2

----------------------------------------------------------------------------
(* Types *)

LEMMA TypeInit == Init => TypeOK
  BY Assumption DEF Init, TypeOK, Actors

LEMMA GiveTypes ==
  ASSUME TypeOK, NEW a \in Actors, Give(a)
  PROVE  counter' \in Nat /\ waiters' \in Seq(FutureSet) /\ waking' \in [Actors -> Seq(FutureSet)]
<1>1. CASE waiters = <<>>
  BY <1>1 DEF TypeOK, Give
<1>2. CASE waiters # <<>>
  <2>1. waiters[Len(waiters)] \in FutureSet /\ SubSeq(waiters, 1, Len(waiters) - 1) \in Seq(FutureSet)
    BY <1>2, ListSplit DEF TypeOK
  <2>2. <<waiters[Len(waiters)]>> \in Seq(FutureSet)
    BY <2>1
  <2> QED BY <1>2, <2>1, <2>2 DEF TypeOK, Give
<1> QED BY <1>1, <1>2

LEMMA UnlockManyTypes ==
  ASSUME TypeOK, NEW n \in Batches, UnlockMany(n)
  PROVE  counter' \in Nat /\ waiters' \in Seq(FutureSet) /\ waking' \in [Actors -> Seq(FutureSet)]
<1> USE Assumption
<1>0. n \in Nat /\ Poster \in Actors /\ Len(waiters) \in Nat
  BY DEF Actors, TypeOK
<1>1. CASE waiters = <<>> /\ counter' = counter + n /\ UNCHANGED <<waiters, waking>>
  BY <1>0, <1>1 DEF TypeOK
<1>2. CASE GiveAll(n)
  BY <1>0, <1>2 DEF TypeOK, GiveAll
<1>3. CASE GiveSome(n)
  <2>1. SubSeq(waiters, 1, n) \in Seq(FutureSet)
    BY <1>0, <1>3, Prefix DEF GiveSome, TypeOK
  <2> QED BY <1>0, <1>3, <2>1 DEF TypeOK, GiveSome
<1> QED BY <1>1, <1>2, <1>3 DEF UnlockMany

LEMMA CompleteTypes ==
  ASSUME TypeOK, NEW a \in Actors, Complete(a)
  PROVE  /\ waking' \in [Actors -> Seq(FutureSet)] /\ Head(waking[a]) \in FutureSet
         /\ pc' \in [Fibers -> {"idle", "waiting", "holding"}] /\ acquired' \in Nat
<1>1. waking[a] \in Seq(FutureSet) /\ waking[a] # <<>>
  BY DEF TypeOK, Complete
<1>2. Head(waking[a]) \in FutureSet /\ Tail(waking[a]) \in Seq(FutureSet)
  BY <1>1
<1>3. Head(waking[a]).fiber \in Fibers
  BY <1>2 DEF FutureSet
<1>4. waking' = [waking EXCEPT ![a] = Tail(waking[a])]
  BY DEF Complete
<1>5. UNCHANGED <<pc, acquired>> \/ Wakes(Head(waking[a]).fiber)
  BY DEF Complete
<1> QED BY <1>2, <1>3, <1>4, <1>5 DEF TypeOK, Wakes

LEMMA TypeNext ==
  ASSUME TypeOK, [Next]_vars
  PROVE  TypeOK'
<1> USE Assumption
<1>1. ASSUME NEW f \in Fibers, Take(f) PROVE TypeOK'
  BY <1>1 DEF TypeOK, Take, Asks
<1>2. ASSUME NEW f \in Fibers, Await(f) PROVE TypeOK'
  <2>1. call' \in [Fibers -> 0 .. Calls] /\ call'[f] \in 1 .. Calls
    BY <1>2 DEF TypeOK, Await, Asks
  <2>2. [fiber |-> f, call |-> call'[f]] \in FutureSet
    BY <2>1 DEF FutureSet
  <2>3. waiters' \in Seq(FutureSet)
    BY <1>2, <2>2 DEF TypeOK, Await
  <2> QED BY <1>2, <2>1, <2>3 DEF TypeOK, Await, Asks
<1>3. ASSUME NEW f \in Fibers, Unlock(f) PROVE TypeOK'
  <2>1. f \in Actors
    BY DEF Actors
  <2> QED BY <1>3, <2>1, GiveTypes DEF TypeOK, Unlock
<1>4. ASSUME NEW n \in Batches, UnlockMany(n) PROVE TypeOK'
  <2>1. n \in Nat
    OBVIOUS
  <2> QED BY <1>4, <2>1, UnlockManyTypes DEF TypeOK, UnlockMany
<1>5. ASSUME NEW a \in Actors, Complete(a) PROVE TypeOK'
  BY <1>5, CompleteTypes DEF TypeOK, Complete
<1>6. CASE UNCHANGED vars
  BY <1>6 DEF TypeOK, vars
<1> QED BY <1>1, <1>2, <1>3, <1>4, <1>5, <1>6 DEF Next, LockAsync, TryLock

----------------------------------------------------------------------------
(* Nobody waits beside a free permit *)

LEMMA IdleNext ==
  ASSUME TypeOK, NoIdlePermit, [Next]_vars
  PROVE  NoIdlePermit'
<1>1. ASSUME NEW f \in Fibers, Take(f) PROVE NoIdlePermit'
  BY <1>1 DEF Take, NoIdlePermit
<1>2. ASSUME NEW f \in Fibers, Await(f) PROVE NoIdlePermit'
  BY <1>2 DEF Await, NoIdlePermit
<1>3. ASSUME NEW f \in Fibers, Unlock(f) PROVE NoIdlePermit'
  BY <1>3 DEF Unlock, Give, NoIdlePermit
<1>4. ASSUME NEW n \in Batches, UnlockMany(n) PROVE NoIdlePermit'
  BY <1>4 DEF UnlockMany, GiveAll, GiveSome, NoIdlePermit
<1>5. ASSUME NEW a \in Actors, Complete(a) PROVE NoIdlePermit'
  BY <1>5 DEF Complete, NoIdlePermit
<1>6. CASE UNCHANGED vars
  BY <1>6 DEF NoIdlePermit, vars
<1> QED BY <1>1, <1>2, <1>3, <1>4, <1>5, <1>6 DEF Next, LockAsync, TryLock

----------------------------------------------------------------------------
(* Permits given back one by one *)

(* A future is on its way only in somebody's hands. *)
LEMMA GrantedIs ==
  ASSUME TypeOK, NEW x
  PROVE  x \in Granted <=> \E a \in Actors : \E i \in DOMAIN waking[a] : waking[a][i] = x
<1>1. ASSUME NEW a \in Actors, NEW i \in DOMAIN waking[a] PROVE waking[a][i] \in FutureSet
  <2>1. waking[a] \in Seq(FutureSet)
    BY DEF TypeOK
  <2> QED BY <2>1
<1> QED BY <1>1 DEF Granted

(* A fiber that does not wait has no future anywhere. *)
LEMMA AwayFromLists ==
  ASSUME NoStaleWaiter, NEW f \in Fibers, pc[f] # "waiting"
  PROVE  /\ \A i \in DOMAIN waiters : waiters[i].fiber # f
         /\ \A x \in Granted : x.fiber # f
  BY DEF NoStaleWaiter, Live

LEMMA TakeSingles ==
  ASSUME TypeOK, Singles, NEW f \in Fibers, Take(f)
  PROVE  Singles'
<1>1. /\ pc[f] = "idle" /\ counter \in Nat /\ counter > 0 /\ counter' = counter - 1
      /\ acquired \in Nat /\ released \in Nat /\ acquired' = acquired + 1
      /\ pc' = [pc EXCEPT ![f] = "holding"] /\ call' = [call EXCEPT ![f] = call[f] + 1]
      /\ UNCHANGED <<waiters, waking, released>>
  BY DEF Take, Asks, TypeOK
<1>2. Granted' = Granted
  BY <1>1 DEF Granted
<1>3. Cardinality(Granted) \in Nat
  BY FS_CardinalityType DEF Singles
<1>4. PermitsConserved'
  BY <1>1, <1>2, <1>3, Assumption DEF Singles, PermitsConserved
<1>5. NoStaleWaiter'
  <2>1. ASSUME NEW x, Live(x), x.fiber # f PROVE Live(x)'
    BY <1>1, <2>1 DEF Live, TypeOK
  <2>2. /\ \A i \in DOMAIN waiters : waiters[i].fiber # f
        /\ \A x \in Granted : x.fiber # f
    BY <1>1, AwayFromLists DEF Singles
  <2> QED BY <1>1, <1>2, <2>1, <2>2 DEF Singles, NoStaleWaiter
<1> QED BY <1>1, <1>2, <1>4, <1>5 DEF Singles, GrantedOnce

LEMMA AwaitSingles ==
  ASSUME TypeOK, Singles, NEW f \in Fibers, Await(f)
  PROVE  Singles'
<1>0. PICK x : x = [fiber |-> f, call |-> call'[f]]
  OBVIOUS
<1>1. /\ pc[f] = "idle" /\ UNCHANGED <<counter, acquired, waking, released>>
      /\ pc' = [pc EXCEPT ![f] = "waiting"] /\ call' = [call EXCEPT ![f] = call[f] + 1]
      /\ waiters \in Seq(FutureSet) /\ waiters' = Append(waiters, x)
  BY <1>0 DEF Await, Asks, TypeOK
<1>2. Granted' = Granted
  BY <1>1 DEF Granted
<1>3. PermitsConserved'
  BY <1>1, <1>2 DEF Singles, PermitsConserved
<1>4. /\ DOMAIN waiters' = 1 .. Len(waiters) + 1 /\ DOMAIN waiters = 1 .. Len(waiters)
      /\ Len(waiters) \in Nat /\ waiters'[Len(waiters) + 1] = x
      /\ \A i \in 1 .. Len(waiters) : waiters'[i] = waiters[i]
  BY <1>1
<1>5. ASSUME NEW y, Live(y), y.fiber # f PROVE Live(y)'
  BY <1>1, <1>5 DEF Live, TypeOK
<1>6. x.fiber = f /\ Live(x)'
  BY <1>0, <1>1 DEF Live, TypeOK
<1>7. /\ \A i \in DOMAIN waiters : waiters[i].fiber # f
      /\ \A y \in Granted : y.fiber # f
  BY <1>1, AwayFromLists DEF Singles
<1>8. NoStaleWaiter'
  <2>1. \A i, j \in DOMAIN waiters' : waiters'[i] = waiters'[j] => i = j
    BY <1>4, <1>6, <1>7 DEF Singles, NoStaleWaiter
  <2>2. ASSUME NEW i \in DOMAIN waiters' PROVE Live(waiters[i])' /\ waiters'[i] \notin Granted'
    <3>1. CASE i = Len(waiters) + 1
      BY <1>2, <1>4, <1>6, <1>7, <3>1 DEF Live
    <3>2. CASE i # Len(waiters) + 1
      <4>1. i \in DOMAIN waiters /\ waiters'[i] = waiters[i]
        BY <1>4, <3>2
      <4>2. Live(waiters[i]) /\ waiters[i] \notin Granted /\ waiters[i].fiber # f
        BY <1>7, <4>1 DEF Singles, NoStaleWaiter
      <4> QED BY <1>2, <1>5, <4>1, <4>2 DEF Live
    <3> QED BY <3>1, <3>2
  <2>3. \A y \in Granted' : Live(y)'
    BY <1>2, <1>5, <1>7 DEF Singles, NoStaleWaiter
  <2> QED BY <2>1, <2>2, <2>3 DEF NoStaleWaiter
<1> QED BY <1>1, <1>2, <1>3, <1>8 DEF Singles, GrantedOnce

LEMMA UnlockSingles ==
  ASSUME TypeOK, Singles, NEW f \in Fibers, Unlock(f)
  PROVE  Singles'
<1>1. /\ pc[f] = "holding" /\ waking[f] = <<>> /\ Give(f) /\ f \in Actors
      /\ pc' = [pc EXCEPT ![f] = "idle"] /\ released \in Nat /\ released' = released + 1
      /\ counter \in Nat /\ acquired \in Nat /\ waiters \in Seq(FutureSet)
      /\ UNCHANGED <<call, acquired>>
  BY DEF Unlock, TypeOK, Actors
<1>2. Cardinality(Granted) \in Nat
  BY FS_CardinalityType DEF Singles
<1>3. ASSUME NEW y, Live(y), y.fiber # f PROVE Live(y)'
  BY <1>1, <1>3 DEF Live, TypeOK
<1>4. /\ \A i \in DOMAIN waiters : waiters[i].fiber # f
      /\ \A y \in Granted : y.fiber # f
  BY <1>1, AwayFromLists DEF Singles
<1>5. CASE waiters = <<>>
  <2>1. counter' = counter + 1 /\ UNCHANGED <<waiters, waking>>
    BY <1>1, <1>5 DEF Give
  <2>2. Granted' = Granted
    BY <2>1 DEF Granted
  <2>3. PermitsConserved'
    <3>1. counter + Cardinality(Granted) + acquired = Permits + released /\ Permits \in Nat
      BY Assumption DEF Singles, PermitsConserved
    <3>2. (counter + 1) + Cardinality(Granted) + acquired = Permits + (released + 1)
      BY <1>1, <1>2, <3>1
    <3> QED BY <1>1, <2>1, <2>2, <3>2 DEF PermitsConserved
  <2>4. NoStaleWaiter'
    BY <1>3, <1>4, <2>1, <2>2 DEF Singles, NoStaleWaiter
  <2> QED BY <2>1, <2>2, <2>3, <2>4 DEF Singles, GrantedOnce
<1>6. CASE waiters # <<>>
  <2> DEFINE x == waiters[Len(waiters)]
  <2>1. /\ waking' = [waking EXCEPT ![f] = <<x>>] /\ counter' = counter
        /\ waiters' = SubSeq(waiters, 1, Len(waiters) - 1)
    BY <1>1, <1>6 DEF Give
  <2>2. /\ Len(waiters) \in Nat /\ Len(waiters) > 0 /\ x \in FutureSet
        /\ DOMAIN waiters = 1 .. Len(waiters) /\ DOMAIN waiters' = 1 .. Len(waiters) - 1
        /\ \A i \in 1 .. Len(waiters) - 1 : waiters'[i] = waiters[i]
    BY <1>1, <1>6, <2>1, ListSplit
  <2>3. x \notin Granted /\ Live(x) /\ x.fiber # f
    BY <1>4, <2>2 DEF Singles, NoStaleWaiter
  <2>4. \A i \in DOMAIN waiters' : waiters'[i] # x
    BY <2>2 DEF Singles, NoStaleWaiter
  <2> HIDE DEF x
  <2>5. /\ waking'[f] = <<x>> /\ \A a \in Actors : a # f => waking'[a] = waking[a]
        /\ waking \in [Actors -> Seq(FutureSet)]
    BY <1>1, <2>1 DEF TypeOK
  <2>6. Granted' = Granted \cup {x}
    <3>1. ASSUME NEW y PROVE y \in Granted' <=> y \in Granted \cup {x}
      <4>1. \A a \in Actors : a # f =>
               ((\E i \in DOMAIN waking'[a] : waking'[a][i] = y) <=> \E i \in DOMAIN waking[a] : waking[a][i] = y)
        BY <2>5
      <4>2. (\E i \in DOMAIN waking'[f] : waking'[f][i] = y) <=> y = x
        BY <2>5
      <4>3. ~ \E i \in DOMAIN waking[f] : waking[f][i] = y
        BY <1>1
      <4>4. x \in FutureSet
        BY <2>2
      <4> QED BY <1>1, <4>1, <4>2, <4>3, <4>4 DEF Granted
    <3> QED BY <3>1
  <2>7. IsFiniteSet(Granted') /\ Cardinality(Granted') = Cardinality(Granted) + 1
    BY <2>3, <2>6, FS_AddElement DEF Singles
  <2>8. PermitsConserved'
    <3>1. counter + Cardinality(Granted) + acquired = Permits + released /\ Permits \in Nat
      BY Assumption DEF Singles, PermitsConserved
    <3>2. counter \in Nat /\ acquired \in Nat /\ released \in Nat
      BY <1>1
    <3>3. counter + (Cardinality(Granted) + 1) + acquired = Permits + (released + 1)
      BY <1>2, <3>1, <3>2
    <3> QED BY <1>1, <2>1, <2>7, <3>3 DEF PermitsConserved
  <2>9. NoStaleWaiter'
    <3>1. \A i, j \in DOMAIN waiters' : waiters'[i] = waiters'[j] => i = j
      BY <2>2 DEF Singles, NoStaleWaiter
    <3>2. ASSUME NEW i \in DOMAIN waiters' PROVE Live(waiters[i])' /\ waiters'[i] \notin Granted'
      <4>1. i \in DOMAIN waiters /\ waiters'[i] = waiters[i]
        BY <2>2
      <4>2. Live(waiters[i]) /\ waiters[i] \notin Granted /\ waiters[i].fiber # f
        BY <1>4, <4>1 DEF Singles, NoStaleWaiter
      <4> QED BY <1>3, <2>4, <2>6, <4>1, <4>2 DEF Live
    <3>3. \A y \in Granted' : Live(y)'
      BY <1>3, <1>4, <2>3, <2>6 DEF Singles, NoStaleWaiter
    <3> QED BY <3>1, <3>2, <3>3 DEF NoStaleWaiter
  <2>10. GrantedOnce'
    <3>1. \A a \in Actors : \A i \in DOMAIN waking[a] : waking[a][i] # x
      BY <2>3, GrantedIs
    <3>2. DOMAIN waking'[f] = {1} /\ waking'[f][1] = x
      BY <2>5
    <3>3. SUFFICES ASSUME NEW a \in Actors, NEW b \in Actors,
                          NEW i \in DOMAIN waking'[a], NEW j \in DOMAIN waking'[b],
                          waking'[a][i] = waking'[b][j]
                   PROVE  a = b /\ i = j
      BY DEF GrantedOnce
    <3>4. CASE a = f /\ b = f
      BY <3>2, <3>3, <3>4
    <3>5. CASE a # f /\ b # f
      BY <2>5, <3>3, <3>5 DEF Singles, GrantedOnce
    <3>6. CASE a = f /\ b # f
      BY <2>5, <3>1, <3>2, <3>3, <3>6
    <3>7. CASE a # f /\ b = f
      BY <2>5, <3>1, <3>2, <3>3, <3>7
    <3> QED BY <3>4, <3>5, <3>6, <3>7
  <2> QED BY <2>7, <2>8, <2>9, <2>10 DEF Singles
<1> QED BY <1>5, <1>6

LEMMA CompleteSingles ==
  ASSUME TypeOK, Singles, NEW a \in Actors, Complete(a)
  PROVE  Singles'
<1> DEFINE x == Head(waking[a])
<1>1. /\ waking[a] \in Seq(FutureSet) /\ waking[a] # <<>> /\ waking' = [waking EXCEPT ![a] = Tail(waking[a])]
      /\ waking \in [Actors -> Seq(FutureSet)]
      /\ UNCHANGED <<counter, waiters, call, released>>
      /\ counter \in Nat /\ released \in Nat /\ acquired \in Nat
  BY DEF Complete, TypeOK
<1>2. /\ Len(waking[a]) \in Nat /\ Len(waking[a]) > 0 /\ x = waking[a][1] /\ x \in FutureSet
      /\ DOMAIN waking[a] = 1 .. Len(waking[a]) /\ DOMAIN Tail(waking[a]) = 1 .. Len(waking[a]) - 1
      /\ \A i \in 1 .. Len(waking[a]) - 1 : Tail(waking[a])[i] = waking[a][i + 1]
  BY <1>1
<1>3. x \in Granted
  BY <1>2, GrantedIs
<1>4. Live(x) /\ x.fiber \in Fibers
  BY <1>2, <1>3 DEF Singles, NoStaleWaiter, FutureSet
<1>5. pc' = [pc EXCEPT ![x.fiber] = "holding"] /\ acquired' = acquired + 1
  BY <1>4 DEF Complete, Wakes
<1> HIDE DEF x
<1>6. waking'[a] = Tail(waking[a]) /\ \A b \in Actors : b # a => waking'[b] = waking[b]
  BY <1>1
<1>7. \A b \in Actors : \A i \in DOMAIN waking'[b] :
        \E j \in DOMAIN waking[b] : waking'[b][i] = waking[b][j] /\ (b = a => j = i + 1) /\ (b # a => j = i)
  <2>1. SUFFICES ASSUME NEW b \in Actors, NEW i \in DOMAIN waking'[b]
                 PROVE  \E j \in DOMAIN waking[b] :
                          waking'[b][i] = waking[b][j] /\ (b = a => j = i + 1) /\ (b # a => j = i)
    OBVIOUS
  <2>2. CASE b = a
    <3>1. i \in 1 .. Len(waking[a]) - 1 /\ waking'[b][i] = waking[a][i + 1]
      BY <1>2, <1>6, <2>2
    <3>2. i + 1 \in DOMAIN waking[b]
      BY <1>2, <2>2, <3>1
    <3> QED BY <2>2, <3>1, <3>2
  <2>3. CASE b # a
    BY <1>6, <2>3
  <2> QED BY <2>2, <2>3
<1>8. Granted' = Granted \ {x}
  <2>1. ASSUME NEW y \in Granted' PROVE y \in Granted \ {x}
    <3>1. y \in FutureSet
      BY DEF Granted
    <3>9. PICK b \in Actors : \E i \in DOMAIN waking'[b] : waking'[b][i] = y
      BY DEF Granted
    <3>2. PICK i \in DOMAIN waking'[b] : waking'[b][i] = y
      BY <3>9
    <3>3. PICK j \in DOMAIN waking[b] : waking[b][j] = y /\ (b = a => j = i + 1)
      BY <1>7, <3>2
    <3>4. y \in Granted
      BY <3>1, <3>3 DEF Granted
    <3>5. b = a => i \in 1 .. Len(waking[a]) - 1
      BY <1>2, <1>6
    <3>6. y # x
      BY <1>2, <3>3, <3>5 DEF Singles, GrantedOnce
    <3> QED BY <3>4, <3>6
  <2>2. ASSUME NEW y \in Granted, y # x PROVE y \in Granted'
    <3>1. y \in FutureSet
      BY DEF Granted
    <3>9. PICK b \in Actors : \E j \in DOMAIN waking[b] : waking[b][j] = y
      BY DEF Granted
    <3>2. PICK j \in DOMAIN waking[b] : waking[b][j] = y
      BY <3>9
    <3>3. CASE b # a
      BY <1>6, <3>1, <3>2, <3>3 DEF Granted
    <3>4. CASE b = a
      <4>1. j \in 1 .. Len(waking[a]) /\ j # 1
        BY <1>2, <2>2, <3>2, <3>4
      <4>2. j - 1 \in 1 .. Len(waking[a]) - 1 /\ (j - 1) + 1 = j
        BY <1>2, <4>1
      <4>3. j - 1 \in DOMAIN waking'[a] /\ waking'[a][j - 1] = y
        BY <1>2, <1>6, <3>2, <3>4, <4>2
      <4> QED BY <3>1, <4>3 DEF Granted
    <3> QED BY <3>3, <3>4
  <2> QED BY <2>1, <2>2
<1>9. IsFiniteSet(Granted') /\ Cardinality(Granted') = Cardinality(Granted) - 1 /\ Cardinality(Granted) \in Nat
  BY <1>3, <1>8, FS_RemoveElement, FS_CardinalityType DEF Singles
<1>10. PermitsConserved'
  BY <1>1, <1>5, <1>9, Assumption DEF Singles, PermitsConserved
<1>11. ASSUME NEW y, y \in FutureSet, Live(y), y # x PROVE Live(y)'
  <2>1. y.fiber # x.fiber
    BY <1>2, <1>4, <1>11 DEF Live, FutureSet
  <2> QED BY <1>1, <1>5, <1>11, <2>1 DEF Live, TypeOK, FutureSet
<1>12. NoStaleWaiter'
  <2>1. \A i \in DOMAIN waiters : waiters[i] \in FutureSet
    BY DEF TypeOK
  <2>2. \A i \in DOMAIN waiters : waiters[i] # x
    BY <1>3 DEF Singles, NoStaleWaiter
  <2>3. ASSUME NEW i \in DOMAIN waiters PROVE Live(waiters[i])' /\ waiters[i] \notin Granted'
    <3>1. Live(waiters[i]) /\ waiters[i] \notin Granted /\ waiters[i] \in FutureSet /\ waiters[i] # x
      BY <2>1, <2>2 DEF Singles, NoStaleWaiter
    <3> QED BY <1>1, <1>8, <1>11, <3>1 DEF Live
  <2>4. \A y \in Granted' : Live(y)'
    BY <1>8, <1>11 DEF Singles, NoStaleWaiter, Granted
  <2> QED BY <1>1, <2>3, <2>4 DEF Singles, NoStaleWaiter
<1>13. GrantedOnce'
  <2>1. SUFFICES ASSUME NEW b \in Actors, NEW c \in Actors,
                        NEW i \in DOMAIN waking'[b], NEW j \in DOMAIN waking'[c],
                        waking'[b][i] = waking'[c][j]
                 PROVE  b = c /\ i = j
    BY DEF GrantedOnce
  <2>2. PICK k \in DOMAIN waking[b] : waking'[b][i] = waking[b][k] /\ (b = a => k = i + 1) /\ (b # a => k = i)
    BY <1>7
  <2>3. PICK l \in DOMAIN waking[c] : waking'[c][j] = waking[c][l] /\ (c = a => l = j + 1) /\ (c # a => l = j)
    BY <1>7
  <2>9. waking[b][k] = waking[c][l]
    BY <2>1, <2>2, <2>3
  <2>4. b = c /\ k = l
    BY <2>9 DEF Singles, GrantedOnce
  <2>8. DOMAIN waking'[a] = 1 .. Len(waking[a]) - 1
    BY <1>2, <1>6
  <2>5. b = a => i \in Int /\ j \in Int
    BY <1>2, <2>4, <2>8
  <2> QED BY <2>2, <2>3, <2>4, <2>5
<1> QED BY <1>9, <1>10, <1>12, <1>13 DEF Singles

LEMMA SinglesNext ==
  ASSUME TypeOK, posts = 0 => Singles, [Next]_vars
  PROVE  posts' = 0 => Singles'
<1> SUFFICES ASSUME posts' = 0 PROVE Singles'
  OBVIOUS
<1>1. ASSUME NEW n \in Batches, UnlockMany(n) PROVE FALSE
  BY <1>1, Assumption DEF UnlockMany, TypeOK
<1>2. posts = 0
  BY <1>1 DEF Next, vars, LockAsync, TryLock, Take, Await, Asks, Unlock, Complete
<1>3. CASE UNCHANGED vars
  BY <1>2, <1>3 DEF vars, Singles, PermitsConserved, NoStaleWaiter, GrantedOnce, Granted, Live
<1> QED BY <1>1, <1>2, <1>3, TakeSingles, AwaitSingles, UnlockSingles, CompleteSingles
        DEF Next, LockAsync, TryLock

LEMMA SinglesInit == Init => Singles
<1> SUFFICES ASSUME Init PROVE Singles
  OBVIOUS
<1>1. \A a \in Actors : waking[a] = <<>>
  BY DEF Init
<1>2. Granted = {}
  BY <1>1 DEF Granted
<1>3. Cardinality(Granted) = 0 /\ IsFiniteSet(Granted)
  BY <1>2, FS_EmptySet
<1> QED BY <1>1, <1>2, <1>3, Assumption DEF Init, Singles, PermitsConserved, NoStaleWaiter, GrantedOnce

----------------------------------------------------------------------------
(* The inductive invariant, for all fibers, permits and batches. *)
THEOREM InvariantHolds == Spec => []IInv
<1>1. Init => IInv
  BY TypeInit, SinglesInit DEF IInv, NoIdlePermit, Init
<1>2. IInv /\ [Next]_vars => IInv'
  BY TypeNext, IdleNext, SinglesNext DEF IInv
<1> QED BY <1>1, <1>2, PTL DEF Spec

(* Every variable has its type; the counter never falls below zero: Lock   *)
(* takes a permit only where there is one.                                 *)
THEOREM TypesHold == Spec => []TypeOK
<1>1. IInv => TypeOK
  BY DEF IInv
<1> QED BY <1>1, InvariantHolds, PTL

(* Whatever is given back, one by one or in batches, nobody sleeps beside  *)
(* a permit: Unlock looks at the list before it touches the counter.       *)
THEOREM NobodyWaitsInVain == Spec => []NoIdlePermit
<1>1. IInv => NoIdlePermit
  BY DEF IInv
<1> QED BY <1>1, InvariantHolds, PTL

(* Before the first Unlock(count) the permits in the counter, on their way *)
(* and taken are those there were and those given back, and every future   *)
(* in the list or in somebody's hands is that of a call that still waits.  *)
THEOREM PermitsAreConserved == Spec => []SinglesConservePermits
<1>1. IInv => SinglesConservePermits
  BY DEF IInv, Singles, SinglesConservePermits
<1> QED BY <1>1, InvariantHolds, PTL

============================================================================
