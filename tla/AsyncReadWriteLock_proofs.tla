---------------------- MODULE AsyncReadWriteLock_proofs ----------------------
(***************************************************************************)
(* For every number of fibers: the fields of the lock always say who holds *)
(* it, and to the fibers it is the read-write lock of ReadWriteLock.       *)
(***************************************************************************)
EXTENDS AsyncReadWriteLock, SequenceTheorems, FiniteSetTheorems, TLAPS

Listed(s) == {s[i] : i \in DOMAIN s}
Injective(s) == \A i, j \in DOMAIN s : s[i] = s[j] => i = j

(* A writer that joins the waiters is the first of them, and the only one  *)
(* to join.                                                                *)
LEMMA JoinWaiters ==
  ASSUME NEW S, NEW s \in Seq(S), NEW f \in S, Injective(s), f \notin Listed(s)
  PROVE  /\ <<f>> \o s \in Seq(S) /\ <<f>> \o s # <<>>
         /\ Injective(<<f>> \o s)
         /\ Listed(<<f>> \o s) = Listed(s) \cup {f}
<1> DEFINE t == <<f>> \o s
<1>1. /\ t \in Seq(S)
      /\ Len(t) = Len(s) + 1
      /\ \A i \in 1..Len(t) : t[i] = IF i = 1 THEN f ELSE s[i - 1]
  BY ConcatProperties
<1>2. /\ Len(s) \in Nat
      /\ DOMAIN s = 1..Len(s) /\ DOMAIN t = 1..Len(t)
  BY <1>1, LenProperties
<1>3. t[1] = f /\ \A i \in 1..Len(s) : t[i + 1] = s[i]
  BY <1>1, <1>2
<1> HIDE DEF t
<1>4. Injective(t)
  <2>1. \A i \in 1..Len(s) : s[i] # f
    BY <1>2 DEF Listed
  <2>2. ASSUME NEW i \in 1..Len(t), NEW j \in 1..Len(t),
    t[i] = t[j] PROVE i = j
    <3>1. CASE i = 1
      BY <1>1, <1>2, <2>1, <2>2, <3>1
    <3>2. CASE j = 1
      BY <1>1, <1>2, <2>1, <2>2, <3>2
    <3>3. CASE i # 1 /\ j # 1
      <4>1. i - 1 \in DOMAIN s /\ j - 1 \in DOMAIN s /\ s[i - 1] = s[j - 1]
        BY <1>1, <1>2, <2>2, <3>3
      <4> QED BY <1>1, <1>2, <4>1 DEF Injective
    <3> QED BY <3>1, <3>2, <3>3
  <2> QED BY <1>2, <2>2 DEF Injective
<1>5. Listed(t) = Listed(s) \cup {f}
  <2>1. ASSUME NEW x \in Listed(t) PROVE x \in Listed(s) \cup {f}
    BY <1>1, <1>2 DEF Listed
  <2>2. ASSUME NEW i \in 1..Len(s) PROVE s[i] \in Listed(t)
    <3>1. i + 1 \in DOMAIN t
      BY <1>1, <1>2
    <3>2. t[i + 1] = s[i]
      BY <1>3
    <3> QED BY <3>1, <3>2 DEF Listed
  <2>3. f \in Listed(t)
    BY <1>1, <1>2, <1>3 DEF Listed
  <2> QED BY <1>2, <2>1, <2>2, <2>3 DEF Listed
<1>6. t # <<>>
  BY <1>1, <1>2
<1> QED BY <1>1, <1>4, <1>5, <1>6 DEF t

(* The writer that leaves is in the list no more. *)
LEMMA LeaveWaiters ==
  ASSUME NEW S, NEW s \in Seq(S), s # <<>>, Injective(s)
  PROVE  /\ Tail(s) \in Seq(S) /\ Head(s) \in S
         /\ Injective(Tail(s))
         /\ Head(s) \in Listed(s)
         /\ Listed(Tail(s)) = Listed(s) \ {Head(s)}
<1> DEFINE t == Tail(s)
<1>1. /\ t \in Seq(S) /\ Head(s) \in S
      /\ Len(t) = Len(s) - 1
      /\ \A i \in 1..Len(t) : t[i] = s[i + 1]
      /\ Head(s) = s[1]
  BY HeadTailProperties
<1>2. /\ Len(s) \in Nat \ {0}
      /\ DOMAIN s = 1..Len(s) /\ DOMAIN t = 1..Len(t)
  BY <1>1, LenProperties, EmptySeq
<1> HIDE DEF t
<1>3. Injective(t)
  <2>1. ASSUME NEW i \in DOMAIN t, NEW j \in DOMAIN t, t[i] = t[j]
        PROVE  i = j
    <3>1. /\ i \in Int /\ i + 1 \in DOMAIN s
          /\ j \in Int /\ j + 1 \in DOMAIN s
      BY <1>1, <1>2
    <3>2. s[i + 1] = s[j + 1]
      BY <1>1, <1>2, <2>1
    <3>3. i + 1 = j + 1
      BY <3>1, <3>2 DEF Injective
    <3> QED BY <3>1, <3>3
  <2> QED BY <2>1 DEF Injective
<1>4. Head(s) \in Listed(s)
  BY <1>1, <1>2 DEF Listed
<1>5. Listed(t) = Listed(s) \ {Head(s)}
  <2>1. ASSUME NEW i \in 1..Len(t) PROVE t[i] \in Listed(s) \ {Head(s)}
    BY <1>1, <1>2 DEF Listed, Injective
  <2>2. ASSUME NEW i \in 1..Len(s), s[i] # Head(s) PROVE s[i] \in Listed(t)
    <3>1. i - 1 \in 1..Len(t) /\ t[i - 1] = s[i]
      BY <1>1, <1>2, <2>2
    <3> QED BY <1>2, <3>1 DEF Listed
  <2> QED BY <1>2, <2>1, <2>2 DEF Listed
<1> QED BY <1>1, <1>3, <1>4, <1>5 DEF t

(* The readers that hold the lock can be counted.                          *)
LEMMA HoldersFinite ==
  /\ IsFiniteSet(ReadHolders) /\ Cardinality(ReadHolders) \in Nat
  /\ Cardinality(ReadHolders) = 0 <=> ReadHolders = {}
  /\ TypeOK => IsFiniteSet(readWaiters) /\ Cardinality(readWaiters) \in Nat
<1>1. ReadHolders \subseteq Fibers
  BY DEF ReadHolders
<1>2. TypeOK => readWaiters \subseteq Fibers
  BY DEF TypeOK
<1> QED
  BY <1>1, <1>2, Assumption, FS_Subset, FS_CardinalityType, FS_EmptySet

(* A reader that leaves makes the count one less; it is zero when nobody   *)
(* else reads.                                                             *)
LEMMA DropReader ==
  ASSUME NEW f \in ReadHolders
  PROVE  /\ Cardinality(ReadHolders \ {f}) = Cardinality(ReadHolders) - 1
         /\ Cardinality(ReadHolders \ {f}) \in Nat
         /\ Cardinality(ReadHolders \ {f}) = 0 <=> ReadHolders \ {f} = {}
<1>1. /\ IsFiniteSet(ReadHolders \ {f})
      /\ Cardinality(ReadHolders \ {f}) = Cardinality(ReadHolders) - 1
  BY HoldersFinite, FS_RemoveElement
<1> QED BY <1>1, FS_CardinalityType, FS_EmptySet

(* A reader that is let in at once adds one holder and one to the count.   *)
LEMMA ShareReadStep ==
  ASSUME IInv, NEW f \in Fibers, ShareRead(f)
  PROVE  IInv'
<1> USE DEF IInv
<1>1. TypeOK'
  BY Assumption DEF TypeOK, ShareRead, Asks, At, Goto, States, Pcs
<1>2. \A g \in Fibers : Granted(g)' = Granted(g)
  BY DEF ShareRead, Granted
<1>3. ReadHolders' = ReadHolders \cup {f} /\ f \notin ReadHolders
      /\ WriteHolders' = WriteHolders
  BY <1>2 DEF TypeOK, ShareRead, Asks, At, Goto, ReadHolders, WriteHolders,
    WaitsOnce
<1>4. WaitsOnce'
  BY <1>2 DEF TypeOK, ShareRead, Asks, At, Goto, WaitsOnce, ListedWriters
<1>5. FieldsMatchHolders'
  BY <1>3, HoldersFinite, FS_AddElement DEF ShareRead, FieldsMatchHolders,
    States, TypeOK
<1>6. WaitersHaveHolder'
  BY DEF ShareRead, WaitersHaveHolder
<1> QED BY <1>1, <1>4, <1>5, <1>6

(* A reader that waits behind a writer changes no holder.                  *)
LEMMA AwaitReadStep ==
  ASSUME IInv, NEW f \in Fibers, AwaitRead(f)
  PROVE  IInv'
<1> USE DEF IInv
<1>1. TypeOK'
  BY Assumption DEF TypeOK, AwaitRead, Asks, At, Goto, States, Pcs
<1>2. \A g \in Fibers : Granted(g)' = Granted(g)
  BY DEF AwaitRead, Granted
<1>3. ReadHolders' = ReadHolders /\ WriteHolders' = WriteHolders
  BY <1>2 DEF TypeOK, AwaitRead, Asks, At, Goto, ReadHolders, WriteHolders,
    WaitsOnce
<1>4. WaitsOnce'
  BY <1>2 DEF TypeOK, AwaitRead, Asks, At, Goto, WaitsOnce, ListedWriters
<1>5. FieldsMatchHolders'
  BY <1>3 DEF AwaitRead, FieldsMatchHolders
<1>6. WaitersHaveHolder'
  BY DEF AwaitRead, WaitersHaveHolder
<1> QED BY <1>1, <1>4, <1>5, <1>6

(* A writer takes a lock that nobody holds.                                *)
LEMMA TakeWriteStep ==
  ASSUME IInv, NEW f \in Fibers, TakeWrite(f)
  PROVE  IInv'
<1> USE DEF IInv
<1>1. TypeOK'
  BY Assumption DEF TypeOK, TakeWrite, Asks, At, Goto, States, Pcs
<1>2. \A g \in Fibers : Granted(g)' = Granted(g)
  BY DEF TakeWrite, Granted
<1>3. ReadHolders' = ReadHolders /\ WriteHolders' = WriteHolders \cup {f}
  BY <1>2 DEF TypeOK, TakeWrite, Asks, At, Goto, ReadHolders, WriteHolders,
    WaitsOnce
<1>4. WaitsOnce'
  BY <1>2 DEF TypeOK, TakeWrite, Asks, At, Goto, WaitsOnce, ListedWriters
<1>5. FieldsMatchHolders'
  BY <1>3 DEF TakeWrite, FieldsMatchHolders
<1>6. WaitersHaveHolder'
  BY DEF TakeWrite, WaitersHaveHolder
<1> QED BY <1>1, <1>4, <1>5, <1>6

(* A writer that waits changes no holder.                                  *)
LEMMA AwaitWriteStep ==
  ASSUME IInv, NEW f \in Fibers, AwaitWrite(f)
  PROVE  IInv'
<1> USE DEF IInv
<1>0. /\ writeWaiters \in Seq(Fibers) /\ Injective(writeWaiters)
      /\ f \notin Listed(writeWaiters)
      /\ ListedWriters = Listed(writeWaiters) /\ ListedWriters' = Listed(writeWaiters')
  BY DEF TypeOK, WaitsOnce, Injective, Listed, ListedWriters, AwaitWrite,
    Asks, At
<1>1. /\ writeWaiters' \in Seq(Fibers) /\ writeWaiters' # <<>>
      /\ Injective(writeWaiters') /\ ListedWriters' = ListedWriters \cup {f}
  BY <1>0, JoinWaiters DEF AwaitWrite
<1>2. TypeOK'
  BY <1>1, Assumption DEF TypeOK, AwaitWrite, Asks, At, Goto, States, Pcs
<1>3. \A g \in Fibers : Granted(g)' = Granted(g)
  BY DEF AwaitWrite, Granted
<1>4. ReadHolders' = ReadHolders /\ WriteHolders' = WriteHolders
  BY <1>3 DEF TypeOK, AwaitWrite, Asks, At, Goto, ReadHolders, WriteHolders,
    WaitsOnce
<1>5. WaitsOnce'
  BY <1>1, <1>3 DEF TypeOK, AwaitWrite, Asks, At, Goto, WaitsOnce, Injective
<1>6. FieldsMatchHolders'
  BY <1>4 DEF AwaitWrite, FieldsMatchHolders
<1>7. WaitersHaveHolder'
  BY DEF AwaitWrite, WaitersHaveHolder
<1> QED BY <1>2, <1>5, <1>6, <1>7

(* What giving the lock to the last writer that waits does to the lists.   *)
LEMMA GrantWriterFacts ==
  ASSUME IInv, NEW f \in Fibers, waking[f] = {}, GrantWriter(f)
  PROVE  \E h \in Fibers :
           /\ h \in ListedWriters /\ pc[h] = "waitWrite" /\ ~Granted(h)
           /\ writeWaiters' \in Seq(Fibers) /\ Injective(writeWaiters')
           /\ ListedWriters' = ListedWriters \ {h}
           /\ waking' = [waking EXCEPT ![f] = {h}]
           /\ \A g \in Fibers : Granted(g)' <=> Granted(g) \/ g = h
<1> USE DEF IInv
<1>1. /\ writeWaiters \in Seq(Fibers) /\ Injective(writeWaiters) /\ writeWaiters # <<>>
      /\ ListedWriters = Listed(writeWaiters) /\ ListedWriters' = Listed(writeWaiters')
  BY DEF TypeOK, WaitsOnce, Injective, Listed, ListedWriters, GrantWriter
<1> DEFINE h == Head(writeWaiters)
<1>2. /\ writeWaiters' \in Seq(Fibers) /\ Injective(writeWaiters') /\ h \in Fibers
      /\ h \in ListedWriters /\ ListedWriters' = ListedWriters \ {h}
  BY <1>1, LeaveWaiters DEF GrantWriter
<1>3. pc[h] = "waitWrite" /\ ~Granted(h)
  BY <1>2 DEF WaitsOnce
<1>4. waking' = [waking EXCEPT ![f] = {h}]
  BY DEF GrantWriter
<1> HIDE DEF h
<1>5. \A g \in Fibers : Granted(g)' <=> Granted(g) \/ g = h
  BY <1>4 DEF TypeOK, Granted
<1> QED BY <1>2, <1>3, <1>4, <1>5

(* The writer hands the lock to another writer, to all the readers that    *)
(* wait, or to nobody.                                                     *)
LEMMA WriteUnlockStep ==
  ASSUME IInv, NEW f \in Fibers, WriteUnlock(f)
  PROVE  IInv'
<1> USE DEF IInv
<1>1. f \in WriteHolders /\ pc[f] = "writing" /\ waking[f] = {} /\ f \notin ListedWriters
      /\ ~Granted(f)
  BY DEF WriteUnlock, At, WriteHolders, WaitsOnce
<1>2. state = "UniquedWriting" /\ WriteHolders = {f} /\ ReadHolders = {} /\ readers = 0
  BY <1>1, HoldersFinite DEF FieldsMatchHolders, TypeOK, States
<1>3. pc' = [pc EXCEPT ![f] = "idle"] /\ UNCHANGED calls
  BY DEF WriteUnlock, Goto
<1>4. CASE GrantWriter(f) /\ UNCHANGED readers
  <2>1. PICK h \in Fibers :
           /\ h \in ListedWriters /\ pc[h] = "waitWrite" /\ ~Granted(h)
           /\ writeWaiters' \in Seq(Fibers) /\ Injective(writeWaiters')
           /\ ListedWriters' = ListedWriters \ {h}
           /\ waking' = [waking EXCEPT ![f] = {h}]
           /\ \A g \in Fibers : Granted(g)' <=> Granted(g) \/ g = h
    BY <1>1, <1>4, GrantWriterFacts
  <2>2. TypeOK'
    BY <1>3, <1>4, <2>1 DEF TypeOK, GrantWriter, States, Pcs
  <2>3. WaitsOnce'
    <3>1. \A i, j \in DOMAIN writeWaiters' :
            writeWaiters'[i] = writeWaiters'[j] => i = j
      BY <2>1 DEF Injective
    <3>2. \A e, g, k \in Fibers : k \in waking'[e] /\ k \in waking'[g] => e = g
      BY <1>1, <2>1 DEF TypeOK, WaitsOnce, Granted
    <3>3. UNCHANGED readWaiters
      BY <1>4 DEF GrantWriter
    <3> QED BY <1>1, <1>3, <2>1, <3>1, <3>2, <3>3 DEF TypeOK, WaitsOnce
  <2>4. ReadHolders' = {} /\ WriteHolders' = {h}
    BY <1>1, <1>2, <1>3, <2>1 DEF TypeOK, ReadHolders, WriteHolders
  <2>5. FieldsMatchHolders'
    BY <1>2, <1>4, <2>4, FS_EmptySet DEF GrantWriter, FieldsMatchHolders
  <2>6. WaitersHaveHolder'
    BY <1>4 DEF GrantWriter, WaitersHaveHolder
  <2> QED BY <2>2, <2>3, <2>5, <2>6
<1>5. CASE /\ writeWaiters = <<>> /\ readWaiters # {}
           /\ readers' = Cardinality(readWaiters)
           /\ state' = "SharedReading"
           /\ waking' = [waking EXCEPT ![f] = readWaiters]
           /\ readWaiters' = {}
           /\ UNCHANGED writeWaiters
  <2>1. \A g \in Fibers : Granted(g)' <=> Granted(g) \/ g \in readWaiters
    BY <1>1, <1>5 DEF TypeOK, Granted
  <2>2. TypeOK'
    BY <1>3, <1>5, HoldersFinite DEF TypeOK, States, Pcs
  <2>3. WaitsOnce'
    BY <1>1, <1>3, <1>5, <2>1 DEF TypeOK, WaitsOnce, ListedWriters, Granted
  <2>4. ReadHolders' = readWaiters /\ WriteHolders' = {}
    BY <1>1, <1>2, <1>3, <2>1 DEF TypeOK, ReadHolders, WriteHolders, WaitsOnce
  <2>5. FieldsMatchHolders'
    BY <1>5, <2>4 DEF FieldsMatchHolders
  <2>6. WaitersHaveHolder'
    BY <1>5 DEF WaitersHaveHolder
  <2> QED BY <2>2, <2>3, <2>5, <2>6
<1>6. CASE /\ writeWaiters = <<>> /\ readWaiters = {}
           /\ state' = "Free"
           /\ UNCHANGED <<readers, readWaiters, writeWaiters, waking>>
  <2>1. \A g \in Fibers : Granted(g)' <=> Granted(g)
    BY <1>6 DEF Granted
  <2>2. TypeOK'
    BY <1>3, <1>6 DEF TypeOK, States, Pcs
  <2>3. WaitsOnce'
    BY <1>1, <1>3, <1>6, <2>1 DEF TypeOK, WaitsOnce, ListedWriters
  <2>4. ReadHolders' = {} /\ WriteHolders' = {}
    BY <1>1, <1>2, <1>3, <2>1 DEF TypeOK, ReadHolders, WriteHolders
  <2>5. FieldsMatchHolders'
    BY <1>2, <1>6, <2>4, FS_EmptySet DEF FieldsMatchHolders
  <2>6. WaitersHaveHolder'
    BY <1>6 DEF WaitersHaveHolder
  <2> QED BY <2>2, <2>3, <2>5, <2>6
<1> QED BY <1>4, <1>5, <1>6 DEF WriteUnlock

(* The last reader hands the lock to a writer or frees it; any other only  *)
(* leaves.                                                                 *)
LEMMA ReadUnlockStep ==
  ASSUME IInv, NEW f \in Fibers, ReadUnlock(f)
  PROVE  IInv'
<1> USE DEF IInv
<1>1. /\ f \in ReadHolders /\ pc[f] = "reading" /\ waking[f] = {}
      /\ f \notin ListedWriters /\ f \notin readWaiters /\ ~Granted(f)
  BY DEF ReadUnlock, At, ReadHolders, WaitsOnce
<1>2. state = "SharedReading" /\ WriteHolders = {}
  BY <1>1 DEF FieldsMatchHolders, TypeOK, States
<1>3. pc' = [pc EXCEPT ![f] = "idle"] /\ UNCHANGED calls /\ readers' = readers - 1
  BY DEF ReadUnlock, Goto
<1>4. /\ readers' \in Nat /\ readers' = Cardinality(ReadHolders \ {f})
      /\ readers' = 0 <=> ReadHolders \ {f} = {}
  BY <1>1, <1>3, DropReader DEF FieldsMatchHolders
<1>5. readWaiters = {}
  BY <1>2 DEF WaitersHaveHolder
<1>6. CASE readers' = 0 /\ GrantWriter(f)
  <2>1. PICK h \in Fibers :
           /\ h \in ListedWriters /\ pc[h] = "waitWrite" /\ ~Granted(h)
           /\ writeWaiters' \in Seq(Fibers) /\ Injective(writeWaiters')
           /\ ListedWriters' = ListedWriters \ {h}
           /\ waking' = [waking EXCEPT ![f] = {h}]
           /\ \A g \in Fibers : Granted(g)' <=> Granted(g) \/ g = h
    BY <1>1, <1>6, GrantWriterFacts
  <2>2. TypeOK'
    BY <1>3, <1>6, <2>1 DEF TypeOK, GrantWriter, States, Pcs
  <2>3. WaitsOnce'
    <3>1. \A i, j \in DOMAIN writeWaiters' :
            writeWaiters'[i] = writeWaiters'[j] => i = j
      BY <2>1 DEF Injective
    <3>2. \A e, g, k \in Fibers : k \in waking'[e] /\ k \in waking'[g] => e = g
      BY <1>1, <2>1 DEF TypeOK, WaitsOnce, Granted
    <3>3. UNCHANGED readWaiters
      BY <1>6 DEF GrantWriter
    <3> QED BY <1>1, <1>3, <2>1, <3>1, <3>2, <3>3 DEF TypeOK, WaitsOnce
  <2>4. ReadHolders' = ReadHolders \ {f} /\ WriteHolders' = {h}
    BY <1>1, <1>2, <1>3, <2>1 DEF TypeOK, ReadHolders, WriteHolders
  <2>5. FieldsMatchHolders'
    BY <1>4, <1>6, <2>4 DEF GrantWriter, FieldsMatchHolders
  <2>6. WaitersHaveHolder'
    BY <1>6 DEF GrantWriter, WaitersHaveHolder
  <2> QED BY <2>2, <2>3, <2>5, <2>6
<1>7. CASE /\ readers' # 0 \/ writeWaiters = <<>>
           /\ state' = IF readers' # 0 THEN state ELSE "Free"
           /\ UNCHANGED <<readWaiters, writeWaiters, waking>>
  <2>1. \A g \in Fibers : Granted(g)' <=> Granted(g)
    BY <1>7 DEF Granted
  <2>2. TypeOK'
    BY <1>3, <1>4, <1>7 DEF TypeOK, States, Pcs
  <2>3. WaitsOnce'
    BY <1>1, <1>3, <1>7, <2>1 DEF TypeOK, WaitsOnce, ListedWriters
  <2>4. ReadHolders' = ReadHolders \ {f} /\ WriteHolders' = {}
    BY <1>1, <1>2, <1>3, <2>1 DEF TypeOK, ReadHolders, WriteHolders
  <2>5. FieldsMatchHolders'
    BY <1>2, <1>4, <1>7, <2>4 DEF FieldsMatchHolders
  <2>6. WaitersHaveHolder'
    BY <1>2, <1>5, <1>7 DEF WaitersHaveHolder
  <2> QED BY <2>2, <2>3, <2>5, <2>6
<1> QED BY <1>6, <1>7 DEF ReadUnlock

(* A reader alone becomes the writer; with other readers it leaves and     *)
(* waits.                                                                  *)
LEMMA UpgradeFromReadStep ==
  ASSUME IInv, NEW f \in Fibers, UpgradeFromRead(f)
  PROVE  IInv'
<1> USE DEF IInv
<1>1. /\ f \in ReadHolders /\ pc[f] = "reading" /\ waking[f] = {}
      /\ f \notin ListedWriters /\ f \notin readWaiters /\ ~Granted(f)
  BY DEF UpgradeFromRead, At, ReadHolders, WaitsOnce
<1>2. state = "SharedReading" /\ WriteHolders = {}
  BY <1>1 DEF FieldsMatchHolders, TypeOK, States
<1>3. readers' = readers - 1 /\ UNCHANGED <<readWaiters, waking, calls>>
  BY DEF UpgradeFromRead
<1>4. /\ readers' \in Nat /\ readers' = Cardinality(ReadHolders \ {f})
      /\ readers' = 0 <=> ReadHolders \ {f} = {}
  BY <1>1, <1>3, DropReader DEF FieldsMatchHolders
<1>5. \A g \in Fibers : Granted(g)' <=> Granted(g)
  BY <1>3 DEF Granted
<1>6. CASE /\ readers' = 0
           /\ state' = "UniquedWriting"
           /\ Goto(f, "writing")
           /\ UNCHANGED writeWaiters
  <2>1. TypeOK'
    BY <1>3, <1>4, <1>6 DEF TypeOK, States, Pcs, Goto
  <2>2. WaitsOnce'
    BY <1>1, <1>3, <1>5, <1>6 DEF TypeOK, WaitsOnce, ListedWriters, Goto
  <2>3. ReadHolders' = ReadHolders \ {f} /\ WriteHolders' = {f}
    BY <1>1, <1>2, <1>5, <1>6 DEF TypeOK, ReadHolders, WriteHolders, Goto
  <2>4. FieldsMatchHolders'
    BY <1>4, <1>6, <2>3 DEF FieldsMatchHolders
  <2>5. WaitersHaveHolder'
    BY <1>6 DEF WaitersHaveHolder
  <2> QED BY <2>1, <2>2, <2>4, <2>5
<1>7. CASE /\ readers' # 0
           /\ writeWaiters' = <<f>> \o writeWaiters
           /\ Goto(f, "waitWrite")
           /\ UNCHANGED state
  <2>0. /\ writeWaiters \in Seq(Fibers) /\ Injective(writeWaiters)
        /\ ListedWriters = Listed(writeWaiters)
        /\ ListedWriters' = Listed(writeWaiters')
    BY DEF TypeOK, WaitsOnce, Injective, Listed, ListedWriters
  <2>1. /\ writeWaiters' \in Seq(Fibers) /\ Injective(writeWaiters')
        /\ ListedWriters' = ListedWriters \cup {f}
    BY <1>1, <1>7, <2>0, JoinWaiters
  <2>2. TypeOK'
    BY <1>3, <1>4, <1>7, <2>1 DEF TypeOK, States, Pcs, Goto
  <2>3. WaitsOnce'
    BY <1>1, <1>3, <1>5, <1>7, <2>1 DEF TypeOK, WaitsOnce, Injective, Goto
  <2>4. ReadHolders' = ReadHolders \ {f} /\ WriteHolders' = {}
    BY <1>1, <1>2, <1>5, <1>7 DEF TypeOK, ReadHolders, WriteHolders, Goto
  <2>5. FieldsMatchHolders'
    BY <1>2, <1>4, <1>7, <2>4 DEF FieldsMatchHolders
  <2>6. WaitersHaveHolder'
    BY <1>2, <1>3, <1>7 DEF WaitersHaveHolder
  <2> QED BY <2>2, <2>3, <2>5, <2>6
<1> QED BY <1>6, <1>7 DEF UpgradeFromRead

(* The writer becomes a reader together with all the readers that wait.    *)
LEMMA DowngradeFromWriteStep ==
  ASSUME IInv, NEW f \in Fibers, DowngradeFromWrite(f)
  PROVE  IInv'
<1> USE DEF IInv
<1>1. f \in WriteHolders /\ pc[f] = "writing" /\ waking[f] = {}
      /\ f \notin ListedWriters /\ f \notin readWaiters /\ ~Granted(f)
  BY DEF DowngradeFromWrite, At, WriteHolders, WaitsOnce
<1>2. WriteHolders = {f} /\ ReadHolders = {}
  BY <1>1 DEF FieldsMatchHolders, TypeOK, States
<1>3. \A g \in Fibers : Granted(g)' <=> Granted(g) \/ g \in readWaiters
  BY <1>1 DEF TypeOK, Granted, DowngradeFromWrite
<1>4. TypeOK'
  BY HoldersFinite DEF TypeOK, States, Pcs, DowngradeFromWrite, Goto
<1>5. WaitsOnce'
  BY <1>1, <1>3 DEF TypeOK, WaitsOnce, ListedWriters, Granted,
    DowngradeFromWrite, Goto
<1>6. ReadHolders' = readWaiters \cup {f} /\ WriteHolders' = {}
  BY <1>1, <1>2, <1>3 DEF TypeOK, ReadHolders, WriteHolders, WaitsOnce,
     DowngradeFromWrite, Goto
<1>7. FieldsMatchHolders'
  <2>1. Cardinality(readWaiters \cup {f}) = Cardinality(readWaiters) + 1
    BY <1>1, HoldersFinite, FS_AddElement
  <2> QED
    BY <1>6, <2>1, HoldersFinite DEF FieldsMatchHolders, DowngradeFromWrite
<1>8. WaitersHaveHolder'
  BY DEF WaitersHaveHolder, DowngradeFromWrite
<1> QED BY <1>4, <1>5, <1>7, <1>8

(* A fiber that learns that it was given the lock held it before.          *)
LEMMA CompleteStep ==
  ASSUME IInv, NEW f \in Fibers, NEW g \in Fibers, Complete(f, g)
  PROVE  IInv'
<1> USE DEF IInv
<1>1. Granted(g) /\ pc[g] \in {"waitRead", "waitWrite"}
  BY DEF Complete, Granted, WaitsOnce
<1>2. \A h \in Fibers : Granted(h)' <=> Granted(h) /\ h # g
  BY DEF TypeOK, WaitsOnce, Granted, Complete
<1>3. TypeOK'
  BY DEF TypeOK, States, Pcs, Complete, Goto
<1>4. WaitsOnce'
  BY <1>1, <1>2 DEF TypeOK, WaitsOnce, ListedWriters, Complete, Goto
<1>5. ReadHolders' = ReadHolders /\ WriteHolders' = WriteHolders
  BY <1>1, <1>2 DEF TypeOK, ReadHolders, WriteHolders, Complete, Goto
<1>6. FieldsMatchHolders'
  BY <1>5 DEF FieldsMatchHolders, Complete
<1>7. WaitersHaveHolder'
  BY DEF WaitersHaveHolder, Complete
<1> QED BY <1>3, <1>4, <1>6, <1>7

(* Every step keeps the invariant.                                         *)
LEMMA IInvInductive == IInv /\ [Next]_vars => IInv'
<1> SUFFICES ASSUME IInv, [Next]_vars
             PROVE  IInv'
  OBVIOUS
<1>1. ASSUME NEW f \in Fibers, LockRead(f) \/ TryLockRead(f)
      PROVE  IInv'
  BY <1>1, ShareReadStep, AwaitReadStep DEF LockRead, TryLockRead
<1>2. ASSUME NEW f \in Fibers, LockWrite(f) \/ TryLockWrite(f)
      PROVE  IInv'
  BY <1>2, TakeWriteStep, AwaitWriteStep DEF LockWrite, TryLockWrite
<1>3. ASSUME NEW f \in Fibers, Unlock(f)
      PROVE  IInv'
  BY <1>3, WriteUnlockStep, ReadUnlockStep DEF Unlock
<1>4. ASSUME NEW f \in Fibers, UpgradeFromRead(f) \/ DowngradeFromWrite(f)
      PROVE  IInv'
  BY <1>4, UpgradeFromReadStep, DowngradeFromWriteStep
<1>5. ASSUME NEW f \in Fibers, NEW g \in Fibers, Complete(f, g)
      PROVE  IInv'
  BY <1>5, CompleteStep
<1>6. CASE UNCHANGED vars
  BY <1>6 DEF vars, IInv, TypeOK, FieldsMatchHolders, ReadHolders,
    WriteHolders,
     Granted, WaitersHaveHolder, WaitsOnce, ListedWriters
<1> QED BY <1>1, <1>2, <1>3, <1>4, <1>5, <1>6 DEF Next

(* The count and the state of the lock agree with its holders, and nobody  *)
(* waits twice or for nothing, for every number of fibers.                 *)
THEOREM InvariantHolds == Spec => []IInv
<1>1. Init => IInv
  <2> SUFFICES ASSUME Init
               PROVE  IInv
    OBVIOUS
  <2>1. TypeOK
    BY EmptySeq, Assumption DEF Init, TypeOK, States, Pcs
  <2>2. ReadHolders = {} /\ WriteHolders = {}
    BY DEF Init, ReadHolders, WriteHolders
  <2>3. FieldsMatchHolders /\ WaitersHaveHolder
    BY <2>2, FS_EmptySet DEF Init, FieldsMatchHolders, WaitersHaveHolder
  <2>4. WaitsOnce
    BY DEF Init, WaitsOnce, ListedWriters, Granted
  <2> QED BY <2>1, <2>3, <2>4 DEF IInv
<1> QED BY <1>1, IInvInductive, PTL DEF Spec

(* No step lets a writer in beside anyone, or a reader in beside a writer: *)
(* each is a step of the abstract lock, or unseen by it.                   *)
THEOREM LockImplementsReadWriteLock == Spec => ImplementsReadWriteLock
<1> DEFINE R == {f \in Fibers : pc[f] = "reading"}
           W == {f \in Fibers : pc[f] = "writing"}
<1>1. Init => Abstract!Init
  BY DEF Init, Abstract!Init
<1>2. IInv /\ [Next]_vars => [Abstract!Next]_Abstract!vars
  <2> SUFFICES ASSUME IInv, [Next]_vars
               PROVE  [Abstract!Next]_Abstract!vars
    OBVIOUS
  <2>1. R \subseteq ReadHolders /\ W \subseteq WriteHolders
    BY DEF ReadHolders, WriteHolders
  <2>2. pc \in [Fibers -> Pcs]
    BY DEF IInv, TypeOK
  <2>3. /\ state # "UniquedWriting" => W = {}
        /\ state # "SharedReading" => R = {}
        /\ state = "Free" => R = {} /\ W = {}
    BY <2>1 DEF IInv, FieldsMatchHolders, TypeOK, States
  <2>4. ASSUME NEW f \in Fibers, LockRead(f) \/ TryLockRead(f)
        PROVE  Abstract!Next \/ UNCHANGED <<R, W>>
    <3>1. CASE ShareRead(f)
      <4>1. R' = R \cup {f} /\ W' = W /\ W = {}
        BY <2>2, <2>3, <3>1 DEF ShareRead, Asks, At, Goto
      <4> QED BY <4>1 DEF Abstract!Next, Abstract!Read
    <3>2. CASE AwaitRead(f)
      BY <2>2, <3>2 DEF AwaitRead, Asks, At, Goto
    <3> QED BY <2>4, <3>1, <3>2 DEF LockRead, TryLockRead
  <2>5. ASSUME NEW f \in Fibers, LockWrite(f) \/ TryLockWrite(f)
        PROVE  Abstract!Next \/ UNCHANGED <<R, W>>
    <3>1. CASE TakeWrite(f)
      <4>1. R' = R /\ W' = W \cup {f} /\ R = {} /\ W = {}
        BY <2>2, <2>3, <3>1 DEF TakeWrite, Asks, At, Goto
      <4> QED BY <4>1 DEF Abstract!Next, Abstract!Write
    <3>2. CASE AwaitWrite(f)
      BY <2>2, <3>2 DEF AwaitWrite, Asks, At, Goto
    <3> QED BY <2>5, <3>1, <3>2 DEF LockWrite, TryLockWrite
  <2>6. ASSUME NEW f \in Fibers, Unlock(f)
        PROVE  Abstract!Next
    <3>1. f \in R \cup W /\ R' = R \ {f} /\ W' = W \ {f}
      BY <2>2, <2>6 DEF Unlock, WriteUnlock, ReadUnlock, At, Goto
    <3> QED BY <3>1 DEF Abstract!Next, Abstract!Release
  <2>7. ASSUME NEW f \in Fibers, UpgradeFromRead(f)
        PROVE  Abstract!Next
    <3>1. f \in R /\ f \in ReadHolders /\ R' = R \ {f}
      BY <2>2, <2>7 DEF UpgradeFromRead, At, Goto, ReadHolders
    <3>2. state = "SharedReading" /\ W = {}
      BY <2>3, <3>1 DEF IInv, TypeOK, States
    <3>3. CASE readers' = 0 /\ Goto(f, "writing")
      <4>1. ReadHolders \ {f} = {}
        BY <2>7, <3>1, <3>3, DropReader DEF UpgradeFromRead, IInv,
          FieldsMatchHolders
      <4>2. R = {f} /\ R' = {} /\ W' = {f}
        BY <2>1, <2>2, <3>1, <3>2, <3>3, <4>1 DEF Goto
      <4> QED BY <4>2 DEF Abstract!Next, Abstract!Upgrade
    <3>4. CASE Goto(f, "waitWrite")
      <4>1. R' = R \ {f} /\ W' = W \ {f}
        BY <2>2, <3>1, <3>2, <3>4 DEF Goto
      <4> QED BY <3>1, <4>1 DEF Abstract!Next, Abstract!Release
    <3> QED BY <2>7, <3>3, <3>4 DEF UpgradeFromRead
  <2>8. ASSUME NEW f \in Fibers, DowngradeFromWrite(f)
        PROVE  Abstract!Next
    <3>1. f \in W /\ f \in WriteHolders
      BY <2>8 DEF DowngradeFromWrite, At, WriteHolders
    <3>2. WriteHolders = {f} /\ state = "UniquedWriting"
      BY <3>1 DEF IInv, FieldsMatchHolders, TypeOK, States
    <3>3. W = {f} /\ R = {} /\ W' = {} /\ R' = {f}
      BY <2>1, <2>2, <2>3, <2>8, <3>1, <3>2 DEF DowngradeFromWrite, Goto
    <3> QED BY <3>3 DEF Abstract!Next, Abstract!Downgrade
  <2>9. ASSUME NEW f \in Fibers, NEW g \in Fibers, Complete(f, g)
        PROVE  Abstract!Next
    <3>1. Granted(g) /\ pc[g] \in {"waitRead", "waitWrite"}
      BY <2>9 DEF Complete, Granted, IInv, WaitsOnce
    <3>2. CASE pc[g] = "waitRead"
      <4>1. g \in ReadHolders
        BY <3>1, <3>2 DEF ReadHolders
      <4>2. W = {} /\ R' = R \cup {g} /\ W' = W
        BY <2>2, <2>3, <2>9, <3>2, <4>1
           DEF Complete, Goto, IInv, FieldsMatchHolders, TypeOK, States
      <4> QED BY <4>2 DEF Abstract!Next, Abstract!Read
    <3>3. CASE pc[g] = "waitWrite"
      <4>1. g \in WriteHolders /\ g \notin W
        BY <3>1, <3>3 DEF WriteHolders
      <4>2. W = {} /\ R = {}
        BY <2>1, <4>1 DEF IInv, FieldsMatchHolders, TypeOK, States
      <4>3. R' = {} /\ W' = {g}
        BY <2>2, <2>9, <3>3, <4>2 DEF Complete, Goto
      <4> QED BY <4>2, <4>3 DEF Abstract!Next, Abstract!Write
    <3> QED BY <3>1, <3>2, <3>3
  <2>10. CASE UNCHANGED vars
    BY <2>10 DEF vars, Abstract!vars
  <2> QED
    BY <2>4, <2>5, <2>6, <2>7, <2>8, <2>9, <2>10 DEF Next, Abstract!vars
<1> QED
  BY <1>1, <1>2, InvariantHolds, PTL DEF Spec, ImplementsReadWriteLock,
    Abstract!Spec

==============================================================================
