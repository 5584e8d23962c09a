--------------------------- MODULE MemoryTable_proofs --------------------------
(* Proofs about the memory table over its log, for every number of fibers,     *)
(* batches, kills and failures and every way a write may be cut: the table is  *)
(* what the log says, a restart brings back the batches up to some point of    *)
(* the log, and what was acknowledged survives.                                *)
EXTENDS MemoryTable, SequenceTheorems, WellFoundedInduction, TLAPS

--------------------------------------------------------------------------------
\* Naturals and sequences

\* A set of naturals has a smallest member.
LEMMA SmallestOf ==
    ASSUME NEW S \in SUBSET Nat, S # {}
    PROVE  \E x \in S : \A y \in S : x <= y
<1> DEFINE R == {ss \in Nat \X Nat : ss[1] < ss[2]}
<1>1. IsWellFoundedOn(R, Nat)
  BY NatLessThanWellFounded DEF OpToRel
<1>2. \A x, y \in Nat : <<y, x>> \notin R => x <= y
  OBVIOUS
<1> HIDE DEF R
<1>3. PICK x \in S : \A y \in S : ~(<<y, x>> \in R)
  BY <1>1, WFMin
<1> QED BY <1>2, <1>3

\* A batch is a sequence.
LEMMA BatchIsSeq ==
    ASSUME NEW b \in Batches \cup {<<>>}
    PROVE  /\ Len(b) \in Nat /\ DOMAIN b = 1 .. Len(b)
           /\ KeysOf(b) = {b[i].key : i \in 1 .. Len(b)}
<1>1. b \in Seq(Range(b)) \/ b = <<>>
  BY BatchAssumption
<1> QED BY <1>1 DEF KeysOf

--------------------------------------------------------------------------------
\* What a batch does to the map

\* The keys of the first i actions, the last of these on a key, and the map behind them.
FirstKeys(b, i) == {b[j].key : j \in 1 .. i}
LastPlaces(b, i, k) == {j \in 1 .. i : b[j].key = k /\ \A l \in j + 1 .. i : b[l].key # k}
LastOf(b, i, k) == b[CHOOSE j \in LastPlaces(b, i, k) : TRUE]
AfterFirst(m, b, i) ==
    [k \in {x \in DOMAIN m \cup FirstKeys(b, i) : x \in FirstKeys(b, i) => Kept(LastOf(b, i, x))} |->
        IF k \in FirstKeys(b, i) THEN ItemOf(LastOf(b, i, k)) ELSE m[k]]

IsMap(m) == m = [k \in DOMAIN m |-> m[k]]

LEMMA LastOfStep ==
    ASSUME NEW b, NEW i \in Nat \ {0}
    PROVE  /\ FirstKeys(b, i) = FirstKeys(b, i - 1) \cup {b[i].key}
           /\ LastOf(b, i, b[i].key) = b[i]
           /\ \A k : k # b[i].key => LastOf(b, i, k) = LastOf(b, i - 1, k)
<1>1. FirstKeys(b, i) = FirstKeys(b, i - 1) \cup {b[i].key}
  <2>1. 1 .. i = (1 .. i - 1) \cup {i}
    OBVIOUS
  <2> QED BY <2>1 DEF FirstKeys
<1>2. LastOf(b, i, b[i].key) = b[i]
  <2>1. LastPlaces(b, i, b[i].key) = {i}
    BY DEF LastPlaces
  <2> QED BY <2>1 DEF LastOf
<1>3. ASSUME NEW k, k # b[i].key PROVE LastOf(b, i, k) = LastOf(b, i - 1, k)
  <2>1. LastPlaces(b, i, k) = LastPlaces(b, i - 1, k)
    BY <1>3 DEF LastPlaces
  <2> QED BY <2>1 DEF LastOf
<1> QED BY <1>1, <1>2, <1>3

LEMMA PerformStep ==
    ASSUME NEW m, NEW b, NEW i \in Nat \ {0}
    PROVE  Perform(AfterFirst(m, b, i - 1), b[i]) = AfterFirst(m, b, i)
<1> DEFINE k == b[i].key  p == AfterFirst(m, b, i - 1)  q == AfterFirst(m, b, i)
<1>1. /\ FirstKeys(b, i) = FirstKeys(b, i - 1) \cup {k}
      /\ LastOf(b, i, k) = b[i]
      /\ \A x : x # k => LastOf(b, i, x) = LastOf(b, i - 1, x)
  BY LastOfStep
<1>2. DOMAIN q = IF Kept(b[i]) THEN DOMAIN p \cup {k} ELSE DOMAIN p \ {k}
  BY <1>1 DEF AfterFirst
<1>3. \A x \in DOMAIN q : q[x] = IF x = k THEN ItemOf(b[i]) ELSE p[x]
  BY <1>1 DEF AfterFirst
<1>4. q = [x \in DOMAIN q |-> q[x]]
  BY DEF AfterFirst
<1> HIDE DEF p, q
<1>5. ASSUME b[i].type = 0 PROVE Perform(p, b[i]) = q
  <2>1. Perform(p, b[i]) = [x \in DOMAIN p \cup {k} |->
            IF x = k THEN [dead |-> FALSE, value |-> b[i].value] ELSE p[x]]
    BY <1>5 DEF Perform, InternalPut
  <2>2. Kept(b[i]) /\ ItemOf(b[i]) = [dead |-> FALSE, value |-> b[i].value]
    BY <1>5 DEF Kept, ItemOf
  <2>3. /\ DOMAIN q = DOMAIN p \cup {k}
        /\ \A x \in DOMAIN q : q[x] = IF x = k THEN [dead |-> FALSE, value |-> b[i].value] ELSE p[x]
    BY <2>2, <1>2, <1>3
  <2> HIDE DEF k
  <2> QED BY <2>1, <2>3, <1>4
<1>6. ASSUME b[i].type # 0, erase PROVE Perform(p, b[i]) = q
  <2>1. Perform(p, b[i]) = [x \in DOMAIN p \ {k} |-> p[x]]
    BY <1>6 DEF Perform, InternalDelete
  <2>2. ~Kept(b[i])
    BY <1>6 DEF Kept
  <2>3. DOMAIN q = DOMAIN p \ {k} /\ \A x \in DOMAIN q : q[x] = p[x]
    BY <2>2, <1>2, <1>3
  <2> HIDE DEF k
  <2> QED BY <2>1, <2>3, <1>4
<1>7. ASSUME b[i].type # 0, ~erase PROVE Perform(p, b[i]) = q
  <2>1. Perform(p, b[i]) = [x \in DOMAIN p \cup {k} |->
            IF x = k THEN [dead |-> TRUE, value |-> <<>>] ELSE p[x]]
    BY <1>7 DEF Perform, InternalDelete
  <2>2. Kept(b[i]) /\ ItemOf(b[i]) = [dead |-> TRUE, value |-> <<>>]
    BY <1>7 DEF Kept, ItemOf
  <2>3. /\ DOMAIN q = DOMAIN p \cup {k}
        /\ \A x \in DOMAIN q : q[x] = IF x = k THEN [dead |-> TRUE, value |-> <<>>] ELSE p[x]
    BY <2>2, <1>2, <1>3
  <2> HIDE DEF k
  <2> QED BY <2>1, <2>3, <1>4
<1> QED BY <1>5, <1>6, <1>7 DEF p, q

\* The loop over a batch leaves what its last action on each key says.
LEMMA ActionResult ==
    ASSUME NEW m, IsMap(m), NEW b, Len(b) \in Nat
    PROVE  InternalAction(m, b) = AfterFirst(m, b, Len(b))
<1> DEFINE n == Len(b)
           F(f) == [i \in 0 .. n |-> IF i = 0 THEN m ELSE Perform(f[i - 1], b[i])]
           g == [i \in 0 .. n |-> AfterFirst(m, b, i)]
           after == CHOOSE f : f = F(f)
<1>1. AfterFirst(m, b, 0) = m
  <2>1. FirstKeys(b, 0) = {}
    BY DEF FirstKeys
  <2>2. AfterFirst(m, b, 0) = [k \in DOMAIN m |-> m[k]]
    BY <2>1 DEF AfterFirst
  <2> QED BY <2>2 DEF IsMap
<1>2. \A i \in 1 .. n : AfterFirst(m, b, i) = Perform(AfterFirst(m, b, i - 1), b[i])
  BY PerformStep
<1>3. g = F(g)
  <2>1. ASSUME NEW i \in 0 .. n
        PROVE  g[i] = IF i = 0 THEN m ELSE Perform(g[i - 1], b[i])
    BY <1>1, <1>2
  <2> QED BY <2>1
<1>4. after = F(after)
  BY <1>3
<1>5. InternalAction(m, b) = after[n]
  BY DEF InternalAction
<1> HIDE DEF after, n
<1>6. n \in Nat
  BY DEF n
<1>7. ASSUME NEW i \in 0 .. n, after[i] # AfterFirst(m, b, i) PROVE FALSE
  <2> DEFINE S == {j \in 0 .. n : after[j] # AfterFirst(m, b, j)}
  <2>1. S \in SUBSET Nat /\ S # {}
    BY <1>6, <1>7
  <2>2. PICK j \in S : \A l \in S : j <= l
    BY <2>1, SmallestOf
  <2>3. j # 0
    BY <1>1, <1>4, <2>2, <1>6
  <2>4. j - 1 \notin S /\ j - 1 \in 0 .. n
    BY <2>2, <2>3, <1>6
  <2>5. after[j] = Perform(after[j - 1], b[j])
    BY <1>4, <2>2, <2>3
  <2> QED BY <2>2, <2>3, <2>4, <2>5, <1>2
<1> QED BY <1>5, <1>6, <1>7 DEF n

--------------------------------------------------------------------------------
\* What a log says

IsEntry(e) == e.at \in Nat /\ e.batch \in Batches \cup {<<>>}

LEMMA LastOnIs ==
    ASSUME NEW b \in Batches \cup {<<>>}, NEW k
    PROVE  LastOn(b, k) = LastOf(b, Len(b), k)
<1>1. LastPlaces(b, Len(b), k) =
        {i \in DOMAIN b : b[i].key = k /\ \A j \in i + 1 .. Len(b) : b[j].key # k}
  BY BatchIsSeq DEF LastPlaces
<1> QED BY <1>1 DEF LastOn, LastOf

LEMMA KeysAreFirstKeys ==
    ASSUME NEW b \in Batches \cup {<<>>}
    PROVE  KeysOf(b) = FirstKeys(b, Len(b))
BY BatchIsSeq DEF FirstKeys

\* Two logs in which every key was said last the same hold the same table.
LEMMA SameTable ==
    ASSUME NEW S, NEW T,
           \A k : (With(S, k) = {}) <=> (With(T, k) = {}),
           \A k : With(S, k) # {} => LastSaid(S, k) = LastSaid(T, k)
    PROVE  TableOf(S) = TableOf(T)
<1>1. \A k : k \in UNION {KeysOf(e.batch) : e \in S} <=> With(S, k) # {}
  BY DEF With
<1>2. \A k : k \in UNION {KeysOf(e.batch) : e \in T} <=> With(T, k) # {}
  BY DEF With
<1> DEFINE D == {x \in UNION {KeysOf(e.batch) : e \in S} : Kept(LastSaid(S, x))}
           E == {x \in UNION {KeysOf(e.batch) : e \in T} : Kept(LastSaid(T, x))}
<1>3. D = E /\ \A k \in D : LastSaid(S, k) = LastSaid(T, k)
  BY <1>1, <1>2
<1>4. /\ TableOf(S) = [k \in D |-> ItemOf(LastSaid(S, k))]
      /\ TableOf(T) = [k \in E |-> ItemOf(LastSaid(T, k))]
  BY DEF TableOf
<1> HIDE DEF D, E
<1> QED BY <1>3, <1>4

LEMMA NewestIs ==
    ASSUME NEW S, NEW e \in S, NEW k \in KeysOf(e.batch),
           e.at \in Nat, \A d \in With(S, k) : d.at \in Nat /\ (d = e \/ d.at < e.at)
    PROVE  Newest(S, k) = e
<1>1. {x \in With(S, k) : \A d \in With(S, k) : d.at <= x.at} = {e}
  BY DEF With
<1>2. Newest(S, k) \in {x \in With(S, k) : \A d \in With(S, k) : d.at <= x.at}
  BY <1>1 DEF Newest
<1> QED BY <1>1, <1>2

LEMMA SameWith ==
    ASSUME NEW S, NEW T, NEW k, With(S, k) = With(T, k)
    PROVE  LastSaid(S, k) = LastSaid(T, k)
BY DEF LastSaid, Newest

LEMMA TableIsMap ==
    ASSUME NEW S
    PROVE  /\ IsMap(TableOf(S))
           /\ \A k \in DOMAIN TableOf(S) : TableOf(S)[k].dead \in BOOLEAN
BY DEF TableOf, IsMap, ItemOf

\* A key of the table: what was said of it last.
LEMMA KeyOfTable ==
    ASSUME NEW S, NEW k
    PROVE  /\ k \in DOMAIN TableOf(S) <=> With(S, k) # {} /\ Kept(LastSaid(S, k))
           /\ k \in DOMAIN TableOf(S) => TableOf(S)[k] = ItemOf(LastSaid(S, k))
<1>1. k \in UNION {KeysOf(e.batch) : e \in S} <=> With(S, k) # {}
  BY DEF With
<1> QED BY <1>1 DEF TableOf

\* A batch applied to the table of the log before it makes the table of the log with it.
LEMMA AppendTable ==
    ASSUME NEW S, \A d \in S : IsEntry(d),
           NEW e, IsEntry(e), \A d \in S : d.at < e.at
    PROVE  InternalAction(TableOf(S), e.batch) = TableOf(S \cup {e})
<1> DEFINE b == e.batch  T == S \cup {e}  n == Len(b)  m == TableOf(S)
<1>1. InternalAction(m, b) = AfterFirst(m, b, n)
  BY TableIsMap, ActionResult, BatchIsSeq DEF IsEntry
<1>2. KeysOf(b) = FirstKeys(b, n)
  BY KeysAreFirstKeys DEF IsEntry
<1>3. ASSUME NEW k \in KeysOf(b)
      PROVE  With(T, k) # {} /\ LastSaid(T, k) = LastOf(b, n, k)
  <2>1. \A d \in With(T, k) : d.at \in Nat /\ (d = e \/ d.at < e.at)
    BY DEF With, IsEntry
  <2>2. Newest(T, k) = e
    <3> HIDE DEF T
    <3>1. e \in T
      BY DEF T
    <3> QED BY <3>1, <2>1, NewestIs DEF IsEntry
  <2> QED BY <2>2, LastOnIs DEF LastSaid, With, IsEntry
<1>4. ASSUME NEW k, k \notin KeysOf(b)
      PROVE  With(T, k) = With(S, k) /\ LastSaid(T, k) = LastSaid(S, k)
  <2>1. With(T, k) = With(S, k)
    BY <1>4 DEF With
  <2> QED BY <2>1, SameWith
<1>5. \A k : k \in DOMAIN AfterFirst(m, b, n) <=> k \in DOMAIN TableOf(T)
  <2> TAKE k
  <2>1. CASE k \in KeysOf(b)
    BY <2>1, <1>2, <1>3, KeyOfTable DEF AfterFirst
  <2>2. CASE k \notin KeysOf(b)
    BY <2>2, <1>2, <1>4, KeyOfTable DEF AfterFirst
  <2> QED BY <2>1, <2>2
<1>6. \A k \in DOMAIN AfterFirst(m, b, n) : AfterFirst(m, b, n)[k] = TableOf(T)[k]
  <2> TAKE k \in DOMAIN AfterFirst(m, b, n)
  <2>0. k \in DOMAIN TableOf(T)
    BY <1>5
  <2>1. CASE k \in KeysOf(b)
    BY <2>0, <2>1, <1>2, <1>3, KeyOfTable DEF AfterFirst
  <2>2. CASE k \notin KeysOf(b)
    <3>1. k \in DOMAIN m
      BY <2>2, <1>2 DEF AfterFirst
    <3>2. AfterFirst(m, b, n)[k] = m[k]
      BY <2>2, <1>2 DEF AfterFirst
    <3> QED BY <3>1, <3>2, <2>0, <2>2, <1>4, KeyOfTable
  <2> QED BY <2>1, <2>2
<1>7. IsMap(TableOf(T)) /\ IsMap(AfterFirst(m, b, n))
  BY TableIsMap DEF AfterFirst, IsMap
<1>8. DOMAIN AfterFirst(m, b, n) = DOMAIN TableOf(T)
  BY <1>5
<1> HIDE DEF m, b, n, T
<1> QED BY <1>1, <1>6, <1>7, <1>8 DEF IsMap, m, b, T

LEMMA EmptyTable == TableOf({}) = EmptyMap
<1>1. DOMAIN TableOf({}) = {}
  BY DEF TableOf
<1>2. IsMap(TableOf({}))
  BY TableIsMap
<1>3. TableOf({}) = [k \in {} |-> TableOf({})[k]]
  BY <1>1, <1>2 DEF IsMap
<1> QED BY <1>3 DEF EmptyMap

\* Behind a log, what says nothing or says the end of it again changes nothing.
LEMMA RepeatedTable ==
    ASSUME NEW S, \A d \in S : IsEntry(d), \A d, e \in S : d.at = e.at => d = e,
           NEW T, S \subseteq T, \A e \in T : IsEntry(e),
           NEW R, \A e, f \in R : e = f,
           \A e \in T : e \in S \/ e.batch = <<>> \/ e \in R,
           \A e \in R : /\ \A d \in S : d.at < e.at
                        /\ \E d \in S : d.batch = e.batch /\ \A q \in S : q.at <= d.at
    PROVE  TableOf(T) = TableOf(S)
<1>1. ASSUME NEW k, \A e \in T : e \in R => e \in S \/ k \notin KeysOf(e.batch)
      PROVE  With(T, k) = With(S, k)
  <2>1. KeysOf(<<>>) = {}
    BY DEF KeysOf
  <2> QED BY <2>1, <1>1 DEF With
<1>2. ASSUME NEW k, NEW e \in T, e \in R, e \notin S, k \in KeysOf(e.batch)
      PROVE  With(T, k) # {} /\ With(S, k) # {} /\ LastSaid(T, k) = LastSaid(S, k)
  <2>1. PICK d \in S : d.batch = e.batch /\ \A q \in S : q.at <= d.at
    BY <1>2
  <2>2. \A q \in With(S, k) : q.at \in Nat /\ (q = d \/ q.at < d.at)
    BY <2>1 DEF With, IsEntry
  <2>3. Newest(S, k) = d
    BY <2>1, <2>2, <1>2, NewestIs DEF IsEntry
  <2>4. KeysOf(<<>>) = {}
    BY DEF KeysOf
  <2>5. \A q \in With(T, k) : q.at \in Nat /\ (q = e \/ q.at < e.at)
    BY <1>2, <2>4 DEF With, IsEntry
  <2>6. Newest(T, k) = e
    BY <2>5, <1>2, NewestIs DEF IsEntry
  <2> QED BY <2>1, <2>3, <2>6, <1>2 DEF LastSaid, With
<1>3. ASSUME NEW k
      PROVE  /\ (With(T, k) = {}) <=> (With(S, k) = {})
             /\ With(T, k) # {} => LastSaid(T, k) = LastSaid(S, k)
  <2>1. CASE \A e \in T : e \in R => e \in S \/ k \notin KeysOf(e.batch)
    BY <2>1, <1>1, SameWith
  <2>2. CASE ~ \A e \in T : e \in R => e \in S \/ k \notin KeysOf(e.batch)
    BY <2>2, <1>2
  <2> QED BY <2>1, <2>2
<1> QED BY <1>3, SameTable

--------------------------------------------------------------------------------
\* The invariant

Size(r) == Len(Record(r.batch))
End(r) == r.at + Size(r)
In(r, i) == r.at < i /\ i <= End(r)
Cell(f, i) == IF i <= Len(f) THEN f[i] ELSE 0

Types ==
    /\ file \in Seq(Nat) /\ offset_ \in Nat
    /\ life \in {"up", "killed", "restoring"} /\ erase \in BOOLEAN
    /\ writer \in [Writer -> [pc : {"idle", "writing", "logged"}, batch : Batches \cup {<<>>}, at : Nat]]
    /\ \A w \in Writer : writer[w].pc # "idle" => writer[w].batch \in Batches
    /\ records \subseteq [at : Nat, batch : Batches, written : BOOLEAN, acked : BOOLEAN]
    /\ damage \subseteq Nat
    /\ reading \in [offset : Nat, buf : Seq(Nat),
                    batchs : Seq([at : Nat, batch : Batches \cup {<<>>}]), applied : Nat, whole : Nat]
    /\ reading.applied <= Len(reading.batchs)

MapOK ==
    /\ map = [k \in DOMAIN map |-> map[k]]
    /\ \A k \in DOMAIN map : map[k].dead \in BOOLEAN

Places ==
    /\ \A r, q \in records : r.at < q.at => End(r) <= q.at
    /\ \A r, q \in records : r.at = q.at => r = q
    /\ up => \A r \in records : End(r) <= offset_


Owners ==
    /\ \A w \in Writer : writer[w].pc = "writing" => Own(w) \in records
    /\ \A w \in Writer : writer[w].pc = "logged" => up /\ Written(w) \in records
    /\ \A w, x \in Busy : writer[w].at = writer[x].at => w = x
    /\ life = "restoring" => Busy = {}
    /\ up => \A r \in records : r.acked \/ \E w \in Busy : writer[w].at = r.at
    /\ \A r \in records : r.acked => r.written

\* The file has the first n cells of a record, and zeros in place of the others.
Holds(f, r, n) ==
    /\ n = 0 \/ r.at + n <= Len(f)
    /\ \A i \in 1 .. Size(r) : Cell(f, r.at + i) = IF i <= n THEN Record(r.batch)[i] ELSE 0

Sound(r) == \A d \in damage : r.at < d
Firm(r) == Sound(r) /\ r.written /\ \A e \in records : e.at < r.at => e.written

\* What is left of a record that nobody waits for: its length, and zeros.
Stub(f, at, end) ==
    \E b \in Batches :
        /\ end = at + Len(Record(b))
        /\ Cell(f, at + 1) = Len(StoreTo(b))
        /\ \A i \in at + 2 .. end : Cell(f, i) = 0

Ghost(i) ==
    /\ i - 1 \in damage
    /\ \E end \in i .. Len(file) :
        /\ Stub(file, i - 1, end)
        /\ \A r \in records : End(r) <= i - 1 \/ end <= r.at
        /\ up => end <= offset_

Cells ==
    /\ \A r \in records : \E n \in 0 .. Size(r) : Holds(file, r, n)
    /\ \A w \in Writer : writer[w].pc = "writing" => Holds(file, Own(w), 0)
    /\ \A r \in records : (Firm(r) \/ (up /\ Sound(r) /\ r.written)) => Holds(file, r, Size(r))
    /\ \A i \in 1 .. Len(file) : (\E r \in records : In(r, i)) \/ file[i] = 0 \/ Ghost(i)

NoGap ==
    /\ \A r \in records : Sound(r) => \A i \in 1 .. r.at : \E e \in records : In(e, i)
    /\ up => \A i \in 1 .. offset_ : (\A d \in damage : i <= d) => \E e \in records : In(e, i)

Acked == {r \in records : r.acked}

Table ==
    up =>
    /\ \A k \in (DOMAIN map \cup DOMAIN Replay(Acked)) \ raced :
        k \in DOMAIN map \cap DOMAIN Replay(Acked) /\ map[k] = Replay(Acked)[k]
    /\ \A w \in Busy : \A k \in KeysOf(writer[w].batch) \ raced :
        \A r \in records : k \in KeysOf(r.batch) => r.at <= writer[w].at

Read(n) == {reading.batchs[i] : i \in 1 .. n}
Below(c) == {r \in records : r.at < c}

Repeats(e, c) ==
    /\ \A r \in records : ~(r.at = e.at /\ r.batch = e.batch)
    /\ \E d \in Below(c) : d.batch = e.batch /\ \A q \in Below(c) : q.at <= d.at

ReadUpTo(c) ==
    /\ c \in Nat
    /\ \A r \in Below(c) : End(r) <= c
    /\ \A i \in 1 .. c : \E r \in records : In(r, i)
    /\ reading.whole <= c
    /\ \A r \in Below(reading.whole) : End(r) <= reading.whole /\ Holds(file, r, Size(r))
    /\ Entries(Below(c)) \subseteq Read(Len(reading.batchs))

InOrder ==
    /\ \A i, j \in 1 .. Len(reading.batchs) : i < j => reading.batchs[i].at < reading.batchs[j].at
    /\ \A i \in 1 .. Len(reading.batchs) : reading.batchs[i].at <= reading.offset
    /\ reading.offset # offset_ => \A i \in 1 .. Len(reading.batchs) : reading.batchs[i].at < reading.offset

Going ==
    /\ reading.offset <= Len(file) /\ offset_ = Len(file)
    /\ reading.whole = reading.offset
    /\ ReadUpTo(reading.offset)
    /\ Read(Len(reading.batchs)) = Entries(Below(reading.offset))
    /\ \/ reading.batchs = <<>> /\ reading.buf = <<>>
       \/ /\ reading.batchs # <<>>
          /\ reading.batchs[Len(reading.batchs)].batch \in Batches
          /\ reading.buf = StoreTo(reading.batchs[Len(reading.batchs)].batch)

Stopped ==
    \E c \in {reading.offset, reading.whole} :
        /\ ReadUpTo(c)
        /\ \A e \in Read(Len(reading.batchs)) :
            \/ e \in Entries(Below(c))
            \/ e.at >= c /\ (e.batch = <<>> \/ Repeats(e, c))
        /\ \A e, f \in Read(Len(reading.batchs)) : Repeats(e, c) /\ Repeats(f, c) => e = f
        /\ \A r \in records : r.at >= c => ~Firm(r)
        /\ c = reading.offset \/ Stub(file, c, reading.offset)
        /\ \A r \in records : End(r) <= reading.offset \/ r.at >= reading.offset
        /\ IF reading.offset = offset_ THEN Len(file) = offset_
           ELSE reading.offset > Len(file) /\ Len(file) = offset_

Restoring ==
    life = "restoring" =>
        /\ map = TableOf(Read(reading.applied))
        /\ InOrder
        /\ Going \/ Stopped

Rest == life # "restoring" => reading = NothingRead /\ (life = "killed" => map = EmptyMap)

IInv ==
    /\ Types /\ MapOK /\ Places /\ Owners /\ Cells /\ NoGap /\ Table /\ Restoring /\ Rest

--------------------------------------------------------------------------------
\* Records and cells

LEMMA RecordIs ==
    ASSUME LoadsBack, NEW b \in Batches
    PROVE  /\ StoreTo(b) \in Seq(Nat) /\ Record(b) \in Seq(Nat)
           /\ Len(StoreTo(b)) \in Nat /\ Len(StoreTo(b)) > 0
           /\ Len(Record(b)) = Len(StoreTo(b)) + 1 /\ Len(Record(b)) \in Nat
           /\ Record(b)[1] = Len(StoreTo(b))
           /\ \A i \in 1 .. Len(StoreTo(b)) : Record(b)[i + 1] = StoreTo(b)[i] /\ StoreTo(b)[i] \in Nat
           /\ \E i \in 1 .. Len(StoreTo(b)) : StoreTo(b)[i] # 0
           /\ b # <<>> /\ ~LoadFrom(StoreTo(b)).corrupt /\ LoadFrom(StoreTo(b)).batch = b
<1> DEFINE body == StoreTo(b)
<1>1. /\ body \in Seq(Nat) /\ \E i \in DOMAIN body : body[i] # 0
      /\ b # <<>> /\ ~LoadFrom(body).corrupt /\ LoadFrom(body).batch = b
  BY DEF LoadsBack
<1>2. Record(b) = <<Len(body)>> \o body
  BY DEF Record
<1> HIDE DEF body
<1>3. /\ Len(body) \in Nat /\ Len(body) > 0
      /\ \A i \in 1 .. Len(body) : body[i] \in Nat
      /\ \E i \in 1 .. Len(body) : body[i] # 0
  BY <1>1
<1>4. /\ Record(b) \in Seq(Nat) /\ Len(Record(b)) = Len(body) + 1
      /\ Record(b)[1] = Len(body)
      /\ \A i \in 1 .. Len(body) : Record(b)[i + 1] = body[i]
  BY <1>1, <1>2, <1>3
<1> QED BY <1>1, <1>3, <1>4, SMTT(30) DEF body

LEMMA ResizeIs ==
    ASSUME NEW f \in Seq(Nat), NEW n \in Nat
    PROVE  /\ Resize(f, n) \in Seq(Nat) /\ Len(Resize(f, n)) = n
           /\ \A i \in Nat \ {0} : Cell(Resize(f, n), i) = IF i <= n THEN Cell(f, i) ELSE 0
BY DEF Resize, Cell

LEMMA PWriteIs ==
    ASSUME NEW f \in Seq(Nat), NEW at \in Nat, NEW cells \in Seq(Nat)
    PROVE  /\ PWrite(f, at, cells) \in Seq(Nat)
           /\ Len(PWrite(f, at, cells)) >= Len(f)
           /\ Len(cells) > 0 => Len(PWrite(f, at, cells)) >= at + Len(cells)
           /\ \A i \in Nat \ {0} : Cell(PWrite(f, at, cells), i) =
                IF at < i /\ i <= at + Len(cells) THEN cells[i - at] ELSE Cell(f, i)
<1> DEFINE n == IF cells # <<>> /\ at + Len(cells) > Len(f) THEN at + Len(cells) ELSE Len(f)
           g == [i \in 1 .. n |-> IF at < i /\ i <= at + Len(cells) THEN cells[i - at]
                                  ELSE IF i <= Len(f) THEN f[i] ELSE 0]
<1>1. n \in Nat /\ n >= Len(f) /\ (Len(cells) > 0 => n >= at + Len(cells))
  OBVIOUS
<1>2. PWrite(f, at, cells) = g
  BY DEF PWrite
<1>3. \A i \in 1 .. Len(cells) : cells[i] \in Nat
  OBVIOUS
<1>4. \A i \in 1 .. Len(f) : f[i] \in Nat
  OBVIOUS
<1> HIDE DEF n
<1>5. \A i \in 1 .. n : g[i] \in Nat
  BY <1>1, <1>3, <1>4
<1>6. g \in Seq(Nat) /\ Len(g) = n
  BY <1>1, <1>5
<1>7. ASSUME NEW i \in Nat \ {0}
      PROVE  Cell(g, i) = IF at < i /\ i <= at + Len(cells) THEN cells[i - at] ELSE Cell(f, i)
  BY <1>1, <1>6 DEF Cell
<1> QED BY <1>1, <1>2, <1>6, <1>7

\* The first n cells of a record.
LEMMA PrefixIs ==
    ASSUME LoadsBack, NEW b \in Batches, NEW n \in 0 .. Len(Record(b))
    PROVE  LET cells == SubSeq(Record(b), 1, n) IN
           /\ cells \in Seq(Nat) /\ Len(cells) = n
           /\ \A i \in 1 .. n : cells[i] = Record(b)[i]
           /\ n = Len(Record(b)) => cells = Record(b)
<1>1. Record(b) \in Seq(Nat) /\ Len(Record(b)) \in Nat
  BY RecordIs
<1> QED BY <1>1

\* What is read is as long as its first cell says: from the file as far as it goes, and then
\* what the buffer held.
LEMMA BufferIs ==
    ASSUME file \in Seq(Nat), NEW o \in Nat, NEW old \in Seq(Nat)
    PROVE  /\ SizeAt(o) \in Nat /\ SizeAt(o) = Cell(file, o + 1)
           /\ BufferAt(o, old) \in Seq(Nat) /\ Len(BufferAt(o, old)) = SizeAt(o)
           /\ \A i \in 1 .. SizeAt(o) : BufferAt(o, old)[i] =
                IF o + 1 + i <= Len(file) THEN file[o + 1 + i] ELSE Cell(old, i)
           /\ Len(DataAt(o)) = SizeAt(o) <=> SizeAt(o) = 0 \/ o + 1 + SizeAt(o) <= Len(file)
<1> DEFINE size == SizeAt(o)  data == DataAt(o)  rest == Resize(old, size)
           m == IF o + 1 + size < Len(file) THEN o + 1 + size ELSE Len(file)
           k == IF o + 1 <= m THEN m - (o + 1) ELSE 0
<1>1. size \in Nat /\ size = Cell(file, o + 1)
  BY DEF SizeAt, Cell
<1>2. data = SubSeq(file, o + 2, m)
  BY <1>1 DEF DataAt, Slice
<1> HIDE DEF size, data
<1>3. m \in Nat /\ m <= Len(file) /\ k \in Nat /\ k <= size
  BY <1>1
<1>4. (k = size) <=> (size = 0 \/ o + 1 + size <= Len(file))
  BY <1>1
<1>5. k < size => m = Len(file)
  BY <1>1
<1>6. \A i \in Nat : i <= k /\ i > 0 => o + 1 + i <= Len(file)
  BY <1>1
<1>7. \A i \in 1 .. size : i > k => o + 1 + i > Len(file)
  BY <1>1
<1>8. k > 0 => k = m - (o + 1)
  BY <1>3
<1>8a. k = 0 => o + 2 > m
  BY <1>3
<1> HIDE DEF m, k
<1>9. data \in Seq(Nat) /\ Len(data) = k /\ \A i \in 1 .. k : data[i] = file[o + 1 + i]
  BY <1>2, <1>3, <1>8, <1>8a
<1>10. rest \in Seq(Nat) /\ Len(rest) = size /\ \A i \in 1 .. size : rest[i] = Cell(old, i)
  <2>1. \A i \in Nat \ {0} : i <= size => Cell(rest, i) = Cell(old, i)
    BY <1>1, ResizeIs
  <2>2. rest \in Seq(Nat) /\ Len(rest) = size
    BY <1>1, ResizeIs
  <2> HIDE DEF rest
  <2> QED BY <2>1, <2>2, <1>1 DEF Cell
<1> HIDE DEF rest
<1>11. Slice(rest, Len(data), size - Len(data)) = SubSeq(rest, k + 1, size)
  BY <1>1, <1>3, <1>9, <1>10 DEF Slice
<1>12. BufferAt(o, old) = data \o SubSeq(rest, k + 1, size)
  BY <1>11 DEF BufferAt, size, data, rest
<1>13. /\ SubSeq(rest, k + 1, size) \in Seq(Nat) /\ Len(SubSeq(rest, k + 1, size)) = size - k
       /\ \A i \in 1 .. size - k : SubSeq(rest, k + 1, size)[i] = rest[k + i]
  <2>1. \A i \in k + 1 .. size : rest[i] \in Nat
    BY <1>1, <1>3, <1>10
  <2> DEFINE s == SubSeq(rest, k + 1, size)
  <2>2. k + 1 \in Int /\ size \in Int
    BY <1>1, <1>3
  <2>3. /\ s \in Seq(Nat) /\ Len(s) = IF k + 1 <= size THEN size - (k + 1) + 1 ELSE 0
        /\ \A i \in 1 .. size - (k + 1) + 1 : s[i] = rest[k + 1 + i - 1]
    BY <2>1, <2>2, SubSeqProperties, Z3
  <2> HIDE DEF s
  <2>4. size - (k + 1) + 1 = size - k /\ \A i \in 1 .. size - k : k + 1 + i - 1 = k + i
    BY <1>1, <1>3
  <2>5. s \in Seq(Nat) /\ Len(s) = size - k /\ \A i \in 1 .. size - k : s[i] = rest[k + i]
    BY <2>3, <2>4, <1>1, <1>3, SMTT(30)
  <2> QED BY <2>5 DEF s
<1>14. BufferAt(o, old) \in Seq(Nat) /\ Len(BufferAt(o, old)) = size
  <2> DEFINE s == SubSeq(rest, k + 1, size)
  <2>1. data \in Seq(Nat) /\ s \in Seq(Nat) /\ Len(data) + Len(s) = size
    <3>1. data \in Seq(Nat) /\ Len(data) = k
      BY <1>9, Zenon
    <3>2. s \in Seq(Nat) /\ Len(s) = size - k
      BY <1>13, Zenon
    <3>3. k + (size - k) = size
      BY <1>1, <1>3
    <3> HIDE DEF s
    <3> QED BY <3>1, <3>2, <3>3
  <2> HIDE DEF s
  <2>2. data \o s \in Seq(Nat) /\ Len(data \o s) = Len(data) + Len(s)
    BY <2>1, ConcatProperties, Z3
  <2> QED BY <2>1, <2>2, <1>12 DEF s
<1>15. ASSUME NEW i \in 1 .. size
       PROVE  BufferAt(o, old)[i] = IF o + 1 + i <= Len(file) THEN file[o + 1 + i] ELSE Cell(old, i)
  <2> DEFINE s == SubSeq(rest, k + 1, size)
  <2>0. \A j \in 1 .. size : BufferAt(o, old)[j] = IF j <= k THEN data[j] ELSE s[j - k]
    <3>1. data \in Seq(Nat) /\ s \in Seq(Nat) /\ Len(data) = k /\ Len(data) + Len(s) = size
      <4>1. data \in Seq(Nat) /\ Len(data) = k
        BY <1>9, Zenon
      <4>2. s \in Seq(Nat) /\ Len(s) = size - k
        BY <1>13, Zenon
      <4>3. k + (size - k) = size
        BY <1>1, <1>3
      <4> HIDE DEF s
      <4> QED BY <4>1, <4>2, <4>3
    <3> HIDE DEF s
    <3>2. \A j \in 1 .. Len(data) + Len(s) :
            (data \o s)[j] = IF j <= Len(data) THEN data[j] ELSE s[j - Len(data)]
      BY <3>1, ConcatProperties, Z3
    <3> QED BY <3>1, <3>2, <1>12 DEF s
  <2> HIDE DEF s
  <2>1. CASE i <= k
    BY <2>0, <2>1, <1>1, <1>3, <1>6, <1>9, SMTT(30)
  <2>2. CASE i > k
    <3>1. i - k \in 1 .. size - k /\ k + (i - k) = i /\ ~(i <= k) /\ i \in 1 .. size
      BY <2>2, <1>1, <1>3
    <3>2. BufferAt(o, old)[i] = s[i - k]
      BY <2>0, <3>1, Zenon
    <3>3. s[i - k] = rest[i]
      <4>1. s[i - k] = rest[k + (i - k)]
        BY <3>1, <1>13, Zenon DEF s
      <4> QED BY <3>1, <4>1
    <3>4. ~(o + 1 + i <= Len(file)) /\ rest[i] = Cell(old, i)
      BY <2>2, <3>1, <1>1, <1>3, <1>7, <1>10
    <3> QED BY <3>2, <3>3, <3>4
  <2> QED BY <2>1, <2>2, <1>1, <1>3
<1> QED BY <1>1, <1>4, <1>9, <1>14, <1>15 DEF size, data

LEMMA SizeIs ==
    ASSUME LoadsBack, Types, NEW r \in records
    PROVE  /\ r.at \in Nat /\ r.batch \in Batches /\ r.written \in BOOLEAN /\ r.acked \in BOOLEAN
           /\ Size(r) \in Nat /\ Size(r) > 1 /\ End(r) \in Nat /\ End(r) = r.at + Size(r)
           /\ Size(r) = Len(StoreTo(r.batch)) + 1 /\ Size(r) = Len(Record(r.batch))
<1>1. records \subseteq [at : Nat, batch : Batches, written : BOOLEAN, acked : BOOLEAN]
  BY DEF Types
<1>2. r.at \in Nat /\ r.batch \in Batches /\ r.written \in BOOLEAN /\ r.acked \in BOOLEAN
  BY <1>1
<1>3. /\ Len(Record(r.batch)) = Len(StoreTo(r.batch)) + 1
      /\ Len(StoreTo(r.batch)) \in Nat /\ Len(StoreTo(r.batch)) > 0
  BY <1>2, RecordIs
<1> QED BY <1>2, <1>3 DEF Size, End

\* Some of a record is written where nothing of it was.
LEMMA RecordWritten ==
    ASSUME LoadsBack, Types, Places, NEW own \in records, Holds(file, own, 0),
           NEW n \in 0 .. Size(own), NEW g,
           g = PWrite(file, own.at, SubSeq(Record(own.batch), 1, n))
    PROVE  /\ g \in Seq(Nat) /\ Len(g) >= Len(file)
           /\ Holds(g, own, n)
           /\ \A i \in Nat \ {0} : ~In(own, i) => Cell(g, i) = Cell(file, i)
           /\ \A r \in records, m \in Nat : r # own /\ Holds(file, r, m) => Holds(g, r, m)
<1> DEFINE cells == SubSeq(Record(own.batch), 1, n)
<1>1. /\ own.at \in Nat /\ own.batch \in Batches /\ Size(own) \in Nat
      /\ End(own) = own.at + Size(own) /\ Size(own) = Len(Record(own.batch))
  BY SizeIs DEF Size
<1>2. cells \in Seq(Nat) /\ Len(cells) = n /\ \A i \in 1 .. n : cells[i] = Record(own.batch)[i]
  BY <1>1, PrefixIs
<1>3. g = PWrite(file, own.at, cells)
  OBVIOUS
<1> HIDE DEF cells
<1>4. /\ g \in Seq(Nat) /\ Len(g) >= Len(file) /\ Len(file) \in Nat /\ Len(g) \in Nat
      /\ n > 0 => Len(g) >= own.at + n
      /\ \A i \in Nat \ {0} : Cell(g, i) =
            IF own.at < i /\ i <= own.at + n THEN cells[i - own.at] ELSE Cell(file, i)
  <2>1. file \in Seq(Nat) /\ own.at \in Nat /\ cells \in Seq(Nat)
    BY <1>1, <1>2 DEF Types
  <2>2. /\ PWrite(file, own.at, cells) \in Seq(Nat)
        /\ Len(PWrite(file, own.at, cells)) >= Len(file)
        /\ Len(cells) > 0 => Len(PWrite(file, own.at, cells)) >= own.at + Len(cells)
        /\ \A i \in Nat \ {0} : Cell(PWrite(file, own.at, cells), i) =
             IF own.at < i /\ i <= own.at + Len(cells) THEN cells[i - own.at] ELSE Cell(file, i)
    BY <2>1, PWriteIs
  <2> QED BY <2>1, <2>2, <1>2, <1>3
<1>5. Holds(g, own, n)
  <2>1. \A i \in 1 .. Size(own) : Cell(file, own.at + i) = 0
    BY DEF Holds
  <2>2. \A i \in 1 .. Size(own) :
            Cell(g, own.at + i) = IF i <= n THEN Record(own.batch)[i] ELSE 0
    <3> TAKE i \in 1 .. Size(own)
    <3>1. own.at + i \in Nat \ {0} /\ own.at < own.at + i /\ (own.at + i) - own.at = i
      BY <1>1
    <3>2. own.at + i <= own.at + n <=> i <= n
      BY <1>1
    <3>3. Cell(g, own.at + i) = IF i <= n THEN cells[i] ELSE Cell(file, own.at + i)
      BY <1>4, <3>1, <3>2
    <3>4. i <= n => i \in 1 .. n
      OBVIOUS
    <3> QED BY <1>2, <2>1, <3>3, <3>4
  <2> QED BY <1>4, <2>2 DEF Holds
<1>6. \A i \in Nat \ {0} : ~In(own, i) => Cell(g, i) = Cell(file, i)
  BY <1>1, <1>4 DEF In
<1>7. ASSUME NEW r \in records, NEW m \in Nat, r # own, Holds(file, r, m)
      PROVE  Holds(g, r, m)
  <2>1. /\ r.at \in Nat /\ Size(r) \in Nat /\ End(r) = r.at + Size(r)
        /\ End(r) <= own.at \/ End(own) <= r.at
    BY <1>7, <1>1, SizeIs DEF Places
  <2>2. \A i \in 1 .. Size(r) : r.at + i \in Nat \ {0} /\ ~In(own, r.at + i)
    BY <1>1, <2>1 DEF In
  <2> QED BY <1>4, <1>6, <1>7, <2>1, <2>2 DEF Holds
<1> QED BY <1>4, <1>5, <1>6, <1>7

\* A stub stays where nothing but records is written.
LEMMA GhostKept ==
    ASSUME LoadsBack, Types, NEW i \in 1 .. Len(file), Ghost(i),
           damage \subseteq damage', Len(file') \in Nat, Len(file) <= Len(file'),
           up' => up /\ offset_' = offset_,
           \A r \in records' : \E q \in records : q.at = r.at /\ q.batch = r.batch,
           \A j \in Nat \ {0} : Cell(file', j) = Cell(file, j) \/ \E q \in records : In(q, j)
    PROVE  Ghost(i)'
<1>1. PICK end \in i .. Len(file) :
        /\ Stub(file, i - 1, end)
        /\ \A r \in records : End(r) <= i - 1 \/ end <= r.at
        /\ up => end <= offset_
  BY DEF Ghost
<1>2. i \in Nat \ {0} /\ end \in Nat /\ Len(file) \in Nat
  BY DEF Types
<1>3. \A j \in i .. end : j \in Nat \ {0} /\ Cell(file', j) = Cell(file, j)
  <2> TAKE j \in i .. end
  <2>1. \A q \in records : ~In(q, j)
    BY <1>1, <1>2, SizeIs, SMTT(30) DEF In
  <2> QED BY <2>1, <1>2
<1>4. Stub(file', i - 1, end)
  <2>1. (i - 1) + 1 = i /\ (i - 1) + 2 = i + 1
    BY <1>2
  <2>2. i \in i .. end
    BY <1>2
  <2> QED BY <1>1, <1>2, <1>3, <2>1, <2>2 DEF Stub
<1>5. \A r \in records' : End(r) <= i - 1 \/ end <= r.at
  BY <1>1 DEF End, Size
<1>6. end \in i .. Len(file')
  BY <1>2
<1>7. (i - 1 \in damage)'
  BY DEF Ghost
<1> QED BY <1>1, <1>4, <1>5, <1>6, <1>7 DEF Ghost, End, Size, Stub, Cell, up

--------------------------------------------------------------------------------
\* Each action keeps the invariant.

LEMMA UpRests ==
    ASSUME Rest, up, life' = life, reading' = reading
    PROVE  Restoring' /\ Rest'
BY DEF Rest, Restoring, up

LEMMA InitKeeps ==
    ASSUME Init
    PROVE  IInv
<1>1. Types
  BY DEF Init, Types, Idle, NothingRead
<1>2. MapOK
  BY DEF Init, MapOK, EmptyMap
<1>3. Places /\ Owners /\ Cells /\ NoGap
  BY DEF Init, Places, Owners, Cells, NoGap, Idle, Busy
<1>4. Table
  <2>1. Entries(Acked) = {} /\ Busy = {} /\ DOMAIN map = {}
    BY DEF Init, Entries, Acked, Busy, Idle, EmptyMap
  <2>2. DOMAIN Replay(Acked) = {}
    BY <2>1, EmptyTable DEF Replay, EmptyMap
  <2> QED BY <2>1, <2>2 DEF Table
<1>5. Restoring /\ Rest
  BY DEF Init, Restoring, Rest
<1> QED BY <1>1, <1>2, <1>3, <1>4, <1>5 DEF IInv

LEMMA LogKeeps ==
    ASSUME LoadsBack, IInv, NEW w \in Writer, NEW batch \in Batches, Log(w, batch)
    PROVE  IInv'
<1> DEFINE new == [at |-> offset_, batch |-> batch, written |-> FALSE, acked |-> FALSE]
           W == [pc |-> "writing", batch |-> batch, at |-> offset_]
<1>1. /\ up /\ writer[w].pc = "idle" /\ offset_' = offset_ + Len(Record(batch))
      /\ writer' = [writer EXCEPT ![w] = W]
      /\ records' = records \cup {new}
      /\ raced' = raced \cup (KeysOf(batch) \cap UNION {KeysOf(writer[x].batch) : x \in Busy})
      /\ file' = file /\ map' = map /\ life' = life /\ erase' = erase /\ reading' = reading
      /\ damage' = damage
  BY DEF Log
<1>2. Types /\ Places /\ Owners /\ Cells /\ NoGap
  BY DEF IInv
<1>3. up /\ up'
  BY <1>1 DEF up
<1>4. /\ offset_ \in Nat /\ Size(new) \in Nat /\ Size(new) > 1 /\ offset_' = offset_ + Size(new)
      /\ offset_' \in Nat /\ End(new) = offset_'
  <2>1. offset_ \in Nat
    BY <1>2 DEF Types
  <2>2. Len(Record(batch)) \in Nat /\ Len(Record(batch)) > 1
    BY RecordIs
  <2>3. new.at = offset_ /\ new.batch = batch
    OBVIOUS
  <2> HIDE DEF new
  <2> QED BY <1>1, <2>1, <2>2, <2>3 DEF Size, End
<1>5. \A r \in records : /\ r.at \in Nat /\ Size(r) \in Nat /\ Size(r) > 1
                         /\ End(r) = r.at + Size(r) /\ End(r) <= offset_ /\ r.at < offset_
  BY <1>2, <1>3, <1>4, SizeIs DEF Places
<1>6. /\ \A x \in Writer : writer'[x] = IF x = w THEN W ELSE writer[x]
      /\ DOMAIN writer = Writer
  BY <1>1, <1>2 DEF Types
<1>6a. Own(w)' = new
  <2>1. writer'[w].at = offset_ /\ writer'[w].batch = batch
    BY <1>6
  <2> QED BY <2>1 DEF Own, Marked
<1>6b. \A x \in Writer : x # w => Own(x)' = Own(x) /\ Written(x)' = Written(x)
  BY <1>6 DEF Own, Written, Marked
<1>7. Busy' = Busy \cup {w} /\ w \notin Busy
  BY <1>1, <1>6 DEF Busy
<1>8. \A x \in Busy : \E r \in records : writer[x].at = r.at /\ writer[x].batch = r.batch
  <2> TAKE x \in Busy
  <2>1. x \in Writer /\ writer[x].pc \in {"writing", "logged"}
    BY <1>2 DEF Busy, Types
  <2>2. Own(x).at = writer[x].at /\ Own(x).batch = writer[x].batch
    BY DEF Own, Marked
  <2>3. Written(x).at = writer[x].at /\ Written(x).batch = writer[x].batch
    BY DEF Written, Marked
  <2> QED BY <1>2, <2>1, <2>2, <2>3 DEF Owners
<1>9. Types'
  <2>1. new \in [at : Nat, batch : Batches, written : BOOLEAN, acked : BOOLEAN]
    BY <1>4
  <2>2. W \in [pc : {"idle", "writing", "logged"}, batch : Batches \cup {<<>>}, at : Nat]
    BY <1>4
  <2> HIDE DEF new
  <2>3. (records \subseteq [at : Nat, batch : Batches, written : BOOLEAN, acked : BOOLEAN])'
    BY <1>1, <1>2, <2>1 DEF Types
  <2>4. \A x \in Writer : writer'[x].pc # "idle" => writer'[x].batch \in Batches
    <3>1. \A x \in Writer : writer[x].pc # "idle" => writer[x].batch \in Batches
      BY <1>2 DEF Types
    <3>2. W.batch \in Batches
      OBVIOUS
    <3> HIDE DEF W
    <3> QED BY <1>6, <3>1, <3>2
  <2> HIDE DEF W
  <2>5. writer' \in [Writer -> [pc : {"idle", "writing", "logged"}, batch : Batches \cup {<<>>}, at : Nat]]
    BY <1>1, <1>2, <2>2 DEF Types
  <2> QED BY <1>1, <1>2, <1>4, <2>3, <2>4, <2>5 DEF Types
<1>10. Places'
  <2>1. new.at = offset_
    OBVIOUS
  <2> HIDE DEF new
  <2>2. \A r, q \in records' : r.at < q.at => End(r) <= q.at
    BY <1>1, <1>2, <1>4, <1>5, <2>1 DEF Places
  <2>3. \A r, q \in records' : r.at = q.at => r = q
    BY <1>1, <1>2, <1>4, <1>5, <2>1 DEF Places
  <2>4. \A r \in records' : End(r) <= offset_'
    BY <1>1, <1>4, <1>5
  <2> QED BY <2>2, <2>3, <2>4 DEF Places, End, Size
<1>11. Owners'
  <2>2. \A x, y \in Busy' : writer'[x].at = writer'[y].at => x = y
    <3>1. \A x \in Busy : x # w /\ writer'[x] = writer[x] /\ writer[x].at < offset_
      BY <1>5, <1>6, <1>7, <1>8 DEF Busy
    <3>2. writer'[w].at = offset_ /\ offset_ \in Nat
      BY <1>4, <1>6
    <3>3. \A x \in Busy : ~(writer'[x].at = writer'[w].at)
      BY <3>1, <3>2
    <3> QED BY <1>2, <1>7, <3>1, <3>3 DEF Owners
  <2>3. \A r \in records' : r.acked \/ \E x \in Busy' : writer'[x].at = r.at
    BY <1>1, <1>2, <1>3, <1>6, <1>7 DEF Owners
  <2>4. \A x \in Writer : writer'[x].pc = "writing" => Own(x)' \in records'
    BY <1>1, <1>2, <1>6, <1>6a, <1>6b DEF Owners
  <2>5. \A x \in Writer : writer'[x].pc = "logged" => Written(x)' \in records'
    BY <1>1, <1>2, <1>6, <1>6b DEF Owners
  <2>6. \A r \in records' : r.acked => r.written
    BY <1>1, <1>2 DEF Owners
  <2> QED BY <1>1, <1>3, <2>2, <2>3, <2>4, <2>5, <2>6 DEF Owners, up
<1>12. Cells'
  <2>1. \A i \in Nat : i > offset_ => Cell(file, i) = 0
    <3> TAKE i \in Nat
    <3> HAVE i > offset_
    <3>1. CASE i \in 1 .. Len(file)
      <4>1. ~ \E r \in records : In(r, i)
        BY <1>4, <1>5 DEF In
      <4>2. ~Ghost(i)
        BY <1>3, <1>4 DEF Ghost
      <4> QED BY <3>1, <4>1, <4>2, <1>2 DEF Cells, Cell
    <3>2. CASE i \notin 1 .. Len(file)
      BY <3>2, <1>2, <1>4 DEF Cell, Types
    <3> QED BY <3>1, <3>2
  <2>2. Holds(file, new, 0)
    BY <2>1, <1>4 DEF Holds
  <2>3. \A r \in records' : \E n \in 0 .. Size(r) : Holds(file, r, n)
    <3>1. 0 \in 0 .. Size(new)
      BY <1>4
    <3> HIDE DEF new
    <3> QED BY <1>1, <1>2, <2>2, <3>1 DEF Cells
  <2>4. \A x \in Writer : writer'[x].pc = "writing" => Holds(file, Own(x)', 0)
    <3> HIDE DEF new
    <3> QED BY <1>2, <1>6, <1>6a, <1>6b, <2>2 DEF Cells
  <2>5. \A r \in records' : Sound(r)' /\ r.written => Holds(file, r, Size(r))
    BY <1>1, <1>2, <1>3 DEF Cells, Sound
  <2>6. \A i \in 1 .. Len(file) : (\E r \in records' : In(r, i)) \/ file[i] = 0 \/ Ghost(i)'
    <3> TAKE i \in 1 .. Len(file)
    <3>1. CASE Ghost(i)
      <4>1. PICK end \in i .. Len(file) :
                /\ Stub(file, i - 1, end)
                /\ \A r \in records : End(r) <= i - 1 \/ end <= r.at
                /\ end <= offset_
        BY <3>1, <1>3 DEF Ghost
      <4>2. end <= new.at /\ end <= offset_'
        BY <4>1, <1>2, <1>4 DEF Types
      <4>3. \A r \in records' : End(r) <= i - 1 \/ end <= r.at
        BY <1>1, <4>1, <4>2
      <4> QED BY <1>1, <3>1, <4>1, <4>2, <4>3 DEF Ghost, End, Size
    <3> QED BY <3>1, <1>1, <1>2 DEF Cells
  <2> QED BY <1>1, <1>3, <2>3, <2>4, <2>5, <2>6 DEF Cells, Firm, Sound, Holds, Size, In
<1>13. NoGap'
  <2>1. \A r \in records, i \in Nat : In(r, i) => \E e \in records' : In(e, i)
    BY <1>1
  <2>2. \A i \in offset_ + 1 .. offset_' : In(new, i)
    BY <1>4 DEF In
  <2>3. \A r \in records' : Sound(r) => \A i \in 1 .. r.at : \E e \in records' : In(e, i)
    <3> TAKE r \in records'
    <3> HAVE Sound(r)
    <3>1. CASE r \in records
      BY <3>1, <2>1, <1>2, <1>5 DEF NoGap
    <3>2. CASE r = new
      <4>1. \A d \in damage : offset_ < d
        BY <3>2 DEF Sound
      <4>2. \A i \in 1 .. offset_ : \A d \in damage : i <= d
        BY <4>1, <1>2, <1>4 DEF Types
      <4> QED BY <3>2, <4>2, <2>1, <1>2, <1>3, <1>4 DEF NoGap
    <3> QED BY <3>1, <3>2, <1>1
  <2>4. \A i \in 1 .. offset_' : (\A d \in damage : i <= d) => \E e \in records' : In(e, i)
    <3> TAKE i \in 1 .. offset_'
    <3>1. CASE i \in 1 .. offset_
      BY <3>1, <2>1, <1>2, <1>3, <1>4 DEF NoGap
    <3>2. CASE i \notin 1 .. offset_
      BY <3>2, <2>2, <1>1, <1>4
    <3> QED BY <3>1, <3>2
  <2> QED BY <1>1, <2>3, <2>4 DEF NoGap, Sound, In, End, Size
<1>14. Table'
  <2>1. Acked' = Acked
    BY <1>1 DEF Acked
  <2>2. Replay(Acked)' = Replay(Acked)
    BY <2>1, <1>1 DEF Replay, Entries, TableOf, Kept, LastSaid, LastOn, Newest, With, ItemOf, KeysOf
  <2>3. \A k \in (DOMAIN map \cup DOMAIN Replay(Acked)) \ raced' :
            k \in DOMAIN map \cap DOMAIN Replay(Acked) /\ map[k] = Replay(Acked)[k]
    BY <1>1, <1>3 DEF IInv, Table
  <2>4. ASSUME NEW x \in Busy', NEW k \in KeysOf(writer'[x].batch) \ raced',
               NEW r \in records', k \in KeysOf(r.batch)
        PROVE  r.at <= writer'[x].at
    <3>1. CASE x = w
      BY <3>1, <2>4, <1>1, <1>4, <1>5, <1>6, <1>7
    <3>2. CASE x # w /\ r \in records
      BY <3>2, <2>4, <1>1, <1>3, <1>6, <1>7 DEF IInv, Table
    <3>3. CASE x # w /\ r = new
      <4>1. k \in KeysOf(batch) /\ x \in Busy /\ k \in KeysOf(writer[x].batch)
        BY <3>3, <2>4, <1>6, <1>7 DEF Busy
      <4>2. k \in raced'
        BY <4>1, <1>1
      <4> QED BY <4>2, <2>4
    <3> QED BY <3>1, <3>2, <3>3, <1>1
  <2> QED BY <1>1, <2>2, <2>3, <2>4 DEF Table
<1>15. MapOK'
  BY <1>1 DEF IInv, MapOK
<1>16. Restoring' /\ Rest'
  BY <1>1, <1>3, UpRests DEF IInv
<1> QED BY <1>9, <1>10, <1>11, <1>12, <1>13, <1>14, <1>15, <1>16 DEF IInv

LEMMA WriterIs ==
    ASSUME Types, NEW w \in Writer
    PROVE  /\ writer[w].pc \in {"idle", "writing", "logged"} /\ writer[w].at \in Nat
           /\ writer[w].pc # "idle" => writer[w].batch \in Batches
           /\ Own(w).at = writer[w].at /\ Own(w).batch = writer[w].batch
           /\ ~Own(w).written /\ ~Own(w).acked
           /\ Written(w).at = writer[w].at /\ Written(w).batch = writer[w].batch
           /\ Written(w).written /\ ~Written(w).acked
           /\ Size(Written(w)) = Size(Own(w)) /\ End(Written(w)) = End(Own(w))
<1>1. /\ writer[w].pc \in {"idle", "writing", "logged"} /\ writer[w].at \in Nat
      /\ writer[w].pc # "idle" => writer[w].batch \in Batches
  BY DEF Types
<1>2. /\ Own(w).at = writer[w].at /\ Own(w).batch = writer[w].batch
      /\ ~Own(w).written /\ ~Own(w).acked
  BY DEF Own, Marked
<1>3. /\ Written(w).at = writer[w].at /\ Written(w).batch = writer[w].batch
      /\ Written(w).written /\ ~Written(w).acked
  BY DEF Written, Marked
<1> QED BY <1>1, <1>2, <1>3 DEF Size, End

\* The first n cells of a record are written, and its fiber goes on.
LEMMA WriteKeeps ==
    ASSUME LoadsBack, IInv, NEW w \in Writer, up, writer[w].pc = "writing",
           NEW n \in 0 .. Size(Own(w)),
           file' = PWrite(file, writer[w].at, SubSeq(Record(writer[w].batch), 1, n)),
           writer' = [writer EXCEPT ![w].pc = "logged"],
           records' = (records \ {Own(w)}) \cup {Written(w)},
           \/ damage' = damage /\ n = Size(Own(w))
           \/ damage' = damage \cup {writer[w].at},
           UNCHANGED <<offset_, map, life, erase, reading, raced>>
    PROVE  IInv'
<1> DEFINE own == Own(w)  new == Written(w)
<1>1. Types /\ Places /\ Owners /\ Cells /\ NoGap /\ MapOK
  BY DEF IInv
<1>2. /\ own \in records /\ own.at = writer[w].at /\ own.batch = writer[w].batch
      /\ new.at = own.at /\ new.batch = own.batch /\ Size(new) = Size(own) /\ End(new) = End(own)
      /\ new.written /\ ~new.acked /\ ~own.written /\ ~own.acked
      /\ Holds(file, own, 0)
  BY <1>1, WriterIs DEF Owners, Cells
<1>3. \A r \in records : /\ r.at \in Nat /\ Size(r) \in Nat /\ Size(r) > 1
                         /\ End(r) = r.at + Size(r) /\ End(r) <= offset_ /\ End(r) \in Nat
  BY <1>1, SizeIs DEF Places
<1>4. /\ file' \in Seq(Nat) /\ Len(file') >= Len(file)
      /\ Holds(file', own, n)
      /\ \A i \in Nat \ {0} : ~In(own, i) => Cell(file', i) = Cell(file, i)
      /\ \A r \in records, m \in Nat : r # own /\ Holds(file, r, m) => Holds(file', r, m)
  <2>1. file' = PWrite(file, own.at, SubSeq(Record(own.batch), 1, n))
    BY <1>2
  <2> QED BY <2>1, <1>1, <1>2, RecordWritten
<1>5. /\ \A x \in Writer : x # w => writer'[x] = writer[x] /\ Own(x)' = Own(x) /\ Written(x)' = Written(x)
      /\ writer'[w].pc = "logged" /\ writer'[w].at = writer[w].at /\ writer'[w].batch = writer[w].batch
      /\ DOMAIN writer = Writer
  BY <1>1 DEF Types, Own, Written, Marked
<1>5a. Written(w)' = new
  BY <1>5 DEF Written, Marked
<1>6. Busy' = Busy /\ w \in Busy /\ \A x \in Writer : writer'[x].at = writer[x].at /\ writer'[x].batch = writer[x].batch
  BY <1>5 DEF Busy
<1>7. up' /\ life' = life /\ offset_' = offset_ /\ map' = map /\ erase' = erase /\ reading' = reading
      /\ raced' = raced
  BY DEF up
<1>8. records' = (records \ {own}) \cup {new}
  OBVIOUS
<1>9. damage \subseteq damage' /\ (n = Size(own) \/ own.at \in damage')
  BY <1>2
<1>9a. damage' \subseteq Nat
  BY <1>1, WriterIs DEF Types
<1>10. Types'
  <2>1. new \in [at : Nat, batch : Batches, written : BOOLEAN, acked : BOOLEAN]
    BY <1>1, WriterIs DEF Written, Marked
  <2>2. (records \subseteq [at : Nat, batch : Batches, written : BOOLEAN, acked : BOOLEAN])'
    BY <1>8, <1>1, <2>1 DEF Types
  <2>3. writer' \in [Writer -> [pc : {"idle", "writing", "logged"}, batch : Batches \cup {<<>>}, at : Nat]]
    BY <1>1 DEF Types
  <2>4. \A x \in Writer : writer'[x].pc # "idle" => writer'[x].batch \in Batches
    BY <1>1, <1>5, WriterIs
  <2> QED BY <1>1, <1>4, <1>7, <1>9a, <2>2, <2>3, <2>4 DEF Types
<1> HIDE DEF own, new
<1>11. /\ \A r \in records' : \E q \in records : q.at = r.at /\ q.batch = r.batch
       /\ \A q \in records : \E r \in records' : q.at = r.at /\ q.batch = r.batch
  BY <1>2, <1>8
<1>12. \A i : (\E r \in records : In(r, i)) <=> (\E r \in records' : In(r, i))
  BY <1>11 DEF In, End, Size
<1>13. Places'
  <2>1. \A r, q \in records' : r.at < q.at => End(r) <= q.at
    BY <1>1, <1>2, <1>8 DEF Places
  <2>2. \A r, q \in records' : r.at = q.at => r = q
    BY <1>1, <1>2, <1>8 DEF Places
  <2>3. \A r \in records' : End(r) <= offset_
    BY <1>2, <1>3, <1>8
  <2> QED BY <1>7, <2>1, <2>2, <2>3 DEF Places, End, Size
<1>14. Owners'
  <2>1. \A x \in Writer : x # w /\ writer[x].pc = "writing" => Own(x) # own
    BY <1>1, <1>2, <1>6, WriterIs DEF Owners, Busy
  <2>2. \A x \in Writer : writer'[x].pc = "writing" => Own(x)' \in records'
    BY <1>1, <1>5, <1>8, <2>1 DEF Owners
  <2>3. \A x \in Writer : writer'[x].pc = "logged" => Written(x)' \in records'
    <3>1. \A x \in Writer : Written(x) # own
      BY <1>1, <1>2, WriterIs
    <3> QED BY <1>1, <1>5, <1>5a, <1>8, <3>1 DEF Owners
  <2>4. \A x, y \in Busy' : writer'[x].at = writer'[y].at => x = y
    BY <1>1, <1>6 DEF Owners, Busy
  <2>5. \A r \in records' : r.acked \/ \E x \in Busy' : writer'[x].at = r.at
    <3>1. \A r \in records : r.acked \/ \E x \in Busy : writer[x].at = r.at
      BY <1>1 DEF Owners
    <3>2. Busy' \subseteq Writer
      BY DEF Busy
    <3> QED BY <3>1, <3>2, <1>6, <1>2, <1>8
  <2>6. \A r \in records' : r.acked => r.written
    BY <1>1, <1>2, <1>8 DEF Owners
  <2> QED BY <1>7, <2>2, <2>3, <2>4, <2>5, <2>6 DEF Owners, up
<1>15. Cells'
  <2>0. \A m \in Nat : Holds(file', own, m) => Holds(file', new, m)
    BY <1>2 DEF Holds, Size
  <2>1. \A r \in records' : \E m \in 0 .. Size(r) : Holds(file', r, m)
    <3> TAKE r \in records'
    <3>1. CASE r = new
      BY <3>1, <2>0, <1>2, <1>4 DEF own
    <3>2. CASE r # new
      <4>1. r \in records /\ r # own
        BY <3>2, <1>8
      <4>2. PICK m \in 0 .. Size(r) : Holds(file, r, m)
        BY <4>1, <1>1 DEF Cells
      <4> QED BY <4>1, <4>2, <1>4
    <3> QED BY <3>1, <3>2
  <2>2. \A x \in Writer : writer'[x].pc = "writing" => Holds(file', Own(x)', 0)
    <3> TAKE x \in Writer
    <3> HAVE writer'[x].pc = "writing"
    <3>1. x # w /\ Own(x)' = Own(x) /\ writer[x].pc = "writing"
      BY <1>5
    <3>2. Own(x) \in records /\ Own(x) # own /\ Holds(file, Own(x), 0)
      BY <3>1, <1>1, <1>2, <1>6, WriterIs DEF Owners, Busy, Cells
    <3> QED BY <3>1, <3>2, <1>4
  <2>3. \A r \in records' : Sound(r)' /\ r.written => Holds(file', r, Size(r))
    <3> TAKE r \in records'
    <3> HAVE Sound(r)' /\ r.written
    <3>1. CASE r = new
      <4>1. ~(own.at \in damage')
        BY <3>1, <1>2, <1>3 DEF Sound
      <4> QED BY <3>1, <4>1, <2>0, <1>2, <1>3, <1>4, <1>9
    <3>2. CASE r # new
      <4>1. r \in records /\ r # own /\ Sound(r)
        BY <3>2, <1>8, <1>9 DEF Sound
      <4>2. Holds(file, r, Size(r)) /\ Size(r) \in Nat
        BY <4>1, <1>1, <1>3 DEF Cells
      <4> QED BY <4>1, <4>2, <1>4
    <3> QED BY <3>1, <3>2
  <2>4. \A i \in 1 .. Len(file') : (\E r \in records' : In(r, i)) \/ file'[i] = 0 \/ Ghost(i)'
    <3> TAKE i \in 1 .. Len(file')
    <3>0. i \in Nat \ {0} /\ Cell(file', i) = file'[i]
      BY <1>4 DEF Cell
    <3>1. CASE In(own, i)
      BY <3>1, <1>2, <1>12
    <3>2. CASE ~In(own, i) /\ i > Len(file)
      BY <3>0, <3>2, <1>1, <1>4 DEF Cell, Types
    <3>3. CASE ~In(own, i) /\ i <= Len(file)
      <4>1. i \in 1 .. Len(file) /\ file'[i] = file[i]
        BY <3>0, <3>3, <1>1, <1>4, SMTT(30) DEF Cell, Types
      <4>2. ASSUME Ghost(i) PROVE Ghost(i)'
        <5>1. \A j \in Nat \ {0} : Cell(file', j) = Cell(file, j) \/ \E q \in records : In(q, j)
          BY <1>2, <1>4
        <5>2. Len(file') \in Nat /\ Len(file) <= Len(file')
          BY <1>1, <1>4 DEF Types
        <5>3. up' => up /\ offset_' = offset_
          BY <1>7
        <5> QED BY <4>1, <4>2, <5>1, <5>2, <5>3, <1>1, <1>9, <1>11, GhostKept
      <4> QED BY <4>1, <4>2, <1>1, <1>12 DEF Cells
    <3>4. Len(file) \in Nat
      BY <1>1 DEF Types
    <3> QED BY <3>0, <3>1, <3>2, <3>3, <3>4
  <2>5. \A r \in records' : Firm(r)' => Sound(r)' /\ r.written
    BY DEF Firm
  <2> QED BY <2>1, <2>2, <2>3, <2>4, <2>5 DEF Cells, Holds, Size, In, End, up
<1>16. NoGap'
  <2>1. \A r \in records' : Sound(r)' => \A i \in 1 .. r.at : \E e \in records' : In(e, i)
    <3> TAKE r \in records'
    <3> HAVE Sound(r)'
    <3>1. PICK q \in records : q.at = r.at
      BY <1>11
    <3>2. Sound(q)
      BY <3>1, <1>9 DEF Sound
    <3> QED BY <3>1, <3>2, <1>1, <1>12 DEF NoGap
  <2>2. \A i \in 1 .. offset_' : (\A d \in damage' : i <= d) => \E e \in records' : In(e, i)
    BY <1>1, <1>7, <1>9, <1>12 DEF NoGap
  <2> QED BY <2>1, <2>2 DEF NoGap, In, End, Size, up
<1>17. Table'
  <2>1. Acked' = Acked
    BY <1>2, <1>8 DEF Acked
  <2>2. Replay(Acked)' = Replay(Acked)
    BY <2>1, <1>7 DEF Replay, Entries, TableOf, Kept, LastSaid, LastOn, Newest, With, ItemOf, KeysOf
  <2>3. \A x \in Busy : \A k \in KeysOf(writer[x].batch) \ raced :
            \A r \in records' : k \in KeysOf(r.batch) => r.at <= writer[x].at
    BY <1>11, up DEF IInv, Table
  <2>4. Busy \subseteq Writer
    BY DEF Busy
  <2>5. \A x \in Busy' : \A k \in KeysOf(writer'[x].batch) \ raced' :
            \A r \in records' : k \in KeysOf(r.batch) => r.at <= writer'[x].at
    BY <1>6, <1>7, <2>3, <2>4
  <2>6. \A k \in (DOMAIN map \cup DOMAIN Replay(Acked)) \ raced :
            k \in DOMAIN map \cap DOMAIN Replay(Acked) /\ map[k] = Replay(Acked)[k]
    BY DEF IInv, Table
  <2> QED BY <2>2, <2>5, <2>6, <1>7 DEF Table
<1>18. MapOK'
  BY <1>1, <1>7 DEF MapOK
<1>19. Restoring' /\ Rest'
  BY <1>7, UpRests DEF IInv
<1> QED BY <1>10, <1>13, <1>14, <1>15, <1>16, <1>17, <1>18, <1>19 DEF IInv

LEMMA WriteDoneKeeps ==
    ASSUME LoadsBack, IInv, NEW w \in Writer, WriteDone(w)
    PROVE  IInv'
<1>1. /\ writer[w].batch \in Batches /\ up /\ writer[w].pc = "writing"
      /\ Size(Own(w)) = Len(Record(writer[w].batch))
  BY WriterIs DEF WriteDone, IInv, Size
<1>2. /\ Len(Record(writer[w].batch)) \in Nat
      /\ SubSeq(Record(writer[w].batch), 1, Len(Record(writer[w].batch))) = Record(writer[w].batch)
  BY <1>1, RecordIs
<1>3. Size(Own(w)) \in 0 .. Size(Own(w))
  BY <1>1, <1>2
<1>4. file' = PWrite(file, writer[w].at, SubSeq(Record(writer[w].batch), 1, Size(Own(w))))
  BY <1>1, <1>2 DEF WriteDone
<1> QED BY <1>1, <1>3, <1>4, WriteKeeps DEF WriteDone

LEMMA WriteShortKeeps ==
    ASSUME LoadsBack, IInv, NEW w \in Writer,
           NEW n \in Cuts(Len(Record(writer[w].batch))), WriteShort(w, n)
    PROVE  IInv'
<1>1. /\ writer[w].batch \in Batches /\ up /\ writer[w].pc = "writing"
      /\ Size(Own(w)) = Len(Record(writer[w].batch))
  BY WriterIs DEF WriteShort, IInv, Size
<1>2. n \in 0 .. Size(Own(w))
  <2>1. Len(Record(writer[w].batch)) = Len(StoreTo(writer[w].batch)) + 1
    BY <1>1, RecordIs
  <2> QED BY <1>1, <2>1, CutAssumption
<1> QED BY <1>1, <1>2, WriteKeeps DEF WriteShort

LEMMA WriteFailsKeeps ==
    ASSUME LoadsBack, IInv, NEW w \in Writer, WriteFails(w)
    PROVE  IInv'
<1> DEFINE own == Own(w)  at == writer[w].at
<1>1. /\ up /\ writer[w].pc = "writing" /\ file' = Resize(file, at)
      /\ writer' = [writer EXCEPT ![w] = Idle] /\ records' = records \ {own}
      /\ damage' = damage \cup {at}
      /\ up' /\ life' = life /\ offset_' = offset_ /\ map' = map /\ erase' = erase
      /\ reading' = reading /\ raced' = raced
  BY DEF WriteFails, Truncated, up
<1>2. Types /\ Places /\ Owners /\ Cells /\ NoGap /\ MapOK
  BY DEF IInv
<1>3. own \in records /\ own.at = at /\ ~own.acked /\ at \in Nat
  BY <1>1, <1>2, WriterIs DEF Owners
<1>4. \A r \in records : /\ r.at \in Nat /\ Size(r) \in Nat /\ Size(r) > 1
                         /\ End(r) = r.at + Size(r) /\ End(r) <= offset_ /\ End(r) \in Nat
                         /\ r # own => End(r) <= at \/ r.at > at
  BY <1>1, <1>2, <1>3, SizeIs DEF Places
<1>5. /\ \A x \in Writer : x # w => writer'[x] = writer[x] /\ Own(x)' = Own(x) /\ Written(x)' = Written(x)
      /\ writer'[w] = Idle
  BY <1>1, <1>2 DEF Types, Own, Written, Marked
<1>6. Busy' = Busy \ {w} /\ w \in Busy
  BY <1>1, <1>5 DEF Busy, Idle
<1> HIDE DEF own, at
<1>7. /\ file' \in Seq(Nat) /\ Len(file') = at
      /\ \A i \in Nat \ {0} : Cell(file', i) = IF i <= at THEN Cell(file, i) ELSE 0
  <2>1. file \in Seq(Nat)
    BY <1>2 DEF Types
  <2>2. /\ Resize(file, at) \in Seq(Nat) /\ Len(Resize(file, at)) = at
        /\ \A i \in Nat \ {0} : Cell(Resize(file, at), i) = IF i <= at THEN Cell(file, i) ELSE 0
    BY <2>1, <1>3, ResizeIs
  <2> QED BY <2>2, <1>1
<1>8. Types'
  <2>1. writer' \in [Writer -> [pc : {"idle", "writing", "logged"}, batch : Batches \cup {<<>>}, at : Nat]]
    BY <1>1, <1>2 DEF Types, Idle
  <2>2. \A x \in Writer : writer'[x].pc # "idle" => writer'[x].batch \in Batches
    <3>1. writer'[w].pc = "idle"
      BY <1>5 DEF Idle
    <3> QED BY <3>1, <1>2, <1>5 DEF Types
  <2> QED BY <1>1, <1>2, <1>3, <1>7, <2>1, <2>2 DEF Types
<1>9. Places'
  BY <1>1, <1>2 DEF Places, End, Size
<1>10. Owners'
  <2>1. \A x \in Writer : x # w /\ writer[x].pc = "writing" => Own(x) # own
    BY <1>2, <1>3, <1>6, WriterIs DEF Owners, Busy, at
  <2>2. \A x \in Writer : writer'[x].pc = "writing" => Own(x)' \in records'
    BY <1>1, <1>2, <1>5, <2>1 DEF Owners, Idle
  <2>3. \A x \in Writer : writer'[x].pc = "logged" => Written(x)' \in records'
    <3>1. \A x \in Writer : Written(x) # own
      BY <1>2, WriterIs DEF own
    <3> QED BY <1>1, <1>2, <1>5, <3>1 DEF Owners, Idle
  <2>4. \A x, y \in Busy' : writer'[x].at = writer'[y].at => x = y
    BY <1>2, <1>5, <1>6 DEF Owners, Busy
  <2>5. \A r \in records' : r.acked \/ \E x \in Busy' : writer'[x].at = r.at
    <3> TAKE r \in records'
    <3>1. r \in records /\ r # own /\ r.at # own.at
      BY <1>1, <1>2, <1>3 DEF Places
    <3>2. r.acked \/ \E x \in Busy : writer[x].at = r.at
      BY <1>1, <1>2, <3>1 DEF Owners
    <3>3. Busy \subseteq Writer
      BY DEF Busy
    <3> QED BY <1>3, <1>5, <1>6, <3>1, <3>2, <3>3 DEF at
  <2>6. \A r \in records' : r.acked => r.written
    BY <1>1, <1>2 DEF Owners
  <2> QED BY <1>1, <2>2, <2>3, <2>4, <2>5, <2>6 DEF Owners, up
<1>11. Cells'
  <2>1. \A r \in records', m \in Nat : End(r) <= at /\ Holds(file, r, m) /\ m <= Size(r) => Holds(file', r, m)
    <3> TAKE r \in records', m \in Nat
    <3> HAVE End(r) <= at /\ Holds(file, r, m) /\ m <= Size(r)
    <3>1. r.at \in Nat /\ Size(r) \in Nat /\ End(r) = r.at + Size(r)
      BY <1>1, <1>4
    <3>2. \A i \in 1 .. Size(r) : r.at + i \in Nat \ {0} /\ r.at + i <= at
      BY <1>3, <3>1
    <3>3. \A i \in 1 .. Size(r) : Cell(file', r.at + i) = Cell(file, r.at + i)
      BY <1>7, <3>2
    <3> QED BY <1>3, <1>7, <3>1, <3>3 DEF Holds
  <2>2. \A r \in records' : r.at > at => Holds(file', r, 0)
    <3> TAKE r \in records'
    <3> HAVE r.at > at
    <3>1. \A i \in 1 .. Size(r) : r.at + i \in Nat \ {0} /\ ~(r.at + i <= at)
      BY <1>1, <1>3, <1>4
    <3> QED BY <1>7, <3>1 DEF Holds
  <2>3. \A r \in records' : r \in records /\ (End(r) <= at \/ r.at > at)
    BY <1>1, <1>4
  <2>4. \A r \in records' : \E m \in 0 .. Size(r) : Holds(file', r, m)
    <3> TAKE r \in records'
    <3>1. PICK m \in 0 .. Size(r) : Holds(file, r, m)
      BY <1>2, <2>3 DEF Cells
    <3>2. m \in Nat /\ m <= Size(r) /\ 0 \in 0 .. Size(r)
      BY <1>4, <2>3
    <3> QED BY <2>1, <2>2, <2>3, <3>1, <3>2
  <2>5. \A x \in Writer : writer'[x].pc = "writing" => Holds(file', Own(x)', 0)
    <3> TAKE x \in Writer
    <3> HAVE writer'[x].pc = "writing"
    <3>1. x # w /\ Own(x)' = Own(x) /\ writer[x].pc = "writing"
      BY <1>5 DEF Idle
    <3>2. Own(x) \in records /\ Own(x) # own /\ Holds(file, Own(x), 0)
      BY <3>1, <1>2, <1>3, <1>6, WriterIs DEF Owners, Busy, Cells, at
    <3>3. Own(x) \in records' /\ 0 <= Size(Own(x))
      BY <3>2, <1>1, <1>4
    <3> QED BY <3>1, <3>2, <3>3, <2>1, <2>2, <2>3
  <2>6. \A r \in records' : Sound(r)' /\ r.written => Holds(file', r, Size(r))
    <3> TAKE r \in records'
    <3> HAVE Sound(r)' /\ r.written
    <3>1. r.at < at /\ Sound(r)
      BY <1>1 DEF Sound
    <3>2. End(r) <= at /\ Size(r) \in Nat
      BY <3>1, <1>3, <1>4, <2>3
    <3>3. Holds(file, r, Size(r))
      BY <3>1, <1>1, <1>2, <2>3 DEF Cells
    <3> QED BY <3>2, <3>3, <2>1
  <2>7. \A i \in 1 .. Len(file') : (\E r \in records' : In(r, i)) \/ file'[i] = 0 \/ Ghost(i)'
    <3> TAKE i \in 1 .. Len(file')
    <3>0. i \in Nat \ {0} /\ i <= at /\ Cell(file', i) = file'[i] /\ file'[i] = Cell(file, i)
      BY <1>3, <1>7 DEF Cell
    <3>1. CASE i > Len(file)
      BY <3>0, <3>1, <1>2 DEF Cell, Types
    <3>2. CASE i <= Len(file)
      <4>1. i \in 1 .. Len(file) /\ file'[i] = file[i] /\ Len(file) \in Nat
        BY <3>0, <3>2, <1>2 DEF Cell, Types
      <4>2. \A r \in records : In(r, i) => r \in records'
        BY <3>0, <1>1, <1>3, <1>4 DEF In
      <4>3. ASSUME Ghost(i) PROVE Ghost(i)'
        <5>1. PICK end \in i .. Len(file) :
                /\ Stub(file, i - 1, end)
                /\ \A r \in records : End(r) <= i - 1 \/ end <= r.at
                /\ end <= offset_
          BY <4>3, <1>1 DEF Ghost
        <5>2. end \in Nat /\ end <= at
          BY <5>1, <3>0, <1>3, <1>4
        <5>3. \A j \in i .. end : Cell(file', j) = Cell(file, j)
          <6>1. \A j \in i .. end : j \in Nat \ {0} /\ j <= at
            BY <5>2, <3>0, <1>3
          <6> QED BY <6>1, <1>7
        <5>4. Stub(file', i - 1, end)
          <6>1. (i - 1) + 1 = i /\ (i - 1) + 2 = i + 1 /\ i \in i .. end
            BY <3>0, <5>1
          <6> QED BY <5>1, <5>3, <6>1, <3>0, <5>2 DEF Stub
        <5>5. end \in i .. Len(file')
          BY <5>1, <5>2, <1>7
        <5>6. i - 1 \in damage'
          BY <4>3, <1>1 DEF Ghost
        <5> QED BY <5>1, <5>4, <5>5, <5>6, <1>1 DEF Ghost, End, Size, Stub, Cell
      <4> QED BY <4>1, <4>2, <4>3, <1>2 DEF Cells
    <3>3. Len(file) \in Nat
      BY <1>2 DEF Types
    <3> QED BY <3>0, <3>1, <3>2, <3>3
  <2>8. \A r \in records' : Firm(r)' => Sound(r)' /\ r.written
    BY DEF Firm
  <2> QED BY <2>4, <2>5, <2>6, <2>7, <2>8 DEF Cells, Holds, Size, In, End, up
<1>12. NoGap'
  <2>1. \A r \in records, i \in 1 .. at : In(r, i) => r \in records'
    BY <1>1, <1>3, <1>4 DEF In
  <2>2. \A r \in records' : Sound(r)' => \A i \in 1 .. r.at : \E e \in records' : In(e, i)
    <3> TAKE r \in records'
    <3> HAVE Sound(r)'
    <3>1. r.at < at /\ Sound(r) /\ r \in records
      BY <1>1 DEF Sound
    <3>2. \A i \in 1 .. r.at : i \in 1 .. at
      BY <3>1, <1>3, <1>4
    <3> QED BY <3>1, <3>2, <2>1, <1>2 DEF NoGap
  <2>3. \A i \in 1 .. offset_' : (\A d \in damage' : i <= d) => \E e \in records' : In(e, i)
    <3> TAKE i \in 1 .. offset_'
    <3> HAVE \A d \in damage' : i <= d
    <3>1. i <= at /\ \A d \in damage : i <= d
      BY <1>1
    <3>2. i \in 1 .. at /\ i \in 1 .. offset_
      BY <3>1, <1>1, <1>3
    <3> QED BY <3>1, <3>2, <2>1, <1>1, <1>2 DEF NoGap
  <2> QED BY <2>2, <2>3 DEF NoGap, In, End, Size, up
<1>13. Table'
  <2>1. Acked' = Acked
    BY <1>1, <1>3 DEF Acked
  <2>2. Replay(Acked)' = Replay(Acked)
    BY <2>1, <1>1 DEF Replay, Entries, TableOf, Kept, LastSaid, LastOn, Newest, With, ItemOf, KeysOf
  <2>3. Busy \subseteq Writer
    BY DEF Busy
  <2>4. \A x \in Busy' : \A k \in KeysOf(writer'[x].batch) \ raced' :
            \A r \in records' : k \in KeysOf(r.batch) => r.at <= writer'[x].at
    BY <1>1, <1>5, <1>6, <2>3 DEF IInv, Table
  <2>5. \A k \in (DOMAIN map \cup DOMAIN Replay(Acked)) \ raced :
            k \in DOMAIN map \cap DOMAIN Replay(Acked) /\ map[k] = Replay(Acked)[k]
    BY <1>1 DEF IInv, Table
  <2> QED BY <2>2, <2>4, <2>5, <1>1 DEF Table
<1>14. MapOK'
  BY <1>1, <1>2 DEF MapOK
<1>15. Restoring' /\ Rest'
  BY <1>1, UpRests DEF IInv
<1> QED BY <1>8, <1>9, <1>10, <1>11, <1>12, <1>13, <1>14, <1>15 DEF IInv

LEMMA ApplyKeeps ==
    ASSUME LoadsBack, IInv, NEW w \in Writer, Apply(w)
    PROVE  IInv'
<1> DEFINE own == Written(w)  new == Marked(writer[w], TRUE, TRUE)  b == writer[w].batch
<1>1. /\ up /\ writer[w].pc = "logged"
      /\ writer' = [writer EXCEPT ![w] = Idle] /\ records' = (records \ {own}) \cup {new}
      /\ map' = InternalAction(map, b)
      /\ up' /\ life' = life /\ offset_' = offset_ /\ file' = file /\ erase' = erase
      /\ reading' = reading /\ raced' = raced /\ damage' = damage
  BY DEF Apply, up
<1>2. Types /\ Places /\ Owners /\ Cells /\ NoGap /\ MapOK
  BY DEF IInv
<1>3. /\ own \in records /\ own.at = writer[w].at /\ own.batch = b /\ own.written /\ ~own.acked
      /\ b \in Batches /\ own.at \in Nat
  BY <1>1, <1>2, WriterIs DEF Owners
<1>4. /\ new.at = own.at /\ new.batch = b /\ new.written /\ new.acked
      /\ new \in [at : Nat, batch : Batches, written : BOOLEAN, acked : BOOLEAN]
  BY <1>3 DEF Marked
<1>5. /\ \A x \in Writer : x # w => writer'[x] = writer[x] /\ Own(x)' = Own(x) /\ Written(x)' = Written(x)
      /\ writer'[w].pc = "idle"
  BY <1>1, <1>2 DEF Types, Own, Written, Marked, Idle
<1>6. Busy' = Busy \ {w} /\ w \in Busy /\ Busy \subseteq Writer
  BY <1>1, <1>5 DEF Busy
<1> HIDE DEF own, new, b
<1>7. /\ \A r \in records' : \E q \in records : q.at = r.at /\ q.batch = r.batch
      /\ \A q \in records : \E r \in records' : q.at = r.at /\ q.batch = r.batch
  BY <1>1, <1>3, <1>4
<1>8. \A i : (\E r \in records : In(r, i)) <=> (\E r \in records' : In(r, i))
  BY <1>7 DEF In, End, Size
<1>8a. Size(new) = Size(own) /\ End(new) = End(own)
  BY <1>3, <1>4 DEF Size, End
<1>9. Types'
  <2>1. writer' \in [Writer -> [pc : {"idle", "writing", "logged"}, batch : Batches \cup {<<>>}, at : Nat]]
    BY <1>1, <1>2 DEF Types, Idle
  <2>2. \A x \in Writer : writer'[x].pc # "idle" => writer'[x].batch \in Batches
    BY <1>2, <1>5 DEF Types
  <2>3. records' \subseteq [at : Nat, batch : Batches, written : BOOLEAN, acked : BOOLEAN]
    BY <1>1, <1>2, <1>4 DEF Types
  <2> QED BY <1>1, <1>2, <2>1, <2>2, <2>3 DEF Types
<1>10. Places'
  <2>1. \A r, q \in records' : r.at < q.at => End(r) <= q.at
    BY <1>1, <1>2, <1>3, <1>4, <1>8a DEF Places
  <2>2. \A r, q \in records' : r.at = q.at => r = q
    BY <1>1, <1>2, <1>3, <1>4 DEF Places
  <2>3. \A r \in records' : End(r) <= offset_
    BY <1>1, <1>2, <1>3, <1>8a DEF Places
  <2> QED BY <1>1, <2>1, <2>2, <2>3 DEF Places, End, Size
<1>11. Owners'
  <2>1. \A x \in Writer : writer'[x].pc = "writing" => Own(x)' \in records'
    <3>1. \A x \in Writer : Own(x) # own
      BY <1>2, <1>3, WriterIs
    <3> QED BY <1>1, <1>2, <1>5, <3>1 DEF Owners
  <2>2. \A x \in Writer : writer'[x].pc = "logged" => Written(x)' \in records'
    <3>1. \A x \in Writer : x # w /\ writer[x].pc = "logged" => Written(x) # own
      BY <1>2, <1>3, <1>6, WriterIs DEF Owners, Busy
    <3> QED BY <1>1, <1>2, <1>5, <3>1 DEF Owners
  <2>3. \A x, y \in Busy' : writer'[x].at = writer'[y].at => x = y
    BY <1>2, <1>5, <1>6 DEF Owners
  <2>4. \A r \in records' : r.acked \/ \E x \in Busy' : writer'[x].at = r.at
    <3> TAKE r \in records'
    <3>1. CASE r = new
      BY <3>1, <1>4
    <3>2. CASE r # new
      <4>1. r \in records /\ r.at # own.at
        BY <3>2, <1>1, <1>2, <1>3 DEF Places
      <4>2. r.acked \/ \E x \in Busy : writer[x].at = r.at
        BY <4>1, <1>1, <1>2 DEF Owners
      <4> QED BY <4>1, <4>2, <1>3, <1>5, <1>6
    <3> QED BY <3>1, <3>2
  <2>5. \A r \in records' : r.acked => r.written
    BY <1>1, <1>2, <1>4 DEF Owners
  <2> QED BY <1>1, <2>1, <2>2, <2>3, <2>4, <2>5 DEF Owners, up
<1>12. Cells'
  <2>0. \A m \in Nat : Holds(file, own, m) <=> Holds(file, new, m)
    BY <1>3, <1>4, <1>8a DEF Holds
  <2>size. Size(own) \in Nat
    BY <1>2, <1>3, SizeIs
  <2>1. \A r \in records' : \E m \in 0 .. Size(r) : Holds(file, r, m)
    BY <2>0, <2>size, <1>1, <1>2, <1>3, <1>8a DEF Cells
  <2>2. \A x \in Writer : writer'[x].pc = "writing" => Holds(file, Own(x)', 0)
    BY <1>2, <1>5 DEF Cells
  <2>3. \A r \in records' : Sound(r) /\ r.written => Holds(file, r, Size(r))
    <3> TAKE r \in records'
    <3> HAVE Sound(r) /\ r.written
    <3>1. CASE r = new
      <4>1. Sound(own)
        BY <3>1, <1>4 DEF Sound
      <4> QED BY <3>1, <4>1, <2>0, <2>size, <1>1, <1>2, <1>3, <1>8a DEF Cells
    <3>2. CASE r # new
      BY <3>2, <1>1, <1>2 DEF Cells
    <3> QED BY <3>1, <3>2
  <2>4. \A i \in 1 .. Len(file) : (\E r \in records' : In(r, i)) \/ file[i] = 0 \/ Ghost(i)'
    <3> TAKE i \in 1 .. Len(file)
    <3>1. ASSUME Ghost(i) PROVE Ghost(i)'
      <4>1. Len(file') \in Nat /\ Len(file) <= Len(file') /\ damage \subseteq damage'
        BY <1>1, <1>2 DEF Types
      <4>2. \A j \in Nat \ {0} : Cell(file', j) = Cell(file, j) \/ \E q \in records : In(q, j)
        BY <1>1
      <4> QED BY <3>1, <4>1, <4>2, <1>1, <1>2, <1>7, GhostKept
    <3> QED BY <3>1, <1>2, <1>8 DEF Cells
  <2>5. \A r \in records' : (Sound(r) <=> Sound(r)') /\ (Firm(r)' => Sound(r) /\ r.written)
    BY <1>1 DEF Firm, Sound
  <2> QED BY <2>1, <2>2, <2>3, <2>4, <2>5, <1>1 DEF Cells, Holds, Size, In, End
<1>13. NoGap'
  <2>1. \A r \in records' : Sound(r) => \A i \in 1 .. r.at : \E e \in records' : In(e, i)
    <3> TAKE r \in records'
    <3> HAVE Sound(r)
    <3>1. PICK q \in records : q.at = r.at
      BY <1>7
    <3>2. Sound(q)
      BY <3>1 DEF Sound
    <3> QED BY <3>1, <3>2, <1>2, <1>8 DEF NoGap
  <2>2. \A i \in 1 .. offset_ : (\A d \in damage : i <= d) => \E e \in records' : In(e, i)
    BY <1>1, <1>2, <1>8 DEF NoGap
  <2> QED BY <1>1, <2>1, <2>2 DEF NoGap, In, End, Size, Sound
<1>14. Table'
  <2> DEFINE S == Entries(Acked)  T == Entries(Acked)'  n == Len(b)  e == [at |-> own.at, batch |-> b]
  <2>1. Acked' = Acked \cup {new}
    BY <1>1, <1>3, <1>4 DEF Acked
  <2>2. T = S \cup {e}
    BY <2>1, <1>4 DEF Entries
  <2>3. map' = AfterFirst(map, b, n)
    BY <1>1, <1>2, <1>3, ActionResult, BatchIsSeq DEF MapOK, IsMap
  <2>4. KeysOf(b) = FirstKeys(b, n)
    BY <1>3, KeysAreFirstKeys
  <2>5. \A d \in T : \E r \in records' : d = [at |-> r.at, batch |-> r.batch]
    BY DEF Entries, Acked
  <2>6. Replay(Acked)' = TableOf(T)
    BY <1>1 DEF Replay, TableOf, Kept, LastSaid, LastOn, Newest, With, ItemOf, KeysOf
  <2>7. \A k \in KeysOf(b) \ raced : \A r \in records' : k \in KeysOf(r.batch) => r.at <= own.at
    <3>1. \A k \in KeysOf(b) \ raced : \A r \in records : k \in KeysOf(r.batch) => r.at <= own.at
      BY <1>1, <1>3, <1>6 DEF IInv, Table, b
    <3> QED BY <3>1, <1>7
  <2> HIDE DEF S, T, n
  <2>8. \A d \in T : d.at \in Nat
    BY <2>5, <1>9 DEF Types
  <2>9. ASSUME NEW k \in KeysOf(b) \ raced
        PROVE  With(T, k) # {} /\ LastSaid(T, k) = LastOf(b, n, k)
    <3>1. e \in T /\ e.at = own.at /\ e.batch = b
      BY <2>2
    <3>2. \A d \in With(T, k) : d.at \in Nat /\ (d = e \/ d.at < e.at)
      <4> TAKE d \in With(T, k)
      <4>1. PICK r \in records' : d = [at |-> r.at, batch |-> r.batch]
        BY <2>5 DEF With
      <4>2. d.at = r.at /\ d.batch = r.batch
        BY <4>1
      <4>3. r.at <= own.at /\ r.at \in Nat
        BY <4>2, <2>7, <2>8, <2>9 DEF With
      <4>4. CASE r.at = own.at
        <5>1. r = new
          BY <4>4, <1>1, <1>4, <1>10 DEF Places
        <5> QED BY <5>1, <4>1, <4>3, <4>2, <1>4
      <4>5. CASE r.at < own.at
        BY <4>5, <4>2, <4>3, <3>1
      <4> QED BY <4>3, <4>4, <4>5, <1>3
    <3> HIDE DEF e
    <3>3. Newest(T, k) = e
      BY <3>1, <3>2, <2>8, NewestIs
    <3> QED BY <3>1, <3>3, <1>3, LastOnIs DEF LastSaid, With, n
  <2>10. ASSUME NEW k, k \notin KeysOf(b)
         PROVE  With(T, k) = With(S, k) /\ LastSaid(T, k) = LastSaid(S, k)
    <3>1. With(T, k) = With(S, k)
      BY <2>2, <2>10 DEF With
    <3> QED BY <3>1, SameWith
  <2>11. ASSUME NEW k \in (DOMAIN map' \cup DOMAIN TableOf(T)) \ raced
         PROVE  k \in DOMAIN map' \cap DOMAIN TableOf(T) /\ map'[k] = TableOf(T)[k]
    <3>1. CASE k \in KeysOf(b)
      BY <3>1, <2>3, <2>4, <2>9, KeyOfTable DEF AfterFirst
    <3>2. CASE k \notin KeysOf(b)
      <4>1. (k \in DOMAIN map' <=> k \in DOMAIN map) /\ (k \in DOMAIN map => map'[k] = map[k])
        BY <3>2, <2>3, <2>4 DEF AfterFirst
      <4>2. /\ k \in DOMAIN TableOf(T) <=> k \in DOMAIN TableOf(S)
            /\ k \in DOMAIN TableOf(S) => TableOf(T)[k] = TableOf(S)[k]
        BY <3>2, <2>10, KeyOfTable
      <4>3. k \in (DOMAIN map \cup DOMAIN TableOf(S)) \ raced
        BY <4>1, <4>2
      <4>4. k \in DOMAIN map \cap DOMAIN TableOf(S) /\ map[k] = TableOf(S)[k]
        BY <4>3, <1>1 DEF IInv, Table, Replay, S
      <4> QED BY <4>1, <4>2, <4>4
    <3> QED BY <3>1, <3>2
  <2>12. \A x \in Busy' : \A k \in KeysOf(writer'[x].batch) \ raced' :
            \A r \in records' : k \in KeysOf(r.batch) => r.at <= writer'[x].at
    <3>1. \A x \in Busy : \A k \in KeysOf(writer[x].batch) \ raced :
            \A r \in records : k \in KeysOf(r.batch) => r.at <= writer[x].at
      BY <1>1 DEF IInv, Table
    <3> QED BY <3>1, <1>1, <1>5, <1>6, <1>7
  <2> QED BY <2>6, <2>11, <2>12, <1>1 DEF Table
<1>15. MapOK'
  <2>1. map' = AfterFirst(map, b, Len(b))
    BY <1>1, <1>2, <1>3, ActionResult, BatchIsSeq DEF MapOK, IsMap
  <2>2. IsMap(AfterFirst(map, b, Len(b)))
    BY DEF AfterFirst, IsMap
  <2>3. \A k \in DOMAIN AfterFirst(map, b, Len(b)) : AfterFirst(map, b, Len(b))[k].dead \in BOOLEAN
    BY <1>2 DEF AfterFirst, ItemOf, MapOK
  <2> QED BY <2>1, <2>2, <2>3 DEF MapOK, IsMap
<1>16. Restoring' /\ Rest'
  BY <1>1, UpRests DEF IInv
<1> QED BY <1>9, <1>10, <1>11, <1>12, <1>13, <1>14, <1>15, <1>16 DEF IInv

LEMMA ClearLogsKeeps ==
    ASSUME LoadsBack, IInv, ClearLogs
    PROVE  IInv'
<1>1. /\ up /\ up' /\ file' = <<>> /\ damage' = damage \cup {0}
      /\ life' = life /\ offset_' = offset_ /\ erase' = erase /\ map' = map /\ writer' = writer
      /\ reading' = reading /\ raced' = raced /\ records' = records
  BY DEF ClearLogs, up
<1>2. Types /\ Places /\ Owners /\ Cells /\ NoGap /\ MapOK
  BY DEF IInv
<1>3. Types'
  BY <1>1, <1>2 DEF Types
<1>4. Places' /\ Owners'
  BY <1>1, <1>2 DEF Places, Owners, End, Size, Busy, Own, Written, Marked
<1>5. \A r \in records : ~Sound(r)'
  <2>1. \A r \in records : r.at \in Nat /\ ~(r.at < 0)
    BY <1>2, SizeIs
  <2> QED BY <1>1, <2>1 DEF Sound
<1>6. Cells'
  <2>1. \A r \in records : Holds(<<>>, r, 0) /\ 0 \in 0 .. Size(r)
    <3> TAKE r \in records
    <3>1. r.at \in Nat /\ Size(r) \in Nat
      BY <1>2, SizeIs
    <3> QED BY <3>1 DEF Holds, Cell
  <2>2. \A x \in Writer : writer[x].pc = "writing" => Holds(<<>>, Own(x), 0)
    BY <1>2, <2>1 DEF Owners
  <2>3. \A r \in records : ~Firm(r)'
    BY <1>5 DEF Firm
  <2>4. \A i \in 1 .. Len(file') : FALSE
    BY <1>1
  <2> QED BY <1>1, <1>5, <2>1, <2>2, <2>3, <2>4 DEF Cells, Holds, Size, In, End, Own, Marked
<1>7. NoGap'
  <2>1. \A i \in 1 .. offset_' : ~(\A d \in damage' : i <= d)
    BY <1>1
  <2> QED BY <1>1, <1>5, <2>1 DEF NoGap
<1>8. Table'
  <2>1. Acked' = Acked /\ Busy' = Busy
    BY <1>1 DEF Acked, Busy
  <2>2. Replay(Acked)' = Replay(Acked)
    BY <2>1, <1>1 DEF Replay, Entries, TableOf, Kept, LastSaid, LastOn, Newest, With, ItemOf, KeysOf
  <2> QED BY <1>1, <2>1, <2>2 DEF IInv, Table
<1>9. MapOK'
  BY <1>1, <1>2 DEF MapOK
<1>10. Restoring' /\ Rest'
  BY <1>1, UpRests DEF IInv
<1> QED BY <1>3, <1>4, <1>6, <1>7, <1>8, <1>9, <1>10 DEF IInv

LEMMA CrashKeeps ==
    ASSUME LoadsBack, IInv, Crash
    PROVE  IInv'
<1>1. /\ life' = "killed" /\ map' = EmptyMap /\ reading' = NothingRead
      /\ writer' = [w \in Writer |-> IF writer[w].pc = "writing" THEN writer[w] ELSE Idle]
      /\ file' = file /\ offset_' = offset_ /\ erase' = erase
      /\ records' = records /\ damage' = damage /\ raced' = raced /\ ~up'
  BY DEF Crash, history, up
<1>2. Types /\ Places /\ Owners /\ Cells /\ NoGap /\ MapOK
  BY DEF IInv
<1>3. /\ \A x \in Writer : writer'[x].pc \in {"idle", "writing"}
      /\ \A x \in Writer : writer'[x].pc = "writing" => writer[x].pc = "writing" /\ writer'[x] = writer[x]
  BY <1>1 DEF Idle
<1>4. Types'
  <2>1. writer' \in [Writer -> [pc : {"idle", "writing", "logged"}, batch : Batches \cup {<<>>}, at : Nat]]
    BY <1>1, <1>2 DEF Types, Idle
  <2>2. \A x \in Writer : writer'[x].pc # "idle" => writer'[x].batch \in Batches
    BY <1>2, <1>3 DEF Types
  <2>3. /\ reading' \in [offset : Nat, buf : Seq(Nat),
                batchs : Seq([at : Nat, batch : Batches \cup {<<>>}]), applied : Nat, whole : Nat]
        /\ reading'.applied <= Len(reading'.batchs)
    BY <1>1 DEF NothingRead
  <2> QED BY <1>1, <1>2, <2>1, <2>2, <2>3 DEF Types
<1>5. Places'
  BY <1>1, <1>2 DEF Places, End, Size
<1>6. Owners'
  <2>1. \A x \in Writer : writer'[x].pc = "writing" => Own(x)' = Own(x)
    BY <1>3 DEF Own, Marked
  <2>2. \A x, y \in Busy' : writer'[x].at = writer'[y].at => x = y
    BY <1>2, <1>3 DEF Owners, Busy
  <2> QED BY <1>1, <1>2, <1>3, <2>1, <2>2 DEF Owners
<1>7. Cells'
  <2>1. \A x \in Writer : writer'[x].pc = "writing" => Own(x)' = Own(x)
    BY <1>3 DEF Own, Marked
  <2>2. \A x \in Writer : writer'[x].pc = "writing" => Holds(file, Own(x)', 0)
    BY <1>2, <1>3, <2>1 DEF Cells
  <2>3. \A i \in 1 .. Len(file) : (\E r \in records : In(r, i)) \/ file[i] = 0 \/ Ghost(i)'
    BY <1>1, <1>2 DEF Cells, Ghost, End, Size, Stub, Cell
  <2>4. \A r \in records : Firm(r)' <=> Firm(r)
    BY <1>1 DEF Firm, Sound
  <2> QED BY <1>1, <1>2, <2>2, <2>3, <2>4 DEF Cells, Holds, Size, In, End
<1>8. NoGap'
  BY <1>1, <1>2 DEF NoGap, In, End, Size, Sound
<1>9. Table' /\ Restoring' /\ Rest'
  BY <1>1 DEF Table, Restoring, Rest
<1>10. MapOK'
  BY <1>1 DEF MapOK, EmptyMap
<1> QED BY <1>4, <1>5, <1>6, <1>7, <1>8, <1>9, <1>10 DEF IInv

LEMMA TearKeeps ==
    ASSUME LoadsBack, IInv, NEW w \in Writer, NEW n \in 0 .. Len(Record(writer[w].batch)),
           Tear(w, n)
    PROVE  IInv'
<1> DEFINE own == Own(w)
<1>1. /\ life = "killed" /\ life' = "killed" /\ writer[w].pc = "writing" /\ ~up /\ ~up'
      /\ file' = PWrite(file, writer[w].at, SubSeq(Record(writer[w].batch), 1, n))
      /\ writer' = [writer EXCEPT ![w] = Idle]
      /\ map' = map /\ reading' = reading /\ offset_' = offset_ /\ erase' = erase
      /\ records' = records /\ damage' = damage /\ raced' = raced
  BY DEF Tear, history, up
<1>2. Types /\ Places /\ Owners /\ Cells /\ NoGap /\ MapOK
  BY DEF IInv
<1>3. /\ own \in records /\ own.at = writer[w].at /\ own.batch = writer[w].batch /\ ~own.written
      /\ Holds(file, own, 0) /\ n \in 0 .. Size(own)
  BY <1>1, <1>2, WriterIs DEF Owners, Cells, Size
<1>4. /\ file' \in Seq(Nat) /\ Len(file') >= Len(file)
      /\ Holds(file', own, n)
      /\ \A i \in Nat \ {0} : ~In(own, i) => Cell(file', i) = Cell(file, i)
      /\ \A r \in records, m \in Nat : r # own /\ Holds(file, r, m) => Holds(file', r, m)
  <2>1. file' = PWrite(file, own.at, SubSeq(Record(own.batch), 1, n))
    BY <1>1, <1>3
  <2> QED BY <2>1, <1>2, <1>3, RecordWritten
<1>5. /\ \A x \in Writer : x # w => writer'[x] = writer[x] /\ Own(x)' = Own(x) /\ Written(x)' = Written(x)
      /\ writer'[w].pc = "idle"
  BY <1>1, <1>2 DEF Types, Own, Written, Marked, Idle
<1>6. Busy' = Busy \ {w} /\ w \in Busy
  BY <1>1, <1>5 DEF Busy
<1> HIDE DEF own
<1>7. Types'
  <2>1. writer' \in [Writer -> [pc : {"idle", "writing", "logged"}, batch : Batches \cup {<<>>}, at : Nat]]
    BY <1>1, <1>2 DEF Types, Idle
  <2>2. \A x \in Writer : writer'[x].pc # "idle" => writer'[x].batch \in Batches
    BY <1>2, <1>5 DEF Types
  <2> QED BY <1>1, <1>2, <1>4, <2>1, <2>2 DEF Types
<1>8. Places'
  BY <1>1, <1>2 DEF Places, End, Size
<1>9. Owners'
  BY <1>1, <1>2, <1>5, <1>6 DEF Owners, Busy
<1>10. Cells'
  <2>1. \A r \in records : \E m \in 0 .. Size(r) : Holds(file', r, m)
    <3> TAKE r \in records
    <3>1. CASE r = own
      BY <3>1, <1>3, <1>4
    <3>2. CASE r # own
      <4>1. PICK m \in 0 .. Size(r) : Holds(file, r, m)
        BY <1>2 DEF Cells
      <4> QED BY <3>2, <4>1, <1>4
    <3> QED BY <3>1, <3>2
  <2>2. \A x \in Writer : writer'[x].pc = "writing" => Holds(file', Own(x)', 0)
    <3> TAKE x \in Writer
    <3> HAVE writer'[x].pc = "writing"
    <3>1. x # w /\ Own(x)' = Own(x) /\ writer[x].pc = "writing"
      BY <1>5
    <3>2. Own(x) \in records /\ Own(x) # own /\ Holds(file, Own(x), 0)
      BY <3>1, <1>2, <1>3, <1>6, WriterIs DEF Owners, Busy, Cells
    <3> QED BY <3>1, <3>2, <1>4
  <2>3. \A r \in records : Firm(r) => Holds(file', r, Size(r))
    <3> TAKE r \in records
    <3> HAVE Firm(r)
    <3>1. r # own /\ Holds(file, r, Size(r)) /\ Size(r) \in Nat
      BY <1>2, <1>3, SizeIs DEF Firm, Cells
    <3> QED BY <3>1, <1>4
  <2>4. \A i \in 1 .. Len(file') : (\E r \in records : In(r, i)) \/ file'[i] = 0 \/ Ghost(i)'
    <3> TAKE i \in 1 .. Len(file')
    <3>0. i \in Nat \ {0} /\ Cell(file', i) = file'[i]
      BY <1>4 DEF Cell
    <3>1. CASE In(own, i)
      BY <3>1, <1>3
    <3>2. CASE ~In(own, i) /\ i > Len(file)
      BY <3>0, <3>2, <1>2, <1>4 DEF Cell, Types
    <3>3. CASE ~In(own, i) /\ i <= Len(file)
      <4>1. i \in 1 .. Len(file) /\ file'[i] = file[i]
        BY <3>0, <3>3, <1>2, <1>4 DEF Cell, Types
      <4>2. ASSUME Ghost(i) PROVE Ghost(i)'
        <5>1. \A j \in Nat \ {0} : Cell(file', j) = Cell(file, j) \/ \E q \in records : In(q, j)
          BY <1>3, <1>4
        <5>2. Len(file') \in Nat /\ Len(file) <= Len(file') /\ damage \subseteq damage'
          BY <1>1, <1>2, <1>4 DEF Types
        <5> QED BY <4>1, <4>2, <5>1, <5>2, <1>1, <1>2, GhostKept
      <4> QED BY <4>1, <4>2, <1>2 DEF Cells
    <3>4. Len(file) \in Nat
      BY <1>2 DEF Types
    <3> QED BY <3>0, <3>1, <3>2, <3>3, <3>4
  <2>5. \A r \in records : Firm(r)' <=> Firm(r)
    BY <1>1 DEF Firm, Sound
  <2> QED BY <1>1, <2>1, <2>2, <2>3, <2>4, <2>5 DEF Cells, Holds, Size, In, End
<1>11. NoGap'
  BY <1>1, <1>2 DEF NoGap, In, End, Size, Sound
<1>12. Table' /\ Restoring' /\ Rest'
  BY <1>1 DEF IInv, Table, Restoring, Rest
<1>13. MapOK'
  BY <1>1, <1>2 DEF MapOK
<1> QED BY <1>7, <1>8, <1>9, <1>10, <1>11, <1>12, <1>13 DEF IInv

LEMMA RestartKeeps ==
    ASSUME LoadsBack, IInv, Restart
    PROVE  IInv'
<1>1. /\ life = "killed" /\ life' = "restoring" /\ Busy = {} /\ ~up /\ ~up'
      /\ offset_' = Len(file) /\ file' = file /\ map' = map /\ writer' = writer /\ erase' = erase
      /\ reading' = reading /\ records' = records /\ damage' = damage /\ raced' = raced
  BY DEF Restart, history, up
<1>2. Types /\ Places /\ Owners /\ Cells /\ NoGap /\ MapOK /\ Rest
  BY DEF IInv
<1>3. /\ reading.offset = 0 /\ reading.buf = <<>> /\ reading.batchs = <<>> /\ reading.applied = 0
      /\ reading.whole = 0 /\ map = EmptyMap
  BY <1>1, <1>2 DEF Rest, NothingRead
<1>4. Types'
  BY <1>1, <1>2 DEF Types
<1>5. Places'
  BY <1>1, <1>2 DEF Places, End, Size
<1>6. Owners'
  BY <1>1, <1>2 DEF Owners, Busy, Own, Written, Marked
<1>7. Cells'
  <2>1. \A i \in 1 .. Len(file) : Ghost(i) => Ghost(i)'
    BY <1>1 DEF Ghost, End, Size, Stub, Cell
  <2>2. \A r \in records : Firm(r)' <=> Firm(r)
    BY <1>1 DEF Firm, Sound
  <2> QED BY <1>1, <1>2, <2>1, <2>2 DEF Cells, Holds, Size, In, End, Own, Marked
<1>8. NoGap'
  BY <1>1, <1>2 DEF NoGap, In, End, Size, Sound
<1>9. Table' /\ Rest'
  BY <1>1 DEF Table, Rest
<1>10. MapOK'
  BY <1>1, <1>2 DEF MapOK
<1>11. Restoring'
  <2>1. Below(0) = {}
    BY <1>2, SizeIs DEF Below
  <2>2. Read(0) = {}
    BY DEF Read
  <2>3. ReadUpTo(0)
    BY <1>3, <2>1, <2>2 DEF ReadUpTo, Entries
  <2>4. ReadUpTo(0)'
    BY <1>1, <2>3 DEF ReadUpTo, Below, Read, Entries, In, End, Size, Holds, Cell
  <2>5. Going'
    <3>1. (Read(0) = Entries(Below(0)))'
      BY <1>1, <2>1, <2>2 DEF Below, Read, Entries
    <3> QED BY <1>1, <1>2, <1>3, <2>4, <3>1 DEF Going, Types
  <2>6. (map = TableOf(Read(reading.applied)))'
    <3>1. (TableOf({}))' = EmptyMap
      BY <1>1, EmptyTable DEF TableOf
    <3>2. Read(reading.applied)' = {}
      BY <1>1, <1>3, <2>2 DEF Read
    <3> QED BY <3>1, <3>2, <1>1, <1>3 DEF TableOf
  <2>7. InOrder'
    BY <1>1, <1>3 DEF InOrder
  <2> QED BY <2>5, <2>6, <2>7 DEF Restoring
<1> QED BY <1>4, <1>5, <1>6, <1>7, <1>8, <1>9, <1>10, <1>11 DEF IInv

\* What was read is entries of a log, each behind the ones before it.
LEMMA ReadIs ==
    ASSUME Types
    PROVE  /\ Len(reading.batchs) \in Nat /\ reading.applied \in Nat /\ reading.offset \in Nat
           /\ reading.whole \in Nat /\ reading.buf \in Seq(Nat)
           /\ reading.applied <= Len(reading.batchs)
           /\ reading.batchs \in Seq([at : Nat, batch : Batches \cup {<<>>}])
           /\ \A i \in 1 .. Len(reading.batchs) : IsEntry(reading.batchs[i])
           /\ \A e \in Read(Len(reading.batchs)) : IsEntry(e)
<1>1. /\ reading \in [offset : Nat, buf : Seq(Nat),
            batchs : Seq([at : Nat, batch : Batches \cup {<<>>}]), applied : Nat, whole : Nat]
      /\ reading.applied <= Len(reading.batchs)
  BY DEF Types
<1>2. reading.batchs \in Seq([at : Nat, batch : Batches \cup {<<>>}])
  BY <1>1
<1>3. /\ Len(reading.batchs) \in Nat
      /\ \A i \in 1 .. Len(reading.batchs) : reading.batchs[i] \in [at : Nat, batch : Batches \cup {<<>>}]
  <2>1. \A E : reading.batchs \in Seq(E) =>
            Len(reading.batchs) \in Nat /\ \A i \in 1 .. Len(reading.batchs) : reading.batchs[i] \in E
    OBVIOUS
  <2> QED BY <1>2, <2>1, Zenon
<1>4. \A i \in 1 .. Len(reading.batchs) : IsEntry(reading.batchs[i])
  BY <1>3 DEF IsEntry
<1> QED BY <1>1, <1>2, <1>3, <1>4 DEF Read

LEMMA ReplayOneKeeps ==
    ASSUME LoadsBack, IInv, ReplayOne
    PROVE  IInv'
<1>0. PICK n \in Nat : n = reading.applied
  BY ReadIs DEF IInv
<1>1. /\ life = "restoring" /\ life' = "restoring" /\ ~up /\ ~up'
      /\ reading.offset = offset_ /\ n < Len(reading.batchs)
      /\ reading' = [reading EXCEPT !.applied = n + 1]
      /\ map' = InternalAction(map, reading.batchs[n + 1].batch)
      /\ offset_' = offset_ /\ file' = file /\ writer' = writer /\ erase' = erase
      /\ records' = records /\ damage' = damage /\ raced' = raced
  BY <1>0 DEF ReplayOne, history, up
<1>2. Types /\ Places /\ Owners /\ Cells /\ NoGap /\ MapOK /\ Restoring
  BY DEF IInv
<1>3. /\ reading'.offset = reading.offset /\ reading'.buf = reading.buf
      /\ reading'.batchs = reading.batchs /\ reading'.whole = reading.whole /\ reading'.applied = n + 1
      /\ reading' \in [offset : Nat, buf : Seq(Nat),
            batchs : Seq([at : Nat, batch : Batches \cup {<<>>}]), applied : Nat, whole : Nat]
  <2>1. reading \in [offset : Nat, buf : Seq(Nat),
            batchs : Seq([at : Nat, batch : Batches \cup {<<>>}]), applied : Nat, whole : Nat]
    BY <1>2 DEF Types
  <2>2. n + 1 \in Nat
    OBVIOUS
  <2> QED BY <1>1, <2>1, <2>2
<1>4. n \in Nat /\ n + 1 \in 1 .. Len(reading.batchs) /\ n + 1 <= Len(reading.batchs)
      /\ \A i \in 1 .. Len(reading.batchs) : IsEntry(reading.batchs[i])
  BY <1>1, <1>2, ReadIs
<1>5. Types'
  BY <1>1, <1>2, <1>3, <1>4 DEF Types
<1>6. Places'
  BY <1>1, <1>2 DEF Places, End, Size
<1>7. Owners'
  BY <1>1, <1>2 DEF Owners, Busy, Own, Written, Marked
<1>8. Cells'
  <2>1. \A i \in 1 .. Len(file) : Ghost(i) => Ghost(i)'
    BY <1>1 DEF Ghost, End, Size, Stub, Cell
  <2>2. \A r \in records : Firm(r)' <=> Firm(r)
    BY <1>1 DEF Firm, Sound
  <2> QED BY <1>1, <1>2, <2>1, <2>2 DEF Cells, Holds, Size, In, End, Own, Marked
<1>9. NoGap'
  BY <1>1, <1>2 DEF NoGap, In, End, Size, Sound
<1>10. Table' /\ Rest'
  BY <1>1 DEF Table, Rest
<1>11. map' = TableOf(Read(n + 1))
  <2> DEFINE e == reading.batchs[n + 1]
  <2>1. map = TableOf(Read(n))
    BY <1>0, <1>1, <1>2 DEF Restoring
  <2>2. Read(n + 1) = Read(n) \cup {e}
    <3>1. 1 .. n + 1 = (1 .. n) \cup {n + 1}
      BY <1>4
    <3> QED BY <3>1 DEF Read
  <2>3. \A i \in 1 .. n : i \in 1 .. Len(reading.batchs) /\ i < n + 1
    BY <1>4
  <2>4. \A d \in Read(n) : IsEntry(d) /\ d.at < e.at
    BY <1>1, <1>2, <1>4, <2>3 DEF Read, Restoring, InOrder
  <2>5. IsEntry(e)
    BY <1>4
  <2> HIDE DEF e
  <2>6. InternalAction(TableOf(Read(n)), e.batch) = TableOf(Read(n) \cup {e})
    BY <2>4, <2>5, AppendTable
  <2> QED BY <1>1, <2>1, <2>2, <2>6 DEF e
<1>12. MapOK'
  BY <1>1, <1>11, TableIsMap DEF MapOK, IsMap
<1>13. Restoring'
  <2>1. (map = TableOf(Read(reading.applied)))'
    <3>1. Read(n + 1)' = Read(n + 1)
      BY <1>3 DEF Read
    <3>2. TableOf(Read(n + 1))' = TableOf(Read(n + 1))
      <4>1. \A S : TableOf(S)' = TableOf(S)
        BY <1>1 DEF TableOf, Kept, LastSaid, LastOn, Newest, With, ItemOf, KeysOf
      <4> QED BY <3>1, <4>1, Zenon
    <3> QED BY <1>3, <1>11, <3>2
  <2>2. InOrder'
    BY <1>1, <1>2, <1>3 DEF Restoring, InOrder
  <2>3. \A c : ReadUpTo(c) => ReadUpTo(c)'
    BY <1>1, <1>3 DEF ReadUpTo, Below, Read, Entries, In, End, Size, Holds, Cell
  <2>4. Going => Going'
    BY <1>1, <1>3, <2>3, ZenonT(60) DEF Going, Below, Read, Entries
  <2>5. ASSUME Stopped PROVE Stopped'
    <3>1. PICK c \in {reading.offset, reading.whole} :
            /\ ReadUpTo(c)
            /\ \A e \in Read(Len(reading.batchs)) :
                \/ e \in Entries(Below(c))
                \/ e.at >= c /\ (e.batch = <<>> \/ Repeats(e, c))
            /\ \A e, f \in Read(Len(reading.batchs)) : Repeats(e, c) /\ Repeats(f, c) => e = f
            /\ \A r \in records : r.at >= c => ~Firm(r)
            /\ c = reading.offset \/ Stub(file, c, reading.offset)
            /\ \A r \in records : End(r) <= reading.offset \/ r.at >= reading.offset
            /\ IF reading.offset = offset_ THEN Len(file) = offset_
               ELSE reading.offset > Len(file) /\ Len(file) = offset_
      BY <2>5 DEF Stopped
    <3>2. c \in {reading'.offset, reading'.whole} /\ ReadUpTo(c)'
      BY <1>3, <2>3, <3>1
    <3>3. /\ Read(Len(reading.batchs))' = Read(Len(reading.batchs))
          /\ Entries(Below(c))' = Entries(Below(c))
          /\ \A e : Repeats(e, c)' <=> Repeats(e, c)
          /\ \A r \in records : Firm(r)' <=> Firm(r)
          /\ Stub(file, c, reading.offset)' <=> Stub(file, c, reading.offset)
      BY <1>1, <1>3 DEF Read, Entries, Below, Repeats, Firm, Sound, Stub, Cell
    <3> QED BY <1>1, <1>3, <3>1, <3>2, <3>3 DEF Stopped, End, Size
  <2> QED BY <1>1, <1>2, <2>1, <2>2, <2>4, <2>5 DEF Restoring
<1> QED BY <1>5, <1>6, <1>7, <1>8, <1>9, <1>10, <1>12, <1>13 DEF IInv

\* What Restore brings back: the log up to a place in it.
LEMMA RestoredUpTo ==
    ASSUME LoadsBack, IInv, Restore
    PROVE  \E c \in {reading.offset, reading.whole} :
            /\ ReadUpTo(c) /\ c <= reading.offset
            /\ ReadBack = Below(c)
            /\ map = TableOf(Entries(Below(c)))
            /\ \A r \in records : r.at >= c => ~Firm(r)
            /\ c = reading.offset \/ Stub(file, c, reading.offset)
            /\ Len(file) = offset_ /\ reading.offset = offset_
<1> DEFINE n == Len(reading.batchs)
<1>1. Types /\ Places /\ Cells /\ Restoring
  BY DEF IInv
<1>2. life = "restoring" /\ reading.offset = offset_ /\ reading.applied = n
  BY DEF Restore
<1>3. /\ reading.offset \in Nat /\ reading.whole \in Nat /\ n \in Nat
      /\ \A e \in Read(n) : IsEntry(e)
  BY <1>1, ReadIs
<1>4. map = TableOf(Read(n)) /\ InOrder /\ (Going \/ Stopped)
  BY <1>1, <1>2 DEF Restoring
<1>5. \A r \in records : /\ r.at \in Nat /\ r.batch \in Batches /\ r.batch # <<>> /\ Size(r) > 1
                         /\ End(r) = r.at + Size(r) /\ Size(r) \in Nat
  BY <1>1, SizeIs, RecordIs
<1> HIDE DEF n
<1>6. \E c \in {reading.offset, reading.whole} :
        /\ ReadUpTo(c) /\ c <= reading.offset
        /\ \A e \in Read(n) : \/ e \in Entries(Below(c))
                              \/ e.at >= c /\ (e.batch = <<>> \/ Repeats(e, c))
        /\ \A e, f \in Read(n) : Repeats(e, c) /\ Repeats(f, c) => e = f
        /\ \A r \in records : r.at >= c => ~Firm(r)
        /\ c = reading.offset \/ Stub(file, c, reading.offset)
        /\ Len(file) = offset_
  <2>1. CASE Going
    <3>1. /\ ReadUpTo(reading.offset) /\ Read(n) = Entries(Below(reading.offset))
          /\ Len(file) = offset_
      BY <2>1 DEF Going, n
    <3>2. \A e \in Entries(Below(reading.offset)) : ~Repeats(e, reading.offset)
      BY DEF Entries, Below, Repeats
    <3>3. ASSUME NEW r \in records, r.at >= reading.offset, Firm(r) PROVE FALSE
      <4>1. Holds(file, r, Size(r))
        BY <1>1, <3>3 DEF Cells
      <4>2. r.at + Size(r) <= Len(file)
        BY <4>1, <1>5 DEF Holds
      <4> QED BY <4>2, <3>1, <3>3, <1>2, <1>3, <1>5
    <3> QED BY <1>3, <3>1, <3>2, <3>3
  <2>2. CASE Stopped
    <3>1. PICK c \in {reading.offset, reading.whole} :
            /\ ReadUpTo(c)
            /\ \A e \in Read(n) :
                \/ e \in Entries(Below(c))
                \/ e.at >= c /\ (e.batch = <<>> \/ Repeats(e, c))
            /\ \A e, f \in Read(n) : Repeats(e, c) /\ Repeats(f, c) => e = f
            /\ \A r \in records : r.at >= c => ~Firm(r)
            /\ c = reading.offset \/ Stub(file, c, reading.offset)
            /\ Len(file) = offset_
      BY <2>2, <1>2 DEF Stopped, n
    <3>2. c <= reading.offset
      <4>1. CASE c = reading.offset
        BY <4>1, <1>3
      <4>2. CASE Stub(file, c, reading.offset)
        <5>1. PICK b \in Batches : reading.offset = c + Len(Record(b))
          BY <4>2 DEF Stub
        <5>2. Len(Record(b)) \in Nat
          BY RecordIs
        <5> QED BY <5>1, <5>2, <1>3
      <4> QED BY <3>1, <4>1, <4>2
    <3> QED BY <3>1, <3>2
  <2> QED BY <1>4, <2>1, <2>2
<1>7. PICK c \in {reading.offset, reading.whole} :
        /\ ReadUpTo(c) /\ c <= reading.offset
        /\ \A e \in Read(n) : \/ e \in Entries(Below(c))
                              \/ e.at >= c /\ (e.batch = <<>> \/ Repeats(e, c))
        /\ \A e, f \in Read(n) : Repeats(e, c) /\ Repeats(f, c) => e = f
        /\ \A r \in records : r.at >= c => ~Firm(r)
        /\ c = reading.offset \/ Stub(file, c, reading.offset)
        /\ Len(file) = offset_
  BY <1>6
<1>8. c \in Nat /\ Entries(Below(c)) \subseteq Read(n)
  BY <1>3, <1>7 DEF ReadUpTo, n
<1>9. \A r \in records : WasRead(r) <=> [at |-> r.at, batch |-> r.batch] \in Read(n)
  <2> TAKE r \in records
  <2>1. Entries({r}) = {[at |-> r.at, batch |-> r.batch]}
    BY DEF Entries
  <2>2. DOMAIN reading.batchs = 1 .. n
    BY <1>1, ReadIs DEF n
  <2> QED BY <2>1, <2>2 DEF WasRead, Read
<1>10. ReadBack = Below(c)
  <2>1. \A r \in Below(c) : WasRead(r)
    BY <1>8, <1>9 DEF Entries, Below
  <2>2. ASSUME NEW r \in records, WasRead(r) PROVE r \in Below(c)
    <3> DEFINE e == [at |-> r.at, batch |-> r.batch]
    <3>1. e \in Read(n) /\ e.at = r.at /\ e.batch = r.batch
      BY <1>9, <2>2
    <3>2. ~Repeats(e, c)
      BY <3>1 DEF Repeats
    <3>3. e.batch # <<>>
      BY <3>1, <1>5
    <3> HIDE DEF e
    <3>4. e \in Entries(Below(c))
      BY <3>1, <3>2, <3>3, <1>7
    <3>5. PICK q \in Below(c) : e = [at |-> q.at, batch |-> q.batch]
      BY <3>4 DEF Entries
    <3> QED BY <3>1, <3>5 DEF Below
  <2>3. \A r \in records, q \in records : r.at < c /\ q.at <= r.at => q.at < c
    BY <1>5, <1>8
  <2>4. \A r \in Below(c) : \A q \in records : q.at <= r.at => WasRead(q)
    BY <2>1, <2>3 DEF Below
  <2>5. \A r \in records : r.at <= r.at
    BY <1>5
  <2> QED BY <2>2, <2>4, <2>5 DEF ReadBack, Below
<1>11. TableOf(Read(n)) = TableOf(Entries(Below(c)))
  <2> DEFINE S == Entries(Below(c))  R == {e \in Read(n) : Repeats(e, c)}
  <2>1. \A d \in S : IsEntry(d) /\ d.at < c
    BY <1>5 DEF Entries, Below, IsEntry
  <2>2. \A d, e \in S : d.at = e.at => d = e
    BY <1>1 DEF Entries, Below, Places
  <2>3. \A e \in Read(n) : e \in S \/ e.batch = <<>> \/ e \in R
    BY <1>7
  <2>4. ASSUME NEW e \in R
        PROVE  /\ \A d \in S : d.at < e.at
               /\ \E d \in S : d.batch = e.batch /\ \A q \in S : q.at <= d.at
    <3>1. e.at >= c /\ IsEntry(e)
      <4>1. e \notin S
        BY <2>4 DEF Repeats, Entries, Below
      <4>2. e.batch # <<>>
        <5>1. PICK d \in Below(c) : d.batch = e.batch
          BY <2>4 DEF Repeats
        <5> QED BY <5>1, <1>5 DEF Below
      <4> QED BY <2>4, <4>1, <4>2, <1>3, <1>7
    <3>2. PICK d \in Below(c) : d.batch = e.batch /\ \A q \in Below(c) : q.at <= d.at
      BY <2>4 DEF Repeats
    <3>3. [at |-> d.at, batch |-> d.batch] \in S
      BY <3>2 DEF Entries
    <3>4. \A q \in S : q.at <= d.at
      BY <3>2 DEF Entries
    <3>5. \A q \in S : q.at < e.at
      BY <2>1, <3>1, <1>8 DEF IsEntry
    <3> HIDE DEF S
    <3>6. \E x \in S : x.batch = e.batch /\ \A q \in S : q.at <= x.at
      BY <3>2, <3>3, <3>4
    <3> QED BY <3>5, <3>6
  <2>5. \A e, f \in R : e = f
    BY <1>7
  <2> HIDE DEF S, R
  <2>6. S \subseteq Read(n)
    BY <1>8 DEF S
  <2>7. TableOf(Read(n)) = TableOf(S)
    BY <1>3, <2>1, <2>2, <2>3, <2>4, <2>5, <2>6, RepeatedTable
  <2> QED BY <2>7 DEF S
<1> QED BY <1>2, <1>4, <1>7, <1>10, <1>11

LEMMA RestoreKeeps ==
    ASSUME LoadsBack, IInv, Restore
    PROVE  IInv' /\ map' = Replay(records)'
<1>1. /\ life = "restoring" /\ life' = "up" /\ up' /\ ~up /\ reading' = NothingRead
      /\ records' = {Marked(r, TRUE, TRUE) : r \in ReadBack}
      /\ damage' = IF reading.offset = reading.whole THEN {} ELSE {reading.whole}
      /\ raced' = {} /\ file' = file /\ offset_' = offset_ /\ map' = map /\ writer' = writer
      /\ erase' = erase
  BY DEF Restore, up
<1>2. Types /\ Places /\ Owners /\ Cells /\ NoGap /\ MapOK
  BY DEF IInv
<1>3. PICK c \in {reading.offset, reading.whole} :
        /\ ReadUpTo(c) /\ c <= reading.offset
        /\ ReadBack = Below(c)
        /\ map = TableOf(Entries(Below(c)))
        /\ \A r \in records : r.at >= c => ~Firm(r)
        /\ c = reading.offset \/ Stub(file, c, reading.offset)
        /\ Len(file) = offset_ /\ reading.offset = offset_
  BY RestoredUpTo
<1>4. reading.offset \in Nat /\ reading.whole \in Nat /\ c \in Nat /\ offset_ \in Nat
  BY <1>2, <1>3, ReadIs DEF Types
<1>5. PICK o \in Nat, v \in Nat : o = reading.offset /\ v = reading.whole
  BY <1>4
<1>6. /\ \A r \in records : r.at < c => End(r) <= c
      /\ \A i \in 1 .. c : \E r \in records : In(r, i)
      /\ v <= c
      /\ \A r \in records : r.at < v => Holds(file, r, Size(r))
  BY <1>3, <1>5 DEF ReadUpTo, Below
<1>7. \A r \in records : /\ r.at \in Nat /\ r.batch \in Batches /\ Size(r) > 1
                         /\ End(r) = r.at + Size(r) /\ Size(r) \in Nat
  BY <1>2, SizeIs
<1>8. /\ \A r \in records' : r.written /\ r.acked /\ \E q \in records :
            q.at = r.at /\ q.batch = r.batch /\ q.at < c /\ r = Marked(q, TRUE, TRUE)
      /\ \A q \in records : q.at < c => Marked(q, TRUE, TRUE) \in records'
      /\ \A q : Marked(q, TRUE, TRUE).at = q.at /\ Marked(q, TRUE, TRUE).batch = q.batch
  <2>1. \A q : /\ Marked(q, TRUE, TRUE).at = q.at /\ Marked(q, TRUE, TRUE).batch = q.batch
               /\ Marked(q, TRUE, TRUE).written /\ Marked(q, TRUE, TRUE).acked
    BY DEF Marked
  <2>2. records' = {Marked(r, TRUE, TRUE) : r \in Below(c)}
    BY <1>1, <1>3
  <2>3. \A r \in records' : \E q \in records : q.at < c /\ r = Marked(q, TRUE, TRUE)
    BY <2>2 DEF Below
  <2>4. \A q \in records : q.at < c => Marked(q, TRUE, TRUE) \in records'
    BY <2>2 DEF Below
  <2> QED BY <2>1, <2>3, <2>4
<1>9. \A q : /\ Size(Marked(q, TRUE, TRUE)) = Size(q) /\ End(Marked(q, TRUE, TRUE)) = End(q)
             /\ \A i : In(Marked(q, TRUE, TRUE), i) <=> In(q, i)
             /\ \A m : Holds(file, Marked(q, TRUE, TRUE), m) <=> Holds(file, q, m)
  BY <1>8 DEF Size, End, In, Holds
<1>10. Types'
  <2>1. \A r \in records : Marked(r, TRUE, TRUE) \in [at : Nat, batch : Batches, written : BOOLEAN, acked : BOOLEAN]
    BY <1>7 DEF Marked
  <2>2. records' \subseteq [at : Nat, batch : Batches, written : BOOLEAN, acked : BOOLEAN]
    BY <1>1, <1>3, <2>1 DEF Below
  <2>3. /\ reading' \in [offset : Nat, buf : Seq(Nat),
                batchs : Seq([at : Nat, batch : Batches \cup {<<>>}]), applied : Nat, whole : Nat]
        /\ reading'.applied <= Len(reading'.batchs)
    BY <1>1 DEF NothingRead
  <2>4. damage' \subseteq Nat
    BY <1>1, <1>4
  <2> QED BY <1>1, <1>2, <2>2, <2>3, <2>4 DEF Types
<1>11. Places'
  <2>0. \A r \in records' : \E p \in records :
            p.at = r.at /\ End(p) = End(r) /\ p.at < c /\ r = Marked(p, TRUE, TRUE)
    BY <1>8, <1>9
  <2>1. \A r, q \in records' : r.at < q.at => End(r) <= q.at
    BY <1>2, <2>0 DEF Places
  <2>2. \A r, q \in records' : r.at = q.at => r = q
    BY <1>2, <2>0, ZenonT(60) DEF Places
  <2>3. \A r \in records' : End(r) <= offset_
    <3> TAKE r \in records'
    <3>1. PICK p \in records : End(p) = End(r) /\ p.at < c
      BY <2>0
    <3>2. End(p) <= c /\ End(p) \in Nat
      BY <3>1, <1>6, <1>7
    <3> QED BY <3>1, <3>2, <1>3, <1>4
  <2> QED BY <1>1, <2>1, <2>2, <2>3 DEF Places, End, Size
<1>12. Owners'
  <2>1. Busy = {}
    BY <1>1, <1>2 DEF Owners
  <2>2. \A w \in Writer : writer[w].pc = "idle"
    BY <2>1 DEF Busy
  <2>3. Busy' = {}
    BY <1>1, <2>1 DEF Busy
  <2> QED BY <1>1, <1>8, <2>2, <2>3 DEF Owners
<1>13. Cells'
  <2>1. \A r \in records' : \E m \in 0 .. Size(r) : Holds(file, r, m)
    BY <1>2, <1>8, <1>9 DEF Cells
  <2>2. \A w \in Writer : writer'[w].pc # "writing"
    BY <1>1, <1>2 DEF Owners, Busy
  <2>3. \A r \in records' : Sound(r)' => Holds(file, r, Size(r))
    <3> TAKE r \in records'
    <3> HAVE Sound(r)'
    <3>1. PICK q \in records : q.at = r.at /\ q.at < c /\ r = Marked(q, TRUE, TRUE)
      BY <1>8
    <3>2. q.at < v
      <4>1. CASE o = v
        BY <4>1, <3>1, <1>3, <1>5
      <4>2. CASE o # v
        <5>1. damage' = {v}
          BY <4>2, <1>1, <1>5
        <5> QED BY <5>1, <3>1 DEF Sound
      <4> QED BY <4>1, <4>2
    <3> QED BY <3>1, <3>2, <1>6, <1>9
  <2>4. \A i \in 1 .. Len(file) : (\E r \in records' : In(r, i)) \/ file[i] = 0 \/ Ghost(i)'
    <3> TAKE i \in 1 .. Len(file)
    <3>1. i \in Nat \ {0} /\ i <= o /\ Cell(file, i) = file[i]
      BY <1>3, <1>4, <1>5 DEF Cell
    <3>2. CASE i <= c
      <4>1. PICK r \in records : In(r, i)
        BY <3>1, <3>2, <1>4, <1>6
      <4>2. r.at < c
        BY <4>1, <3>1, <3>2, <1>4, <1>7 DEF In
      <4> QED BY <4>1, <4>2, <1>8, <1>9
    <3>3. CASE i > c
      <4>1. c # o /\ c = v /\ Stub(file, c, o) /\ damage' = {c}
        BY <3>1, <3>3, <1>1, <1>3, <1>4, <1>5
      <4>2. CASE i = c + 1
        <5>1. o \in i .. Len(file')
          BY <3>1, <1>1, <1>3, <1>5
        <5>2. i - 1 = c
          BY <4>2, <1>4
        <5>3. \A r \in records' : End(r) <= i - 1
          BY <5>2, <1>6, <1>8, <1>9
        <5>4. o <= offset_'
          BY <1>1, <1>3, <1>5
        <5> QED BY <4>1, <5>1, <5>2, <5>3, <5>4, <1>1 DEF Ghost, End, Size, Stub, Cell
      <4>3. CASE i > c + 1
        <5>1. i \in c + 2 .. o
          BY <4>3, <3>1, <1>4
        <5> QED BY <5>1, <4>1, <3>1 DEF Stub
      <4> QED BY <3>3, <4>2, <4>3, <3>1, <1>4
    <3> QED BY <3>2, <3>3, <3>1, <1>4
  <2>5. \A r \in records' : Firm(r)' => Sound(r)'
    BY DEF Firm
  <2> QED BY <1>1, <2>1, <2>2, <2>3, <2>4, <2>5 DEF Cells, Holds, Size, In, End
<1>14. NoGap'
  <2>1. \A i \in 1 .. c : \E r \in records' : In(r, i)
    <3> TAKE i \in 1 .. c
    <3>1. PICK r \in records : In(r, i)
      BY <1>6
    <3>2. r.at < c
      BY <3>1, <1>4, <1>7 DEF In
    <3> QED BY <3>1, <3>2, <1>8, <1>9
  <2>2. \A r \in records' : \A i \in 1 .. r.at : \E e \in records' : In(e, i)
    <3> TAKE r \in records'
    <3>1. r.at \in Nat /\ r.at < c
      <4>1. PICK q \in records : q.at = r.at /\ q.at < c
        BY <1>8
      <4> QED BY <4>1, <1>7
    <3> TAKE i \in 1 .. r.at
    <3>2. i \in 1 .. c
      BY <3>1, <1>4
    <3> QED BY <3>2, <2>1
  <2>3. \A i \in 1 .. offset_' : (\A d \in damage' : i <= d) => \E e \in records' : In(e, i)
    <3> TAKE i \in 1 .. offset_'
    <3> HAVE \A d \in damage' : i <= d
    <3>1. i <= c
      <4>1. CASE o = v
        BY <4>1, <1>1, <1>3, <1>4, <1>5
      <4>2. CASE o # v
        <5>1. v \in damage'
          BY <4>2, <1>1, <1>5
        <5> QED BY <5>1, <1>1, <1>3, <1>4, <1>5, <1>6
      <4> QED BY <4>1, <4>2
    <3>2. i \in 1 .. c
      BY <3>1, <1>1, <1>4
    <3> QED BY <3>2, <2>1
  <2> QED BY <2>2, <2>3 DEF NoGap, In, End, Size
<1>15. map' = Replay(records)'
  <2>1. Entries(records)' = Entries(Below(c))
    <3>1. \A r \in records : [at |-> Marked(r, TRUE, TRUE).at, batch |-> Marked(r, TRUE, TRUE).batch]
                              = [at |-> r.at, batch |-> r.batch]
      BY <1>8
    <3>2. records' = {Marked(r, TRUE, TRUE) : r \in Below(c)} /\ Below(c) \subseteq records
      BY <1>1, <1>3 DEF Below
    <3>3. Entries(records)' = {[at |-> r.at, batch |-> r.batch] : r \in records'}
      BY DEF Entries
    <3>4. Entries(Below(c)) = {[at |-> r.at, batch |-> r.batch] : r \in Below(c)}
      BY DEF Entries
    <3> DEFINE F(r) == [at |-> r.at, batch |-> r.batch]
    <3>5. \A r \in Below(c) : F(Marked(r, TRUE, TRUE)) = F(r)
      BY <3>1, <3>2
    <3> HIDE DEF F
    <3>6. {F(r) : r \in records'} = {F(r) : r \in Below(c)}
      BY <3>2, <3>5
    <3> QED BY <3>3, <3>4, <3>6 DEF F
  <2>2. \A S : TableOf(S)' = TableOf(S)
    BY <1>1 DEF TableOf, Kept, LastSaid, LastOn, Newest, With, ItemOf, KeysOf
  <2>3. Replay(records)' = TableOf(Entries(Below(c)))
    <3>1. Entries(records)' = {[at |-> r.at, batch |-> r.batch] : r \in records'}
      BY DEF Entries
    <3>2. PICK S : S = Entries(Below(c))
      OBVIOUS
    <3>3. S = {[at |-> r.at, batch |-> r.batch] : r \in records'}
      BY <3>1, <3>2, <2>1
    <3>4. Replay(records)' = TableOf(S)'
      BY <3>3 DEF Replay, TableOf, Entries
    <3> QED BY <3>2, <3>4, <2>2, Zenon
  <2> QED BY <1>1, <1>3, <2>3
<1>16. Table'
  <2>1. Acked' = records'
    BY <1>8 DEF Acked
  <2>2. Replay(Acked)' = Replay(records)'
    BY <2>1 DEF Replay, Entries, TableOf
  <2>3. Busy' = {}
    BY <1>1, <1>2 DEF Busy, Owners
  <2> QED BY <1>15, <2>2, <2>3 DEF Table
<1>17. MapOK'
  BY <1>1, <1>2 DEF MapOK
<1>18. Restoring' /\ Rest'
  BY <1>1 DEF Restoring, Rest
<1> QED BY <1>10, <1>11, <1>12, <1>13, <1>14, <1>15, <1>16, <1>17, <1>18 DEF IInv

--------------------------------------------------------------------------------
\* What is read at a place in the log

\* Where a record begins of which some cells were written, the buffer is what TornIsNoticed
\* is about.
LEMMA PrefixRead ==
    ASSUME LoadsBack, Types, NEW r \in records, NEW n \in 1 .. Size(r), Holds(file, r, n),
           NEW old \in Seq(Nat)
    PROVE  /\ SizeAt(r.at) = Len(StoreTo(r.batch))
           /\ \E k \in 0 .. Len(StoreTo(r.batch)) :
                /\ n - 1 \in 0 .. k
                /\ BufferAt(r.at, old) = Torn(StoreTo(r.batch), n - 1, k, old)
                /\ k = 0 => Len(file) = r.at + 1
           /\ n = Size(r) => BufferAt(r.at, old) = StoreTo(r.batch)
<1> DEFINE body == StoreTo(r.batch)  m == Len(body)
           k == IF r.at + 1 + m <= Len(file) THEN m ELSE Len(file) - (r.at + 1)
<1>1. /\ file \in Seq(Nat) /\ Len(file) \in Nat /\ r.at \in Nat /\ r.batch \in Batches
      /\ m \in Nat /\ m > 0 /\ Size(r) = m + 1
  <2>1. file \in Seq(Nat) /\ Len(file) \in Nat
    BY DEF Types
  <2>2. r.at \in Nat /\ r.batch \in Batches /\ Size(r) = m + 1
    BY SizeIs
  <2> QED BY <2>1, <2>2, RecordIs
<1>2. /\ Record(r.batch)[1] = m
      /\ \A i \in 1 .. m : Record(r.batch)[i + 1] = body[i] /\ body[i] \in Nat
      /\ body \in Seq(Nat)
  BY <1>1, RecordIs
<1> HIDE DEF body, m
<1>3. n \in Nat /\ n >= 1 /\ n <= m + 1 /\ r.at + n <= Len(file)
  BY <1>1 DEF Holds
<1>4. k \in 0 .. m /\ n - 1 \in 0 .. k /\ (k = 0 => Len(file) = r.at + 1)
  <2>1. CASE r.at + 1 + m <= Len(file)
    BY <2>1, <1>1, <1>3
  <2>2. CASE ~(r.at + 1 + m <= Len(file))
    <3>1. k = Len(file) - (r.at + 1)
      BY <2>2
    <3>2. Len(file) - (r.at + 1) < m /\ n - 1 <= Len(file) - (r.at + 1) /\ n - 1 \in Nat
      BY <2>2, <1>1, <1>3, SMTT(30)
    <3>3. Len(file) - (r.at + 1) \in 0 .. m
      BY <3>2, <1>1, <1>3, SMTT(30)
    <3> HIDE DEF k
    <3>4. k \in 0 .. m /\ n - 1 \in 0 .. k
      BY <3>1, <3>2, <3>3, SMTT(30)
    <3>5. k = 0 => Len(file) = r.at + 1
      BY <3>1, <1>1
    <3> QED BY <3>4, <3>5
  <2> QED BY <2>1, <2>2
<1>5. \A i \in 1 .. m : i <= k <=> r.at + 1 + i <= Len(file)
  BY <1>1, <1>3, SMTT(30)
<1>6. \A i \in 1 .. Size(r) : Cell(file, r.at + i) = IF i <= n THEN Record(r.batch)[i] ELSE 0
  BY DEF Holds
<1>7. Cell(file, r.at + 1) = m
  <2>1. 1 \in 1 .. Size(r) /\ 1 <= n
    BY <1>1, <1>3
  <2> QED BY <2>1, <1>2, <1>6
<1>8. \A i \in 1 .. m : Cell(file, r.at + 1 + i) = IF i <= n - 1 THEN body[i] ELSE 0
  <2> TAKE i \in 1 .. m
  <2>0. i \in Nat /\ 1 <= i /\ i <= m /\ m \in Nat /\ n \in Nat /\ r.at \in Nat /\ Size(r) = m + 1
    BY <1>1, <1>3
  <2> HIDE DEF k
  <2>1. i + 1 \in 1 .. Size(r) /\ r.at + (i + 1) = r.at + 1 + i /\ (i + 1 <= n <=> i <= n - 1)
    BY <2>0
  <2>2. Cell(file, r.at + (i + 1)) = IF i + 1 <= n THEN Record(r.batch)[i + 1] ELSE 0
    BY <2>1, <1>6
  <2> QED BY <2>1, <2>2, <1>2
<1>9. /\ SizeAt(r.at) = m /\ BufferAt(r.at, old) \in Seq(Nat) /\ Len(BufferAt(r.at, old)) = m
      /\ \A i \in 1 .. m : BufferAt(r.at, old)[i] =
                IF r.at + 1 + i <= Len(file) THEN file[r.at + 1 + i] ELSE Cell(old, i)
  <2>1. SizeAt(r.at) = m
    BY <1>1, <1>7, BufferIs
  <2> QED BY <2>1, <1>1, BufferIs, ZenonT(60)
<1> HIDE DEF k
<1>10. \A i \in 1 .. m : BufferAt(r.at, old)[i] =
            IF i <= n - 1 THEN body[i] ELSE IF i <= k \/ i > Len(old) THEN 0 ELSE old[i]
  <2> TAKE i \in 1 .. m
  <2>1. CASE i <= k
    <3>1. BufferAt(r.at, old)[i] = file[r.at + 1 + i]
      BY <2>1, <1>5, <1>9
    <3>2. file[r.at + 1 + i] = Cell(file, r.at + 1 + i)
      BY <2>1, <1>5 DEF Cell
    <3> QED BY <3>1, <3>2, <2>1, <1>8
  <2>2. CASE i > k
    <3>1. BufferAt(r.at, old)[i] = Cell(old, i) /\ ~(i <= k)
      BY <2>2, <1>4, <1>5, <1>9
    <3>2. ~(i <= n - 1)
      BY <2>2, <1>3, <1>4
    <3> QED BY <3>1, <3>2 DEF Cell
  <2> QED BY <2>1, <2>2, <1>4
<1>11. DOMAIN body = 1 .. m
  BY <1>1, <1>2 DEF m
<1>12. BufferAt(r.at, old) = [i \in 1 .. m |-> BufferAt(r.at, old)[i]]
  <2>1. \A s \in Seq(Nat) : s = [i \in 1 .. Len(s) |-> s[i]]
    OBVIOUS
  <2> QED BY <2>1, <1>9
<1>13. BufferAt(r.at, old) = Torn(body, n - 1, k, old)
  <2>1. Torn(body, n - 1, k, old) = [i \in 1 .. m |->
            IF i <= n - 1 THEN body[i] ELSE IF i <= k \/ i > Len(old) THEN 0 ELSE old[i]]
    BY <1>11 DEF Torn
  <2> QED BY <2>1, <1>10, <1>12
<1>14. n = Size(r) => BufferAt(r.at, old) = body
  <2> HAVE n = Size(r)
  <2>1. \A i \in 1 .. m : BufferAt(r.at, old)[i] = body[i]
    BY <1>1, <1>10
  <2>2. body = [i \in 1 .. m |-> body[i]]
    BY <1>2, <1>11
  <2> QED BY <2>1, <2>2, <1>12
<1> QED BY <1>4, <1>9, <1>13, <1>14 DEF body, m

\* Nothing is read where nothing was written.
LEMMA NothingThere ==
    ASSUME Types, NEW o \in Nat, Cell(file, o + 1) = 0, NEW old \in Seq(Nat)
    PROVE  /\ SizeAt(o) = 0 /\ BufferAt(o, old) = <<>>
           /\ LoadFrom(BufferAt(o, old)).corrupt /\ LoadFrom(BufferAt(o, old)).batch = <<>>
<1>1. SizeAt(o) = 0 /\ BufferAt(o, old) \in Seq(Nat) /\ Len(BufferAt(o, old)) = 0
  BY BufferIs DEF Types
<1>2. BufferAt(o, old) = <<>>
  BY <1>1
<1>3. LoadFrom(<<>>) = [offset |-> 2, batch |-> <<>>, corrupt |-> TRUE]
  BY DEF LoadFrom
<1> QED BY <1>1, <1>2, <1>3

\* Behind what was read there is a record, cells that were never written, or a stub.
LEMMA Found ==
    ASSUME LoadsBack, TornIsNoticed, IInv, life = "restoring", Going, reading.offset # offset_
    PROVE  LET o == reading.offset  buf == BufferAt(o, reading.buf) IN
           \/ \E r \in records :
                r.at = o /\ SizeAt(o) = Len(StoreTo(r.batch)) /\ buf = StoreTo(r.batch)
           \/ \E r \in records :
                /\ r.at = o /\ SizeAt(o) = Len(StoreTo(r.batch)) /\ buf # StoreTo(r.batch)
                /\ Len(file) = o + 1 /\ buf = reading.buf /\ reading.batchs # <<>>
           \/ LoadFrom(buf).corrupt /\ LoadFrom(buf).batch = <<>>
<1> DEFINE o == reading.offset  old == reading.buf  buf == BufferAt(o, old)
<1>1. Types /\ Cells /\ Places
  BY DEF IInv
<1>2. o \in Nat /\ old \in Seq(Nat) /\ file \in Seq(Nat) /\ Len(file) \in Nat
  BY <1>1, ReadIs DEF Types
<1>3. o < Len(file) /\ ReadUpTo(o)
  BY <1>2 DEF Going
<1>4. old \in {<<>>} \cup {StoreTo(c) : c \in Batches} /\ (reading.batchs = <<>> => old = <<>>)
  BY DEF Going
<1> HIDE DEF o, old
<1>5. o + 1 \in 1 .. Len(file) /\ Cell(file, o + 1) = file[o + 1] /\ (o + 1) - 1 = o
  BY <1>2, <1>3 DEF Cell
<1>6. CASE Cell(file, o + 1) = 0
  BY <1>6, <1>1, <1>2, NothingThere DEF o, old
<1>7. ASSUME NEW r \in records, In(r, o + 1), Cell(file, o + 1) # 0
      PROVE  /\ r.at = o /\ SizeAt(o) = Len(StoreTo(r.batch))
             /\ \/ buf = StoreTo(r.batch)
                \/ Len(file) = o + 1 /\ buf = old /\ reading.batchs # <<>>
                \/ LoadFrom(buf).corrupt /\ LoadFrom(buf).batch = <<>>
  <2>1. /\ r.at \in Nat /\ r.batch \in Batches /\ Size(r) \in Nat /\ Size(r) > 1
        /\ End(r) = r.at + Size(r) /\ Size(r) = Len(StoreTo(r.batch)) + 1
    BY <1>1, SizeIs
  <2>2. r.at = o
    <3>1. r.at < o => End(r) <= o
      BY <1>3 DEF ReadUpTo, Below
    <3> QED BY <3>1, <2>1, <1>2, <1>7 DEF In
  <2>3. PICK n \in 0 .. Size(r) : Holds(file, r, n)
    BY <1>1 DEF Cells
  <2>4. n # 0
    <3>1. 1 \in 1 .. Size(r)
      BY <2>1
    <3>2. Cell(file, r.at + 1) = IF 1 <= n THEN Record(r.batch)[1] ELSE 0
      BY <2>3, <3>1 DEF Holds
    <3> QED BY <3>2, <2>2, <1>7
  <2>5. n \in 1 .. Size(r)
    BY <2>1, <2>4
  <2>6. SizeAt(o) = Len(StoreTo(r.batch))
    BY <2>2, <2>3, <2>5, <1>1, <1>2, PrefixRead
  <2>7. PICK k \in 0 .. Len(StoreTo(r.batch)) :
            /\ n - 1 \in 0 .. k
            /\ buf = Torn(StoreTo(r.batch), n - 1, k, old)
            /\ k = 0 => Len(file) = o + 1
    BY <2>2, <2>3, <2>5, <1>1, <1>2, PrefixRead
  <2> HIDE DEF buf
  <2>8. \/ buf = StoreTo(r.batch)
        \/ k = 0 /\ buf = old
        \/ LoadFrom(buf).corrupt /\ LoadFrom(buf).batch = <<>>
    BY <2>1, <2>7, <1>4 DEF TornIsNoticed
  <2>9. ASSUME k = 0, buf = old, reading.batchs = <<>> PROVE FALSE
    <3>1. Len(buf) = 0
      BY <2>9, <1>4
    <3>2. Len(buf) = SizeAt(o)
      BY <1>2, BufferIs DEF buf
    <3> QED BY <3>1, <3>2, <2>1, <2>6
  <2> QED BY <2>2, <2>6, <2>7, <2>8, <2>9
<1>8. ASSUME Ghost(o + 1)
      PROVE  LoadFrom(buf).corrupt /\ LoadFrom(buf).batch = <<>>
  <2>1. PICK end \in o + 1 .. Len(file) : Stub(file, o, end)
    BY <1>5, <1>8 DEF Ghost
  <2>2. PICK b \in Batches :
            /\ end = o + Len(Record(b))
            /\ Cell(file, o + 1) = Len(StoreTo(b))
            /\ \A i \in o + 2 .. end : Cell(file, i) = 0
    BY <2>1 DEF Stub
  <2> DEFINE body == StoreTo(b)  m == Len(body)
  <2>3. /\ m \in Nat /\ m > 0 /\ Len(Record(b)) = m + 1 /\ body \in Seq(Nat)
        /\ \E i \in 1 .. m : body[i] # 0
    BY RecordIs
  <2> HIDE DEF body, m
  <2>4. end = o + 1 + m /\ end <= Len(file)
    BY <2>1, <2>2, <2>3, <1>2
  <2>5. SizeAt(o) = m
    BY <1>2, <2>2, BufferIs DEF m, body
  <2>6. /\ buf \in Seq(Nat) /\ Len(buf) = m
        /\ \A i \in 1 .. m : buf[i] = IF o + 1 + i <= Len(file) THEN file[o + 1 + i] ELSE Cell(old, i)
    BY <1>2, <2>5, BufferIs
  <2> HIDE DEF buf
  <2>7. \A i \in 1 .. m : buf[i] = 0
    <3> TAKE i \in 1 .. m
    <3>1. o + 1 + i \in o + 2 .. end /\ o + 1 + i <= Len(file)
      BY <2>3, <2>4, <1>2
    <3>2. Cell(file, o + 1 + i) = 0
      BY <3>1, <2>2
    <3> QED BY <3>1, <3>2, <2>6 DEF Cell
  <2>8. buf = Torn(body, 0, m, <<>>)
    <3>1. DOMAIN body = 1 .. m
      BY <2>3 DEF m
    <3>2. Torn(body, 0, m, <<>>) = [i \in 1 .. m |-> 0]
      BY <3>1 DEF Torn
    <3>3. buf = [i \in 1 .. m |-> buf[i]]
      BY <2>3, <2>6
    <3> QED BY <3>2, <3>3, <2>7
  <2>9. buf # body /\ m # 0
    BY <2>3, <2>7
  <2>10. 0 \in 0 .. m /\ m \in 0 .. m
    BY <2>3
  <2> QED BY <2>8, <2>9, <2>10 DEF TornIsNoticed, body, m
<1>9. \/ \E r \in records : In(r, o + 1)
      \/ Cell(file, o + 1) = 0 \/ Ghost(o + 1)
  BY <1>1, <1>5 DEF Cells
<1> QED BY <1>6, <1>7, <1>8, <1>9 DEF o, old

\* If a record behind was written for good, so was the one that is read next, and it is read.
LEMMA FirmFound ==
    ASSUME LoadsBack, IInv, Going, reading.offset # offset_,
           NEW q \in records, Firm(q), q.at >= reading.offset
    PROVE  \E r \in records : r.at = reading.offset /\ SizeAt(r.at) = Len(StoreTo(r.batch))
                              /\ BufferAt(reading.offset, reading.buf) = StoreTo(r.batch)
<1> DEFINE o == reading.offset
<1>1. Types /\ Cells /\ NoGap /\ Places
  BY DEF IInv
<1>2. /\ o \in Nat /\ ReadUpTo(o) /\ reading.buf \in Seq(Nat)
      /\ \A r \in records : /\ r.at \in Nat /\ Size(r) \in Nat /\ Size(r) > 1
                            /\ End(r) = r.at + Size(r)
  BY <1>1, ReadIs, SizeIs DEF Going
<1> HIDE DEF o
<1>3. Sound(q) /\ q.written /\ \A e \in records : e.at < q.at => e.written
  BY DEF Firm
<1>4. PICK r \in records : In(r, o + 1) /\ r.at <= q.at
  <2>1. CASE q.at = o
    BY <2>1, <1>2 DEF In
  <2>2. CASE q.at # o
    <3>1. o + 1 \in 1 .. q.at
      BY <2>2, <1>2 DEF o
    <3>2. PICK r \in records : In(r, o + 1)
      BY <3>1, <1>1, <1>3 DEF NoGap
    <3> QED BY <3>1, <3>2, <1>2 DEF In
  <2> QED BY <2>1, <2>2
<1>5. r.at = o
  <2>1. r.at < o => End(r) <= o
    BY <1>2 DEF ReadUpTo, Below
  <2> QED BY <2>1, <1>2, <1>4 DEF In
<1>6. Firm(r)
  <2>1. Sound(r)
    <3>1. \A d \in damage : d \in Nat
      BY <1>1 DEF Types
    <3> QED BY <3>1, <1>2, <1>3, <1>4 DEF Sound
  <2>2. r.written
    BY <1>1, <1>2, <1>3, <1>4 DEF Places
  <2>3. \A e \in records : e.at < r.at => e.written
    BY <1>2, <1>3, <1>4
  <2> QED BY <2>1, <2>2, <2>3 DEF Firm
<1>7. Holds(file, r, Size(r)) /\ Size(r) \in 1 .. Size(r)
  BY <1>1, <1>2, <1>6 DEF Cells
<1>8. SizeAt(r.at) = Len(StoreTo(r.batch)) /\ BufferAt(r.at, reading.buf) = StoreTo(r.batch)
  BY <1>1, <1>2, <1>7, PrefixRead
<1> QED BY <1>5, <1>8 DEF o

\* One more batch is read.
LEMMA Appended ==
    ASSUME Types, NEW e \in [at : Nat, batch : Batches \cup {<<>>}],
           reading'.batchs = Append(reading.batchs, e), reading'.applied = reading.applied
    PROVE  /\ reading'.batchs \in Seq([at : Nat, batch : Batches \cup {<<>>}])
           /\ Len(reading'.batchs) = Len(reading.batchs) + 1
           /\ \A i \in 1 .. Len(reading.batchs) : reading'.batchs[i] = reading.batchs[i]
           /\ reading'.batchs[Len(reading.batchs) + 1] = e
           /\ Read(Len(reading.batchs))' = Read(Len(reading.batchs)) \cup {e}
           /\ Read(reading.applied)' = Read(reading.applied)
<1>1. /\ reading.batchs \in Seq([at : Nat, batch : Batches \cup {<<>>}])
      /\ Len(reading.batchs) \in Nat /\ reading.applied \in Nat
      /\ reading.applied <= Len(reading.batchs)
  BY ReadIs
<1>2. \A E : \A s \in Seq(E), x \in E :
        /\ Append(s, x) \in Seq(E) /\ Len(Append(s, x)) = Len(s) + 1
        /\ \A i \in 1 .. Len(s) : Append(s, x)[i] = s[i]
        /\ Append(s, x)[Len(s) + 1] = x
  OBVIOUS
<1>3. /\ reading'.batchs \in Seq([at : Nat, batch : Batches \cup {<<>>}])
      /\ Len(reading'.batchs) = Len(reading.batchs) + 1
      /\ \A i \in 1 .. Len(reading.batchs) : reading'.batchs[i] = reading.batchs[i]
      /\ reading'.batchs[Len(reading.batchs) + 1] = e
  <2> DEFINE E == [at : Nat, batch : Batches \cup {<<>>}]
  <2>1. reading.batchs \in Seq(E) /\ e \in E
    BY <1>1
  <2> HIDE DEF E
  <2>2. /\ Append(reading.batchs, e) \in Seq(E)
        /\ Len(Append(reading.batchs, e)) = Len(reading.batchs) + 1
        /\ \A i \in 1 .. Len(reading.batchs) : Append(reading.batchs, e)[i] = reading.batchs[i]
        /\ Append(reading.batchs, e)[Len(reading.batchs) + 1] = e
    BY <2>1, <1>2
  <2> QED BY <2>2 DEF E
<1>4. Read(Len(reading.batchs))' = Read(Len(reading.batchs)) \cup {e}
  <2>1. 1 .. Len(reading'.batchs) = (1 .. Len(reading.batchs)) \cup {Len(reading.batchs) + 1}
    BY <1>1, <1>3
  <2> QED BY <2>1, <1>3 DEF Read
<1>5. Read(reading.applied)' = Read(reading.applied)
  <2>1. 1 .. reading.applied \subseteq 1 .. Len(reading.batchs)
    BY <1>1
  <2> QED BY <2>1, <1>3 DEF Read
<1> QED BY <1>3, <1>4, <1>5

LEMMA UpTo ==
    ASSUME records' = records, NEW c \in Nat,
           \A r \in Below(c) : End(r) <= c,
           \A i \in 1 .. c : \E r \in records : In(r, i),
           reading'.whole <= c,
           \A r \in Below(reading'.whole) : End(r) <= reading'.whole /\ Holds(file', r, Size(r)),
           Entries(Below(c)) \subseteq Read(Len(reading.batchs))'
    PROVE  ReadUpTo(c)'
<1>1. /\ Below(c)' = Below(c) /\ Entries(Below(c))' = Entries(Below(c))
      /\ Below(reading.whole)' = Below(reading'.whole)
  BY DEF Below, Entries
<1> QED BY <1>1 DEF ReadUpTo, In, End, Size, Holds, Cell

LEMMA StopsAt ==
    ASSUME records' = records, damage' = damage, NEW c \in {reading'.offset, reading'.whole},
           ReadUpTo(c)', NEW S, S = Read(Len(reading.batchs))',
           \A e \in S : e \in Entries(Below(c)) \/ (e.at >= c /\ (e.batch = <<>> \/ Repeats(e, c))),
           \A e, f \in S : Repeats(e, c) /\ Repeats(f, c) => e = f,
           \A r \in records : r.at >= c => ~Firm(r),
           c = reading'.offset \/ Stub(file', c, reading'.offset),
           \A r \in records : End(r) <= reading'.offset \/ r.at >= reading'.offset,
           IF reading'.offset = offset_' THEN Len(file') = offset_'
           ELSE reading'.offset > Len(file') /\ Len(file') = offset_'
    PROVE  Stopped'
<1>1. Below(c)' = Below(c) /\ Entries(Below(c))' = Entries(Below(c))
  BY DEF Below, Entries
<1>2. \A e : Repeats(e, c)' <=> Repeats(e, c)
  BY DEF Repeats, Below
<1>3. \A r \in records : Firm(r)' <=> Firm(r)
  BY DEF Firm, Sound
<1>4. c \in {reading.offset, reading.whole}'
  OBVIOUS
<1>5. (c = reading.offset \/ Stub(file, c, reading.offset))'
  BY DEF Stub, Cell
<1> QED BY <1>1, <1>2, <1>3, <1>4, <1>5 DEF Stopped, End, Size

\* While the log is read, what is not reading or the file stays as it was.
LEMMA ReadingKeeps ==
    ASSUME LoadsBack, IInv, life = "restoring", reading.offset # offset_,
           NEW e \in [at : Nat, batch : Batches \cup {<<>>}], e.at = reading.offset,
           reading' \in [offset : Nat, buf : Seq(Nat),
                batchs : Seq([at : Nat, batch : Batches \cup {<<>>}]), applied : Nat, whole : Nat],
           reading'.batchs = Append(reading.batchs, e), reading'.applied = reading.applied,
           e.at < reading'.offset \/ (e.at = reading'.offset /\ reading'.offset = offset_'),
           file' \in Seq(Nat), offset_' \in Nat, Cells', Going' \/ Stopped',
           UNCHANGED <<map, life, writer, erase, history, bounds>>
    PROVE  IInv'
<1>1. Types /\ Places /\ Owners /\ NoGap /\ MapOK /\ Restoring
  BY DEF IInv
<1>2. /\ ~up /\ ~up' /\ life' = "restoring" /\ map' = map /\ writer' = writer /\ erase' = erase
      /\ records' = records /\ damage' = damage /\ raced' = raced
  BY DEF up, history
<1>3. /\ Len(reading'.batchs) = Len(reading.batchs) + 1 /\ Len(reading.batchs) \in Nat
      /\ \A i \in 1 .. Len(reading.batchs) : reading'.batchs[i] = reading.batchs[i]
      /\ reading'.batchs[Len(reading.batchs) + 1] = e
      /\ Read(reading.applied)' = Read(reading.applied)
      /\ reading.applied \in Nat /\ reading.applied <= Len(reading.batchs) /\ reading.offset \in Nat
      /\ \A i \in 1 .. Len(reading.batchs) : reading.batchs[i].at \in Nat
  BY <1>1, Appended, ReadIs DEF IsEntry
<1>4. Types'
  <2>1. reading'.applied <= Len(reading'.batchs)
    BY <1>3
  <2> QED BY <1>1, <1>2, <2>1 DEF Types
<1>5. Places' /\ NoGap' /\ MapOK'
  BY <1>1, <1>2 DEF Places, End, Size, NoGap, In, Sound, MapOK
<1>6. Owners'
  BY <1>1, <1>2 DEF Owners, Busy, Own, Written, Marked
<1>7. Table' /\ Rest'
  BY <1>2 DEF Table, Rest
<1>8. (map = TableOf(Read(reading.applied)))'
  <2>1. \A S : TableOf(S)' = TableOf(S)
    BY <1>2 DEF TableOf, Kept, LastSaid, LastOn, Newest, With, ItemOf, KeysOf
  <2>2. map = TableOf(Read(reading.applied))
    BY <1>1 DEF Restoring
  <2> QED BY <1>2, <1>3, <2>1, <2>2, Zenon
<1>9. InOrder'
  <2>0. \A a, b, c \in Nat : /\ a <= a /\ (a < b => a <= b)
                            /\ (a <= b /\ b <= c => a <= c) /\ (a <= b /\ b < c => a < c)
    OBVIOUS
  <2>1. /\ \A i, j \in 1 .. Len(reading.batchs) : i < j => reading.batchs[i].at < reading.batchs[j].at
        /\ \A i \in 1 .. Len(reading.batchs) : reading.batchs[i].at < e.at
    BY <1>1 DEF Restoring, InOrder
  <2>2. \A i \in 1 .. Len(reading'.batchs) :
            \/ i \in 1 .. Len(reading.batchs) /\ reading'.batchs[i] = reading.batchs[i]
            \/ i = Len(reading.batchs) + 1 /\ reading'.batchs[i] = e
    BY <1>3
  <2>3. \A i, j \in 1 .. Len(reading'.batchs) : i < j => reading'.batchs[i].at < reading'.batchs[j].at
    <3> TAKE i, j \in 1 .. Len(reading'.batchs)
    <3> HAVE i < j
    <3>1. i \in 1 .. Len(reading.batchs) /\ reading'.batchs[i] = reading.batchs[i]
      BY <1>3, <2>2
    <3> QED BY <3>1, <2>1, <2>2
  <2>4. e.at \in Nat /\ reading'.offset \in Nat
    BY <1>3
  <2>5. \A i \in 1 .. Len(reading'.batchs) : reading'.batchs[i].at \in Nat
    BY <1>3, <2>2, <2>4
  <2>6. \A i \in 1 .. Len(reading'.batchs) : reading'.batchs[i].at <= e.at
    <3> TAKE i \in 1 .. Len(reading'.batchs)
    <3>1. CASE i \in 1 .. Len(reading.batchs) /\ reading'.batchs[i] = reading.batchs[i]
      <4>1. reading.batchs[i].at \in Nat /\ reading.batchs[i].at < e.at
        BY <3>1, <1>3, <2>1
      <4> QED BY <3>1, <4>1, <2>0, <2>4, Zenon
    <3>2. CASE reading'.batchs[i] = e
      BY <3>2, <2>0, <2>4, Zenon
    <3> QED BY <3>1, <3>2, <2>2
  <2>7. \A i \in 1 .. Len(reading'.batchs) : reading'.batchs[i].at <= reading'.offset
    <3> TAKE i \in 1 .. Len(reading'.batchs)
    <3>1. reading'.batchs[i].at \in Nat /\ reading'.batchs[i].at <= e.at /\ e.at <= reading'.offset
      BY <2>0, <2>4, <2>5, <2>6, Zenon
    <3> QED BY <3>1, <2>0, <2>4, Zenon
  <2>8. reading'.offset # offset_' => \A i \in 1 .. Len(reading'.batchs) : reading'.batchs[i].at < reading'.offset
    <3> HAVE reading'.offset # offset_'
    <3> TAKE i \in 1 .. Len(reading'.batchs)
    <3>1. reading'.batchs[i].at \in Nat /\ reading'.batchs[i].at <= e.at /\ e.at < reading'.offset
      BY <2>5, <2>6, Zenon
    <3> QED BY <3>1, <2>0, <2>4, Zenon
  <2> QED BY <2>3, <2>7, <2>8 DEF InOrder
<1> QED BY <1>4, <1>5, <1>6, <1>7, <1>8, <1>9 DEF IInv, Restoring

\* The file is cut where it was read up to, and nothing was written for good behind.
LEMMA CutKeepsCells ==
    ASSUME LoadsBack, IInv, life = "restoring", Going,
           \A r \in records : r.at >= reading.offset => ~Firm(r),
           file' = Resize(file, reading.offset),
           UNCHANGED <<life, writer, history>>
    PROVE  /\ Cells' /\ file' \in Seq(Nat) /\ Len(file') = reading.offset
           /\ \A r \in Below(reading.offset) : Holds(file', r, Size(r))
<1>1. Types /\ Places /\ Owners /\ Cells
  BY DEF IInv
<1>2. /\ ~up /\ ~up' /\ writer' = writer /\ records' = records /\ damage' = damage
  BY DEF up, history
<1>3. PICK o \in Nat : o = reading.offset
  BY <1>1, ReadIs
<1>4. file \in Seq(Nat) /\ Len(file) \in Nat /\ ReadUpTo(o) /\ o <= Len(file) /\ reading.whole = o
  BY <1>1, <1>3 DEF Types, Going
<1>5. /\ file' \in Seq(Nat) /\ Len(file') = o
      /\ \A i \in Nat \ {0} : Cell(file', i) = IF i <= o THEN Cell(file, i) ELSE 0
  <2>1. /\ Resize(file, o) \in Seq(Nat) /\ Len(Resize(file, o)) = o
        /\ \A i \in Nat \ {0} : Cell(Resize(file, o), i) = IF i <= o THEN Cell(file, i) ELSE 0
    BY <1>4, ResizeIs
  <2> QED BY <1>3, <2>1
<1>6. \A r \in records : /\ r.at \in Nat /\ Size(r) \in Nat /\ Size(r) > 1
                         /\ End(r) = r.at + Size(r) /\ (r.at < o => End(r) <= o)
  BY <1>1, <1>4, SizeIs DEF ReadUpTo, Below
<1>7. \A r \in records, m \in Nat : r.at < o /\ Holds(file, r, m) /\ m <= Size(r) => Holds(file', r, m)
  <2> TAKE r \in records, m \in Nat
  <2> HAVE r.at < o /\ Holds(file, r, m) /\ m <= Size(r)
  <2>1. \A i \in 1 .. Size(r) : r.at + i \in Nat \ {0} /\ r.at + i <= o
    BY <1>6
  <2>2. \A i \in 1 .. Size(r) : Cell(file', r.at + i) = Cell(file, r.at + i)
    BY <1>5, <2>1
  <2> QED BY <1>5, <1>6, <2>2 DEF Holds
<1>8. \A r \in records : ~(r.at < o) => Holds(file', r, 0)
  <2> TAKE r \in records
  <2> HAVE ~(r.at < o)
  <2>1. \A i \in 1 .. Size(r) : r.at + i \in Nat \ {0} /\ ~(r.at + i <= o)
    BY <1>6
  <2> QED BY <1>5, <2>1 DEF Holds
<1>9. \A r \in Below(o) : Holds(file', r, Size(r))
  <2>1. \A r \in Below(o) : Holds(file, r, Size(r)) /\ r \in records /\ r.at < o
    BY <1>4 DEF ReadUpTo, Below
  <2> QED BY <2>1, <1>6, <1>7
<1>10. Cells'
  <2>1. \A r \in records : \E m \in 0 .. Size(r) : Holds(file', r, m)
    <3> TAKE r \in records
    <3>1. PICK m \in 0 .. Size(r) : Holds(file, r, m)
      BY <1>1 DEF Cells
    <3> QED BY <3>1, <1>6, <1>7, <1>8
  <2>2. \A w \in Writer : writer'[w].pc # "writing"
    BY <1>1, <1>2 DEF Owners, Busy
  <2>3. \A r \in records : Firm(r) => Holds(file', r, Size(r))
    <3> TAKE r \in records
    <3> HAVE Firm(r)
    <3>1. r.at < o
      BY <1>3, <1>6
    <3> QED BY <3>1, <1>9 DEF Below
  <2>4. \A i \in 1 .. Len(file') : \E r \in records : In(r, i)
    BY <1>4, <1>5 DEF ReadUpTo
  <2>5. \A r \in records : Firm(r)' <=> Firm(r)
    BY <1>2 DEF Firm, Sound
  <2> QED BY <1>2, <2>1, <2>2, <2>3, <2>4, <2>5 DEF Cells, Holds, Size, In, End
<1> QED BY <1>3, <1>5, <1>9, <1>10

\* The file is lengthened with zeros.
LEMMA LongerKeepsCells ==
    ASSUME LoadsBack, IInv, life = "restoring", reading.offset > Len(file),
           file' = Resize(file, reading.offset),
           UNCHANGED <<life, writer, history>>
    PROVE  /\ Cells' /\ file' \in Seq(Nat) /\ Len(file') = reading.offset
           /\ \A i \in Nat \ {0} : Cell(file', i) = Cell(file, i)
           /\ \A r \in records, m \in Nat : Holds(file, r, m) => Holds(file', r, m)
<1>1. Types /\ Places /\ Owners /\ Cells
  BY DEF IInv
<1>2. /\ ~up /\ ~up' /\ writer' = writer /\ records' = records /\ damage' = damage
  BY DEF up, history
<1>3. PICK o \in Nat : o = reading.offset
  BY <1>1, ReadIs
<1>4. file \in Seq(Nat) /\ Len(file) \in Nat /\ o > Len(file)
  BY <1>1, <1>3 DEF Types
<1>5. file' \in Seq(Nat) /\ Len(file') = o /\ \A i \in Nat \ {0} : Cell(file', i) = Cell(file, i)
  <2>1. /\ Resize(file, o) \in Seq(Nat) /\ Len(Resize(file, o)) = o
        /\ \A i \in Nat \ {0} : Cell(Resize(file, o), i) = IF i <= o THEN Cell(file, i) ELSE 0
    BY <1>4, ResizeIs
  <2>2. \A i \in Nat \ {0} : ~(i <= o) => Cell(file, i) = 0
    BY <1>4 DEF Cell
  <2> QED BY <1>3, <2>1, <2>2
<1>6. \A r \in records : r.at \in Nat /\ Size(r) \in Nat
  BY <1>1, SizeIs
<1>7. \A r \in records, m \in Nat : Holds(file, r, m) => Holds(file', r, m)
  <2> TAKE r \in records, m \in Nat
  <2> HAVE Holds(file, r, m)
  <2>1. r.at \in Nat /\ Size(r) \in Nat
    BY <1>6
  <2>2. \A i \in 1 .. Size(r) : r.at + i \in Nat \ {0}
    BY <2>1, SMTT(30)
  <2> QED BY <1>4, <1>5, <1>6, <2>2 DEF Holds
<1>8. Cells'
  <2>1. \A r \in records : \E m \in 0 .. Size(r) : Holds(file', r, m)
    BY <1>1, <1>6, <1>7 DEF Cells
  <2>2. \A w \in Writer : writer'[w].pc # "writing"
    BY <1>1, <1>2 DEF Owners, Busy
  <2>3. \A r \in records : Firm(r) => Holds(file', r, Size(r))
    BY <1>1, <1>6, <1>7 DEF Cells
  <2>4. \A i \in 1 .. Len(file') : (\E r \in records : In(r, i)) \/ file'[i] = 0 \/ Ghost(i)'
    <3> TAKE i \in 1 .. Len(file')
    <3>0. i \in Nat \ {0} /\ file'[i] = Cell(file, i)
      BY <1>5 DEF Cell
    <3>1. CASE i <= Len(file)
      <4>1. i \in 1 .. Len(file) /\ file'[i] = file[i]
        BY <3>0, <3>1, <1>4 DEF Cell
      <4>2. ASSUME Ghost(i) PROVE Ghost(i)'
        <5>1. \A j \in Nat \ {0} : Cell(file', j) = Cell(file, j) \/ \E q \in records : In(q, j)
          BY <1>5
        <5>2. Len(file') \in Nat /\ Len(file) <= Len(file') /\ damage \subseteq damage'
          BY <1>2, <1>4, <1>5
        <5> QED BY <4>1, <4>2, <5>1, <5>2, <1>1, <1>2, GhostKept
      <4> QED BY <4>1, <4>2, <1>1 DEF Cells
    <3>2. CASE ~(i <= Len(file))
      BY <3>0, <3>2 DEF Cell
    <3> QED BY <3>1, <3>2
  <2>5. \A r \in records : Firm(r)' <=> Firm(r)
    BY <1>2 DEF Firm, Sound
  <2> QED BY <1>2, <2>1, <2>2, <2>3, <2>4, <2>5 DEF Cells, Holds, Size, In, End
<1> QED BY <1>3, <1>5, <1>7, <1>8

\* The fields of reading behind a round of GetWriteBatchs.
LEMMA LoadedIs ==
    ASSUME Types, NEW buf \in Seq(Nat), NEW b \in Batches \cup {<<>>}, Loaded(buf, b)
    PROVE  LET next == reading.offset + SizeAt(reading.offset) + 1 IN
           /\ reading' \in [offset : Nat, buf : Seq(Nat),
                batchs : Seq([at : Nat, batch : Batches \cup {<<>>}]), applied : Nat, whole : Nat]
           /\ reading'.offset = next /\ reading'.buf = buf /\ reading'.applied = reading.applied
           /\ reading'.batchs = Append(reading.batchs, [at |-> reading.offset, batch |-> b])
           /\ reading'.whole =
                IF Len(DataAt(reading.offset)) = SizeAt(reading.offset) THEN next ELSE reading.whole
           /\ file' = file /\ offset_' = offset_
<1> DEFINE next == reading.offset + SizeAt(reading.offset) + 1
           batchs == Append(reading.batchs, [at |-> reading.offset, batch |-> b])
           whole == IF Len(DataAt(reading.offset)) = SizeAt(reading.offset) THEN next ELSE reading.whole
           BS == Seq([at : Nat, batch : Batches \cup {<<>>}])
<1>1. /\ reading \in [offset : Nat, buf : Seq(Nat), batchs : BS, applied : Nat, whole : Nat]
      /\ reading.offset \in Nat /\ reading.batchs \in BS
  BY ReadIs DEF Types
<1>2. reading' = [reading EXCEPT !.offset = next, !.buf = buf, !.batchs = batchs, !.whole = whole]
  BY DEF Loaded
<1>3. SizeAt(reading.offset) \in Nat
  BY <1>1, BufferIs DEF Types
<1>4. next \in Nat /\ whole \in Nat
  BY <1>1, <1>3
<1>5. batchs \in BS
  <2>1. \A E : \A s \in Seq(E), x \in E : Append(s, x) \in Seq(E)
    OBVIOUS
  <2>2. [at |-> reading.offset, batch |-> b] \in [at : Nat, batch : Batches \cup {<<>>}]
    BY <1>1
  <2> QED BY <1>1, <2>1, <2>2, Zenon
<1> HIDE DEF next, batchs, whole, BS
<1>6. /\ reading' \in [offset : Nat, buf : Seq(Nat), batchs : BS, applied : Nat, whole : Nat]
      /\ reading'.offset = next /\ reading'.buf = buf /\ reading'.applied = reading.applied
      /\ reading'.batchs = batchs /\ reading'.whole = whole
  BY <1>1, <1>2, <1>4, <1>5
<1> QED BY <1>6 DEF Loaded, next, batchs, whole, BS

LEMMA CutIs ==
    ASSUME Types, NEW buf \in Seq(Nat), NEW b \in Batches \cup {<<>>}, CutAtCorrupt(buf, b)
    PROVE  /\ reading' \in [offset : Nat, buf : Seq(Nat),
                batchs : Seq([at : Nat, batch : Batches \cup {<<>>}]), applied : Nat, whole : Nat]
           /\ reading'.offset = reading.offset /\ reading'.buf = buf
           /\ reading'.applied = reading.applied /\ reading'.whole = reading.whole
           /\ reading'.batchs = Append(reading.batchs, [at |-> reading.offset, batch |-> b])
           /\ file' = Resize(file, reading.offset) /\ offset_' = reading.offset
<1> DEFINE batchs == Append(reading.batchs, [at |-> reading.offset, batch |-> b])
           BS == Seq([at : Nat, batch : Batches \cup {<<>>}])
<1>1. /\ reading \in [offset : Nat, buf : Seq(Nat), batchs : BS, applied : Nat, whole : Nat]
      /\ reading.offset \in Nat /\ reading.batchs \in BS
  BY ReadIs DEF Types
<1>2. reading' = [reading EXCEPT !.buf = buf, !.batchs = batchs]
  BY DEF CutAtCorrupt
<1>3. batchs \in BS
  <2>1. \A E : \A s \in Seq(E), x \in E : Append(s, x) \in Seq(E)
    OBVIOUS
  <2>2. [at |-> reading.offset, batch |-> b] \in [at : Nat, batch : Batches \cup {<<>>}]
    BY <1>1
  <2> QED BY <1>1, <2>1, <2>2, Zenon
<1> HIDE DEF batchs, BS
<1>4. /\ reading' \in [offset : Nat, buf : Seq(Nat), batchs : BS, applied : Nat, whole : Nat]
      /\ reading'.offset = reading.offset /\ reading'.buf = buf
      /\ reading'.applied = reading.applied /\ reading'.whole = reading.whole
      /\ reading'.batchs = batchs
  BY <1>1, <1>2, <1>3
<1> QED BY <1>4 DEF CutAtCorrupt, batchs, BS

LEMMA BehindRead ==
    ASSUME LoadsBack, IInv, Going, reading.offset # offset_
    PROVE  /\ reading.offset \in Nat /\ Len(file) \in Nat /\ reading.offset < Len(file)
           /\ offset_ = Len(file) /\ reading.whole = reading.offset /\ ReadUpTo(reading.offset)
           /\ Read(Len(reading.batchs)) = Entries(Below(reading.offset))
           /\ \A r \in records : /\ r.at \in Nat /\ r.batch \in Batches /\ Size(r) \in Nat
                                 /\ Size(r) > 1 /\ Size(r) = Len(StoreTo(r.batch)) + 1
                                 /\ Len(StoreTo(r.batch)) \in Nat /\ End(r) = r.at + Size(r)
           /\ \A r \in records : Firm(r) => r.at + Size(r) <= Len(file)
<1>1. Types /\ Cells
  BY DEF IInv
<1>2. /\ reading.offset \in Nat /\ Len(file) \in Nat
      /\ reading.offset <= Len(file) /\ offset_ = Len(file)
      /\ reading.whole = reading.offset /\ ReadUpTo(reading.offset)
      /\ Read(Len(reading.batchs)) = Entries(Below(reading.offset))
  BY <1>1, ReadIs DEF Going, Types
<1>3. \A r \in records : /\ r.at \in Nat /\ r.batch \in Batches /\ Size(r) \in Nat
                         /\ Size(r) > 1 /\ Size(r) = Len(StoreTo(r.batch)) + 1
                         /\ Len(StoreTo(r.batch)) \in Nat /\ End(r) = r.at + Size(r)
  BY <1>1, SizeIs, RecordIs
<1>4. \A r \in records : Firm(r) => r.at + Size(r) <= Len(file)
  <2> TAKE r \in records
  <2> HAVE Firm(r)
  <2>1. Holds(file, r, Size(r))
    BY <1>1 DEF Cells
  <2> QED BY <2>1, <1>3 DEF Holds
<1> QED BY <1>2, <1>3, <1>4

\* A record is read as it was written.
LEMMA WholeIsRead ==
    ASSUME LoadsBack, IInv, life = "restoring", Going, reading.offset # offset_,
           NEW r \in records, r.at = reading.offset,
           SizeAt(reading.offset) = Len(StoreTo(r.batch)),
           BufferAt(reading.offset, reading.buf) = StoreTo(r.batch),
           Loaded(BufferAt(reading.offset, reading.buf), r.batch),
           UNCHANGED <<map, life, writer, erase, history, bounds>>
    PROVE  IInv'
<1>1. PICK o \in Nat : o = reading.offset
  BY BehindRead
<1>2. Types /\ Places /\ Cells
  BY DEF IInv
<1> DEFINE e == [at |-> o, batch |-> r.batch]  n == Len(reading.batchs)
<1>3. /\ Len(file) \in Nat /\ o < Len(file) /\ offset_ = Len(file) /\ reading.whole = o
      /\ ReadUpTo(o) /\ Read(n) = Entries(Below(o))
      /\ \A q \in records : /\ q.at \in Nat /\ q.batch \in Batches /\ Size(q) \in Nat
                            /\ Size(q) > 1 /\ Size(q) = Len(StoreTo(q.batch)) + 1
                            /\ End(q) = q.at + Size(q)
      /\ \A q \in records : Firm(q) => q.at + Size(q) <= Len(file)
  BY <1>1, BehindRead
<1>4. PICK x \in Nat : x = End(r) /\ x = o + Len(StoreTo(r.batch)) + 1 /\ x > o
  BY <1>1, <1>3
<1>5. r.batch \in Batches /\ StoreTo(r.batch) \in Seq(Nat)
  BY <1>3, RecordIs
<1>6. /\ reading' \in [offset : Nat, buf : Seq(Nat),
                batchs : Seq([at : Nat, batch : Batches \cup {<<>>}]), applied : Nat, whole : Nat]
      /\ reading'.offset = x /\ reading'.buf = StoreTo(r.batch) /\ reading'.applied = reading.applied
      /\ reading'.batchs = Append(reading.batchs, e)
      /\ reading'.whole = IF Len(DataAt(o)) = SizeAt(o) THEN x ELSE o
      /\ file' = file /\ offset_' = offset_
  BY <1>1, <1>2, <1>3, <1>4, <1>5, LoadedIs
<1>7. e \in [at : Nat, batch : Batches \cup {<<>>}] /\ e.at = o /\ e.batch = r.batch
  BY <1>5
<1> HIDE DEF e
<1>8. /\ Len(reading'.batchs) = n + 1 /\ n \in Nat /\ reading'.batchs[n + 1] = e
      /\ Read(Len(reading.batchs))' = Read(n) \cup {e}
  BY <1>2, <1>6, <1>7, Appended, ReadIs
<1> HIDE DEF n
<1>9. records' = records /\ damage' = damage /\ ~up /\ ~up' /\ life' = life /\ writer' = writer
  BY DEF history, up
<1>10. Below(x) = Below(o) \cup {r}
  <2>1. \A q \in records : q.at < x => q.at < o \/ q = r
    BY <1>1, <1>2, <1>3, <1>4, SMTT(30) DEF Places
  <2>2. \A q \in records : q.at < o => q.at < x
    BY <1>3, <1>4
  <2> QED BY <2>1, <2>2, <1>1, <1>4 DEF Below
<1>11. Entries(Below(x)) = Read(Len(reading.batchs))'
  BY <1>1, <1>3, <1>8, <1>10 DEF Entries, e
<1>12. \A q \in Below(o) : End(q) <= o /\ Holds(file, q, Size(q))
  BY <1>3 DEF ReadUpTo
<1>13. \A q \in Below(x) : End(q) <= x
  <2> TAKE q \in Below(x)
  <2>1. CASE q \in Below(o)
    <3>1. End(q) \in Nat /\ End(q) <= o
      BY <2>1, <1>3, <1>12 DEF Below
    <3> QED BY <3>1, <1>4
  <2>2. CASE q = r
    BY <2>2, <1>4
  <2> QED BY <2>1, <2>2, <1>10
<1>14. \A i \in 1 .. x : \E q \in records : In(q, i)
  <2> TAKE i \in 1 .. x
  <2>1. CASE i <= o
    <3>1. i \in 1 .. o
      BY <2>1
    <3> QED BY <3>1, <1>3 DEF ReadUpTo
  <2>2. CASE i > o
    <3>1. r.at < i /\ i <= End(r)
      BY <2>2, <1>1, <1>4
    <3> QED BY <3>1 DEF In
  <2> QED BY <2>1, <2>2
<1>15. Cells'
  <2>1. \A i \in 1 .. Len(file) : Ghost(i) => Ghost(i)'
    BY <1>6, <1>9 DEF Ghost, End, Size, Stub, Cell
  <2>2. \A q \in records : Firm(q)' <=> Firm(q)
    BY <1>9 DEF Firm, Sound
  <2> QED BY <1>2, <1>6, <1>9, <2>1, <2>2 DEF Cells, Holds, Size, In, End, Own, Marked
<1>16. Going' \/ Stopped'
  <2>1. Len(DataAt(o)) = SizeAt(o) <=> SizeAt(o) = 0 \/ o + 1 + SizeAt(o) <= Len(file)
    BY <1>1, <1>2, ReadIs, BufferIs DEF Types
  <2>2. Len(DataAt(o)) = SizeAt(o) <=> x <= Len(file)
    <3>1. SizeAt(o) = Len(StoreTo(r.batch)) /\ Len(StoreTo(r.batch)) > 0
      BY <1>1, <1>5, RecordIs
    <3> QED BY <2>1, <3>1, <1>4, <1>1, <1>3
  <2>3. CASE x <= Len(file)
    <3>1. reading'.whole = x
      BY <2>2, <2>3, <1>6
    <3>2. Holds(file, r, Size(r))
      <4>1. PICK m \in 0 .. Size(r) : Holds(file, r, m)
        BY <1>2 DEF Cells
      <4>2. \A i \in 1 .. Size(r) : Cell(file, r.at + i) = Record(r.batch)[i]
        <5>1. /\ Record(r.batch)[1] = Len(StoreTo(r.batch)) /\ Len(StoreTo(r.batch)) \in Nat
              /\ Len(StoreTo(r.batch)) > 0
              /\ \A i \in 1 .. Len(StoreTo(r.batch)) : Record(r.batch)[i + 1] = StoreTo(r.batch)[i]
          BY <1>5, RecordIs
        <5>2. Cell(file, o + 1) = Len(StoreTo(r.batch))
          BY <1>1, <1>2, ReadIs, BufferIs DEF Types
        <5>3. \A i \in 1 .. Len(StoreTo(r.batch)) :
                StoreTo(r.batch)[i] = IF o + 1 + i <= Len(file) THEN file[o + 1 + i] ELSE Cell(reading.buf, i)
          <6>1. file \in Seq(Nat) /\ reading.buf \in Seq(Nat)
            BY <1>2, ReadIs DEF Types
          <6>2. \A i \in 1 .. SizeAt(o) : BufferAt(o, reading.buf)[i] =
                    IF o + 1 + i <= Len(file) THEN file[o + 1 + i] ELSE Cell(reading.buf, i)
            BY <6>1, BufferIs, SMTT(30)
          <6>3. BufferAt(o, reading.buf) = StoreTo(r.batch) /\ SizeAt(o) = Len(StoreTo(r.batch))
            BY <1>1
          <6> QED BY <6>2, <6>3
        <5>4. \A i \in 1 .. Len(StoreTo(r.batch)) : Cell(file, o + 1 + i) = StoreTo(r.batch)[i]
          BY <5>1, <5>3, <2>3, <1>3, <1>4 DEF Cell
        <5> TAKE i \in 1 .. Size(r)
        <5>5. CASE i = 1
          BY <5>1, <5>2, <5>5, <1>1
        <5>6. CASE i # 1
          <6>1. i - 1 \in 1 .. Len(StoreTo(r.batch)) /\ (i - 1) + 1 = i /\ o + 1 + (i - 1) = r.at + i
            BY <5>1, <5>6, <1>1, <1>3
          <6> QED BY <5>1, <5>4, <6>1
        <5> QED BY <5>5, <5>6
      <4>3. r.at + Size(r) <= Len(file)
        BY <2>3, <1>3, <1>4
      <4> QED BY <4>2, <4>3, <1>3 DEF Holds
    <3>3. \A q \in Below(x) : End(q) <= x /\ Holds(file, q, Size(q))
      BY <3>2, <1>10, <1>12, <1>13
    <3>4. ReadUpTo(x)'
      BY <3>1, <3>3, <1>6, <1>9, <1>11, <1>13, <1>14, UpTo
    <3>5. (Read(Len(reading.batchs)) = Entries(Below(reading.offset)))'
      BY <1>6, <1>9, <1>11 DEF Entries, Below
    <3>6. reading'.batchs # <<>>
      BY <1>8
    <3>7. reading'.batchs[Len(reading'.batchs)].batch = r.batch
      BY <1>7, <1>8
    <3> QED BY <2>3, <3>1, <3>4, <3>5, <3>6, <3>7, <1>3, <1>5, <1>6 DEF Going
  <2>4. CASE x > Len(file)
    <3>1. reading'.whole = o
      BY <2>2, <2>4, <1>3, <1>6
    <3>2. ReadUpTo(x)'
      <4>1. reading'.whole <= x
        BY <3>1, <1>4
      <4>2. \A q \in Below(reading'.whole) : End(q) <= reading'.whole /\ Holds(file', q, Size(q))
        BY <3>1, <1>6, <1>12
      <4> QED BY <4>1, <4>2, <1>9, <1>11, <1>13, <1>14, UpTo
    <3>3. \A f \in Read(Len(reading.batchs))' : f \in Entries(Below(x)) /\ ~Repeats(f, x)
      BY <1>11 DEF Repeats, Entries, Below
    <3>4. \A q \in records : q.at >= x => ~Firm(q)
      BY <2>4, <1>3
    <3>5. \A q \in records : End(q) <= x \/ q.at >= x
      <4>1. \A q \in records : q.at < x => End(q) <= x
        BY <1>13 DEF Below
      <4> QED BY <4>1, <1>3
    <3> QED BY <2>4, <3>2, <3>3, <3>4, <3>5, <1>3, <1>6, <1>9, StopsAt
  <2> QED BY <2>3, <2>4, <1>3
<1>17. e.at < reading'.offset /\ offset_' \in Nat /\ file' \in Seq(Nat)
  BY <1>2, <1>4, <1>6, <1>7 DEF Types
<1> QED BY <1>1, <1>6, <1>7, <1>15, <1>16, <1>17, ReadingKeeps

\* Only the length of a record is in the file, and the batch before it is read again.
LEMMA RepeatIsRead ==
    ASSUME LoadsBack, IInv, life = "restoring", Going, reading.offset # offset_,
           NEW r \in records, r.at = reading.offset,
           SizeAt(reading.offset) = Len(StoreTo(r.batch)),
           BufferAt(reading.offset, reading.buf) # StoreTo(r.batch),
           BufferAt(reading.offset, reading.buf) = reading.buf,
           Len(file) = reading.offset + 1, reading.batchs # <<>>,
           Loaded(reading.buf, LoadFrom(reading.buf).batch),
           UNCHANGED <<map, life, writer, erase, history, bounds>>
    PROVE  IInv'
<1>1. PICK o \in Nat : o = reading.offset
  BY BehindRead
<1>2. Types /\ Places /\ Cells /\ InOrder
  BY DEF IInv, Restoring
<1> DEFINE n == Len(reading.batchs)
<1>3. /\ Len(file) \in Nat /\ Len(file) = o + 1 /\ offset_ = Len(file) /\ reading.whole = o
      /\ ReadUpTo(o) /\ Read(n) = Entries(Below(o))
      /\ \A q \in records : /\ q.at \in Nat /\ q.batch \in Batches /\ Size(q) \in Nat
                            /\ Size(q) > 1 /\ Size(q) = Len(StoreTo(q.batch)) + 1
                            /\ End(q) = q.at + Size(q)
      /\ \A q \in records : Firm(q) => q.at + Size(q) <= Len(file)
  BY <1>1, BehindRead
<1>4. PICK b \in Batches : b = reading.batchs[n].batch /\ reading.buf = StoreTo(b)
  BY DEF Going
<1>5. LoadFrom(reading.buf).batch = b /\ b # r.batch /\ reading.buf \in Seq(Nat)
  BY <1>4, RecordIs, SMTT(30)
<1>6. PICK x \in Nat : /\ x = End(r) /\ x = o + Len(StoreTo(r.batch)) + 1 /\ x > o + 1
                       /\ x = o + Len(Record(r.batch))
  <2>1. /\ Size(r) \in Nat /\ Size(r) > 1 /\ Size(r) = Len(StoreTo(r.batch)) + 1
        /\ Size(r) = Len(Record(r.batch)) /\ End(r) = r.at + Size(r) /\ r.at = o
    BY <1>1, <1>2, SizeIs
  <2>2. Len(StoreTo(r.batch)) \in Nat
    BY <1>3, RecordIs
  <2>3. \E x \in Nat : x = o + Size(r) /\ x > o + 1
    BY <2>1
  <2>4. o + Size(r) = o + Len(StoreTo(r.batch)) + 1
    BY <2>1, <2>2
  <2> QED BY <2>1, <2>3, <2>4
<1> DEFINE e == [at |-> o, batch |-> b]
<1>7. Len(DataAt(o)) # SizeAt(o)
  <2>1. file \in Seq(Nat)
    BY <1>2 DEF Types
  <2>2. Len(DataAt(o)) = SizeAt(o) <=> SizeAt(o) = 0 \/ o + 1 + SizeAt(o) <= Len(file)
    BY <1>5, <2>1, BufferIs
  <2>3. SizeAt(o) = Len(StoreTo(r.batch)) /\ Len(StoreTo(r.batch)) > 0
    BY <1>1, <1>3, RecordIs
  <2> QED BY <2>2, <2>3, <1>3, <1>6
<1>8. /\ reading' \in [offset : Nat, buf : Seq(Nat),
                batchs : Seq([at : Nat, batch : Batches \cup {<<>>}]), applied : Nat, whole : Nat]
      /\ reading'.offset = x /\ reading'.applied = reading.applied
      /\ reading'.batchs = Append(reading.batchs, e)
      /\ reading'.whole = o
      /\ file' = file /\ offset_' = offset_
  BY <1>1, <1>2, <1>3, <1>5, <1>6, <1>7, LoadedIs
<1>9. e \in [at : Nat, batch : Batches \cup {<<>>}] /\ e.at = o /\ e.batch = b
  OBVIOUS
<1> HIDE DEF e
<1>10. /\ n \in Nat /\ n > 0 /\ Read(Len(reading.batchs))' = Read(n) \cup {e}
       /\ \A i \in 1 .. n : reading.batchs[i].at \in Nat
  <2>1. /\ reading.batchs \in Seq([at : Nat, batch : Batches \cup {<<>>}])
        /\ reading.batchs # <<>>
        /\ \A i \in 1 .. n : IsEntry(reading.batchs[i])
    BY <1>2, ReadIs
  <2>2. n \in Nat /\ n > 0
    BY <2>1
  <2>3. \A i \in 1 .. n : reading.batchs[i].at \in Nat
    BY <2>1 DEF IsEntry
  <2>4. Read(Len(reading.batchs))' = Read(n) \cup {e}
    BY <1>2, <1>8, <1>9, Appended
  <2> QED BY <2>2, <2>3, <2>4
<1> HIDE DEF n
<1>11. records' = records /\ damage' = damage /\ ~up /\ ~up' /\ life' = life /\ writer' = writer
  BY DEF history, up
<1>12. Cells'
  <2>1. \A i \in 1 .. Len(file) : Ghost(i) => Ghost(i)'
    BY <1>8, <1>11 DEF Ghost, End, Size, Stub, Cell
  <2>2. \A q \in records : Firm(q)' <=> Firm(q)
    BY <1>11 DEF Firm, Sound
  <2> QED BY <1>2, <1>8, <1>11, <2>1, <2>2, ZenonT(60) DEF Cells, Holds, Size, In, End, Own, Marked
<1>13. Repeats(e, o)
  <2>1. \A q \in records : ~(q.at = e.at /\ q.batch = e.batch)
    BY <1>1, <1>2, <1>5, <1>9 DEF Places
  <2>2. n \in 1 .. n /\ reading.batchs[n] \in Read(n)
    BY <1>10 DEF Read
  <2>3. PICK d \in Below(o) : reading.batchs[n] = [at |-> d.at, batch |-> d.batch]
    BY <2>2, <1>3 DEF Entries
  <2>4. d.at = reading.batchs[n].at /\ d.batch = b
    BY <2>3, <1>4
  <2>5. \A q \in Below(o) : q.at <= d.at
    <3> TAKE q \in Below(o)
    <3>1. [at |-> q.at, batch |-> q.batch] \in Read(n)
      BY <1>3 DEF Entries
    <3>2. PICK i \in 1 .. n : reading.batchs[i] = [at |-> q.at, batch |-> q.batch]
      BY <3>1 DEF Read
    <3>3. reading.batchs[i].at = q.at
      BY <3>2
    <3>4. CASE i = n
      BY <3>3, <3>4, <2>4, <1>10, <2>2
    <3>5. CASE i # n
      <4>1. i < n
        BY <3>5, <1>10
      <4>2. reading.batchs[i].at < reading.batchs[n].at
        BY <4>1, <2>2, <1>2 DEF InOrder, n
      <4>3. \A k, l \in Nat : k < l => k <= l
        OBVIOUS
      <4> QED BY <4>2, <4>3, <3>3, <2>4, <2>2, <1>10, Zenon
    <3> QED BY <3>4, <3>5
  <2> QED BY <2>1, <2>4, <2>5, <1>9 DEF Repeats
<1>14. Stopped'
  <2>1. \A q \in Below(o) : End(q) <= o /\ Holds(file, q, Size(q))
    BY <1>3 DEF ReadUpTo
  <2>2. \A i \in 1 .. o : \E q \in records : In(q, i)
    BY <1>3 DEF ReadUpTo
  <2>3. ReadUpTo(o)'
    <3>1. reading'.whole <= o
      BY <1>8
    <3>2. \A q \in Below(reading'.whole) : End(q) <= reading'.whole /\ Holds(file', q, Size(q))
      BY <1>8, <2>1
    <3>3. Entries(Below(o)) \subseteq Read(Len(reading.batchs))'
      BY <1>3, <1>10
    <3> QED BY <3>1, <3>2, <3>3, <2>1, <2>2, <1>11, UpTo
  <2>4. \A f \in Entries(Below(o)) : ~Repeats(f, o)
    BY DEF Repeats, Entries, Below
  <2>5. \A f \in Read(Len(reading.batchs))' : f \in Entries(Below(o)) \/ f = e
    BY <1>3, <1>10
  <2>6. e.at >= o
    BY <1>9
  <2>7. \A q \in records : q.at >= o => ~Firm(q)
    <3> TAKE q \in records
    <3>1. q = r \/ q.at < r.at \/ End(r) <= q.at
      BY <1>2, <1>3 DEF Places
    <3> QED BY <3>1, <1>1, <1>3, <1>6, SMTT(30)
  <2>8. Stub(file', o, x)
    <3>1. Cell(file, o + 1) = Len(StoreTo(r.batch))
      <4>1. file \in Seq(Nat)
        BY <1>2 DEF Types
      <4> QED BY <4>1, <1>1, <1>5, BufferIs
    <3>2. \A i \in o + 2 .. x : Cell(file, i) = 0
      BY <1>3 DEF Cell
    <3> QED BY <3>1, <3>2, <1>3, <1>6, <1>8 DEF Stub
  <2>9. \A q \in records : End(q) <= x \/ q.at >= x
    <3> TAKE q \in records
    <3>1. q = r \/ q.at < r.at \/ End(r) <= q.at
      BY <1>2, <1>3 DEF Places
    <3>2. q.at < o => End(q) <= o
      BY <2>1 DEF Below
    <3> QED BY <3>1, <3>2, <1>1, <1>3, <1>6, SMTT(30)
  <2>10. x # offset_' /\ x > Len(file') /\ Len(file') = offset_'
    BY <1>3, <1>6, <1>8
  <2>11. o \in {reading'.offset, reading'.whole}
    BY <1>8
  <2>12. \A f \in Read(Len(reading.batchs))' :
            f \in Entries(Below(o)) \/ (f.at >= o /\ (f.batch = <<>> \/ Repeats(f, o)))
    BY <2>5, <2>6, <1>13
  <2>13. \A f, g \in Read(Len(reading.batchs))' : Repeats(f, o) /\ Repeats(g, o) => f = g
    BY <2>4, <2>5
  <2> QED BY <2>3, <2>7, <2>8, <2>9, <2>10, <2>11, <2>12, <2>13, <1>8, <1>11, StopsAt
<1>15. e.at < reading'.offset /\ offset_' \in Nat /\ file' \in Seq(Nat) /\ e.at = reading.offset
  BY <1>1, <1>2, <1>6, <1>8, <1>9 DEF Types
<1> QED BY <1>8, <1>9, <1>12, <1>14, <1>15, ReadingKeeps

\* What cannot be loaded is cut.
LEMMA CorruptIsCut ==
    ASSUME LoadsBack, IInv, life = "restoring", Going, reading.offset # offset_,
           LoadFrom(BufferAt(reading.offset, reading.buf)).corrupt,
           LoadFrom(BufferAt(reading.offset, reading.buf)).batch = <<>>,
           CutAtCorrupt(BufferAt(reading.offset, reading.buf), <<>>),
           UNCHANGED <<map, life, writer, erase, history, bounds>>
    PROVE  IInv'
<1>1. PICK o \in Nat : o = reading.offset
  BY BehindRead
<1>2. Types /\ Places /\ Cells
  BY DEF IInv
<1> DEFINE n == Len(reading.batchs)  e == [at |-> o, batch |-> <<>>]
           buf == BufferAt(o, reading.buf)
<1>3. /\ ReadUpTo(o) /\ Read(n) = Entries(Below(o)) /\ reading.whole = o
      /\ \A q \in records : q.at \in Nat /\ q.batch \in Batches /\ q.batch # <<>>
  BY <1>1, BehindRead, RecordIs
<1>4. buf \in Seq(Nat)
  BY <1>2, ReadIs, BufferIs DEF Types
<1> HIDE DEF buf
<1>5. /\ reading' \in [offset : Nat, buf : Seq(Nat),
                batchs : Seq([at : Nat, batch : Batches \cup {<<>>}]), applied : Nat, whole : Nat]
      /\ reading'.offset = o /\ reading'.applied = reading.applied /\ reading'.whole = o
      /\ reading'.batchs = Append(reading.batchs, e)
      /\ file' = Resize(file, o) /\ offset_' = o
  BY <1>1, <1>2, <1>3, <1>4, CutIs DEF buf
<1>6. e \in [at : Nat, batch : Batches \cup {<<>>}] /\ e.at = o /\ e.batch = <<>>
  OBVIOUS
<1> HIDE DEF e
<1>7. Read(Len(reading.batchs))' = Read(n) \cup {e}
  BY <1>2, <1>5, <1>6, Appended
<1> HIDE DEF n
<1>8. records' = records /\ damage' = damage /\ life' = life /\ writer' = writer
  BY DEF history
<1>9. \A q \in records : q.at >= reading.offset => ~Firm(q)
  <2> TAKE q \in records
  <2> HAVE q.at >= reading.offset
  <2>1. ASSUME Firm(q) PROVE FALSE
    <3>1. PICK r \in records : BufferAt(reading.offset, reading.buf) = StoreTo(r.batch)
      BY <2>1, FirmFound
    <3>2. r.batch \in Batches
      BY <1>3
    <3> QED BY <3>1, <3>2, RecordIs
  <2> QED BY <2>1
<1>10. /\ Cells' /\ file' \in Seq(Nat) /\ Len(file') = o
       /\ \A r \in Below(o) : Holds(file', r, Size(r))
  BY <1>1, <1>5, <1>9, CutKeepsCells
<1>11. Stopped'
  <2>1. \A q \in Below(o) : End(q) <= o
    BY <1>3 DEF ReadUpTo
  <2>2. \A i \in 1 .. o : \E q \in records : In(q, i)
    BY <1>3 DEF ReadUpTo
  <2>3. ReadUpTo(o)'
    <3>1. reading'.whole <= o
      BY <1>5
    <3>2. \A q \in Below(reading'.whole) : End(q) <= reading'.whole /\ Holds(file', q, Size(q))
      BY <1>5, <1>10, <2>1
    <3>3. Entries(Below(o)) \subseteq Read(Len(reading.batchs))'
      BY <1>3, <1>7
    <3> QED BY <3>1, <3>2, <3>3, <2>1, <2>2, <1>8, UpTo
  <2>4. \A f \in Entries(Below(o)) : ~Repeats(f, o)
    BY DEF Repeats, Entries, Below
  <2>5. \A f \in Read(Len(reading.batchs))' : f \in Entries(Below(o)) \/ f = e
    BY <1>3, <1>7
  <2>6. e.at >= o /\ ~Repeats(e, o)
    BY <1>3, <1>6 DEF Repeats, Below
  <2>7. \A q \in records : End(q) <= o \/ q.at >= o
    BY <2>1, <1>3 DEF Below
  <2>8. o \in {reading'.offset, reading'.whole} /\ o = reading'.offset
    BY <1>5
  <2>9. \A f \in Read(Len(reading.batchs))' :
            f \in Entries(Below(o)) \/ (f.at >= o /\ (f.batch = <<>> \/ Repeats(f, o)))
    BY <2>5, <2>6, <1>6
  <2>10. \A f, g \in Read(Len(reading.batchs))' : Repeats(f, o) /\ Repeats(g, o) => f = g
    BY <2>4, <2>5, <2>6
  <2> QED BY <2>3, <2>7, <2>8, <2>9, <2>10, <1>1, <1>5, <1>8, <1>9, <1>10, StopsAt
<1>12. e.at = reading'.offset /\ reading'.offset = offset_' /\ offset_' \in Nat /\ e.at = reading.offset
  BY <1>1, <1>5, <1>6
<1> QED BY <1>5, <1>6, <1>10, <1>11, <1>12, ReadingKeeps

\* Nothing is behind the end of the file, and it is lengthened to where the reading stopped.
LEMMA BeyondIsCut ==
    ASSUME LoadsBack, IInv, life = "restoring", Stopped, reading.offset # offset_,
           LoadFrom(BufferAt(reading.offset, reading.buf)).batch = <<>>,
           CutAtCorrupt(BufferAt(reading.offset, reading.buf), <<>>),
           UNCHANGED <<map, life, writer, erase, history, bounds>>
    PROVE  IInv'
<1>1. Types /\ Places /\ Cells
  BY DEF IInv
<1>2. PICK o \in Nat : o = reading.offset
  BY <1>1, ReadIs
<1> DEFINE n == Len(reading.batchs)  e == [at |-> o, batch |-> <<>>]
           buf == BufferAt(o, reading.buf)
<1>3. PICK c \in {reading.offset, reading.whole} :
            /\ ReadUpTo(c)
            /\ \A f \in Read(n) :
                \/ f \in Entries(Below(c))
                \/ f.at >= c /\ (f.batch = <<>> \/ Repeats(f, c))
            /\ \A f, g \in Read(n) : Repeats(f, c) /\ Repeats(g, c) => f = g
            /\ \A r \in records : r.at >= c => ~Firm(r)
            /\ c = reading.offset \/ Stub(file, c, reading.offset)
            /\ \A r \in records : End(r) <= reading.offset \/ r.at >= reading.offset
            /\ reading.offset > Len(file)
  BY DEF Stopped
<1>4. /\ buf \in Seq(Nat) /\ c \in Nat
      /\ \A q \in records : q.at \in Nat /\ q.batch \in Batches /\ q.batch # <<>> /\ Size(q) \in Nat
  BY <1>1, <1>3, ReadIs, BufferIs, SizeIs, RecordIs DEF Types
<1> HIDE DEF buf
<1>5. /\ reading' \in [offset : Nat, buf : Seq(Nat),
                batchs : Seq([at : Nat, batch : Batches \cup {<<>>}]), applied : Nat, whole : Nat]
      /\ reading'.offset = o /\ reading'.applied = reading.applied /\ reading'.whole = reading.whole
      /\ reading'.batchs = Append(reading.batchs, e)
      /\ file' = Resize(file, o) /\ offset_' = o
  BY <1>1, <1>2, <1>4, CutIs DEF buf
<1>6. e \in [at : Nat, batch : Batches \cup {<<>>}] /\ e.at = o /\ e.batch = <<>>
  OBVIOUS
<1> HIDE DEF e
<1>7. Read(Len(reading.batchs))' = Read(n) \cup {e}
  BY <1>1, <1>5, <1>6, Appended
<1> HIDE DEF n
<1>8. records' = records /\ damage' = damage /\ life' = life /\ writer' = writer
  BY DEF history
<1>9. /\ Cells' /\ file' \in Seq(Nat) /\ Len(file') = o
      /\ \A i \in Nat \ {0} : Cell(file', i) = Cell(file, i)
      /\ \A r \in records, m \in Nat : Holds(file, r, m) => Holds(file', r, m)
  BY <1>2, <1>3, <1>5, LongerKeepsCells
<1>10. c <= o
  <2>1. CASE Stub(file, c, o)
    <3>1. PICK b \in Batches : o = c + Len(Record(b))
      BY <2>1 DEF Stub
    <3>2. Len(Record(b)) \in Nat
      BY RecordIs
    <3> QED BY <3>1, <3>2, <1>4
  <2> QED BY <2>1, <1>2, <1>3, <1>4
<1>11. Stopped'
  <2>1. /\ \A q \in Below(c) : End(q) <= c
        /\ \A i \in 1 .. c : \E q \in records : In(q, i)
        /\ reading.whole <= c
        /\ \A q \in Below(reading.whole) : End(q) <= reading.whole /\ Holds(file, q, Size(q))
        /\ Entries(Below(c)) \subseteq Read(n)
    BY <1>3 DEF ReadUpTo, n
  <2>2. ReadUpTo(c)'
    <3>1. reading'.whole <= c
      BY <1>5, <2>1
    <3>2. \A q \in Below(reading'.whole) : End(q) <= reading'.whole /\ Holds(file', q, Size(q))
      <4>1. \A q \in Below(reading.whole) : q \in records /\ Size(q) \in Nat
        BY <1>4 DEF Below
      <4> QED BY <4>1, <1>5, <1>9, <2>1
    <3>3. Entries(Below(c)) \subseteq Read(Len(reading.batchs))'
      BY <1>7, <2>1
    <3> QED BY <3>1, <3>2, <3>3, <2>1, <1>4, <1>8, UpTo
  <2>3. e.at >= c /\ ~Repeats(e, c)
    BY <1>4, <1>6, <1>10 DEF Repeats, Below
  <2>4. c = reading'.offset \/ Stub(file', c, reading'.offset)
    <3>1. ASSUME Stub(file, c, o) PROVE Stub(file', c, o)
      <4>1. \A i \in c + 2 .. o : i \in Nat \ {0}
        BY <1>4
      <4>2. c + 1 \in Nat \ {0}
        BY <1>4
      <4> QED BY <3>1, <4>1, <4>2, <1>9 DEF Stub
    <3> QED BY <3>1, <1>2, <1>3, <1>5
  <2>5. c \in {reading'.offset, reading'.whole}
    BY <1>2, <1>3, <1>5
  <2>6. \A f \in Read(Len(reading.batchs))' :
            f \in Entries(Below(c)) \/ (f.at >= c /\ (f.batch = <<>> \/ Repeats(f, c)))
    BY <1>3, <1>6, <1>7, <2>3
  <2>7. \A f, g \in Read(Len(reading.batchs))' : Repeats(f, c) /\ Repeats(g, c) => f = g
    BY <1>3, <1>7, <2>3
  <2>8. \A r \in records : End(r) <= reading'.offset \/ r.at >= reading'.offset
    BY <1>2, <1>3, <1>5
  <2> QED BY <2>2, <2>4, <2>5, <2>6, <2>7, <2>8, <1>3, <1>5, <1>8, <1>9, StopsAt
<1>12. e.at = reading'.offset /\ reading'.offset = offset_' /\ offset_' \in Nat /\ e.at = reading.offset
  BY <1>2, <1>5, <1>6
<1> QED BY <1>5, <1>6, <1>9, <1>11, <1>12, ReadingKeeps

LEMMA ReadOneKeeps ==
    ASSUME LoadsBack, TornIsNoticed, IInv, ReadOne
    PROVE  IInv'
<1> DEFINE o == reading.offset  buf == BufferAt(o, reading.buf)  loaded == LoadFrom(buf)
<1>1. /\ life = "restoring" /\ o # offset_
      /\ IF loaded.corrupt THEN CutAtCorrupt(buf, loaded.batch) ELSE Loaded(buf, loaded.batch)
      /\ UNCHANGED <<map, life, writer, erase, history, bounds>>
  BY DEF ReadOne
<1>2. Types /\ (Going \/ Stopped)
  BY <1>1 DEF IInv, Restoring
<1>3. o \in Nat /\ reading.buf \in Seq(Nat) /\ file \in Seq(Nat)
  BY <1>2, ReadIs DEF Types
<1> HIDE DEF o, buf, loaded
<1>4. ASSUME Going, NEW r \in records,
             r.at = o /\ SizeAt(o) = Len(StoreTo(r.batch)) /\ buf = StoreTo(r.batch)
      PROVE  IInv'
  <2>1. r.batch \in Batches
    BY <1>2, SizeIs
  <2>2. ~loaded.corrupt /\ loaded.batch = r.batch
    BY <2>1, <1>4, RecordIs DEF loaded
  <2>3. Loaded(buf, r.batch)
    BY <2>2, <1>1
  <2> QED BY <2>3, <1>1, <1>4, WholeIsRead DEF o, buf
<1>5. ASSUME Going, NEW r \in records,
             /\ r.at = o /\ SizeAt(o) = Len(StoreTo(r.batch)) /\ buf # StoreTo(r.batch)
             /\ Len(file) = o + 1 /\ buf = reading.buf /\ reading.batchs # <<>>
      PROVE  IInv'
  <2>1. PICK b \in Batches : reading.buf = StoreTo(b)
    BY <1>5 DEF Going
  <2>2. ~loaded.corrupt
    BY <2>1, <1>5, RecordIs DEF loaded
  <2>3. Loaded(reading.buf, LoadFrom(reading.buf).batch)
    BY <2>2, <1>1, <1>5 DEF loaded
  <2> QED BY <2>3, <1>1, <1>5, RepeatIsRead DEF o, buf
<1>6. ASSUME Going, loaded.corrupt, loaded.batch = <<>>
      PROVE  IInv'
  BY <1>1, <1>6, CorruptIsCut DEF o, buf, loaded
<1>7. CASE Going
  BY <1>1, <1>4, <1>5, <1>6, <1>7, Found DEF IInv, o, buf, loaded
<1>8. CASE Stopped
  <2>1. o > Len(file)
    BY <1>1, <1>8 DEF Stopped, o
  <2>2. Cell(file, o + 1) = 0
    BY <2>1, <1>3 DEF Cell
  <2>3. loaded.corrupt /\ loaded.batch = <<>>
    BY <2>2, <1>2, <1>3, NothingThere DEF loaded, buf
  <2> QED BY <2>3, <1>1, <1>8, BeyondIsCut DEF o, buf, loaded
<1> QED BY <1>2, <1>7, <1>8


LEMMA UnchangedKeeps ==
    ASSUME IInv, UNCHANGED vars
    PROVE  IInv'
<1>1. /\ Types' /\ MapOK' /\ Places'
  BY DEF IInv, vars, Types, MapOK, Places, End, Size, up
<1>2. Owners'
  BY DEF IInv, vars, Owners, Own, Written, Marked, Busy, up
<1>3. Cells'
  BY DEF IInv, vars, Cells, Holds, Cell, Size, End, In, Ghost, Stub, Firm, Sound, Own, Marked, up
<1>4. NoGap'
  BY DEF IInv, vars, NoGap, Sound, In, End, Size, up
<1>5. TableOf(Read(reading.applied))' = TableOf(Read(reading.applied)) /\ Replay(Acked)' = Replay(Acked)
  BY DEF vars, TableOf, Read, Replay, Acked, Entries, Kept, LastSaid, Newest, With
<1>6. Table'
  BY <1>5 DEF IInv, vars, Table, Busy, up
<1>7. Going' <=> Going
  BY DEF vars, Going, ReadUpTo, Read, Below, End, Size, In, Holds, Cell, Entries
<1>8. Stopped' <=> Stopped
  BY DEF vars, Stopped, ReadUpTo, Read, Below, End, Size, In, Holds, Cell, Entries, Repeats,
         Firm, Sound, Stub
<1>9. Restoring' /\ Rest'
  BY <1>5, <1>7, <1>8 DEF IInv, vars, Restoring, Rest, InOrder
<1> QED BY <1>1, <1>2, <1>3, <1>4, <1>6, <1>9 DEF IInv

\* The cut of a record that was being written when the process was killed.
LEMMA TornAt ==
    ASSUME LoadsBack, IInv, NEW w \in Writer, NEW n, Tear(w, n),
           n \in Cuts(Len(Record(writer[w].batch))) \/ n = Len(Record(writer[w].batch))
    PROVE  n \in 0 .. Len(Record(writer[w].batch))
<1>1. writer[w].batch \in Batches
  BY DEF Tear, IInv, Types
<1>2. /\ Len(Record(writer[w].batch)) = Len(StoreTo(writer[w].batch)) + 1
      /\ Len(Record(writer[w].batch)) \in Nat
  BY <1>1, RecordIs
<1>3. Cuts(Len(Record(writer[w].batch))) \subseteq 0 .. Len(Record(writer[w].batch))
  BY <1>1, <1>2, CutAssumption
<1> QED BY <1>2, <1>3

LEMMA NextKeeps ==
    ASSUME LoadsBack, TornIsNoticed, IInv, [Next]_vars
    PROVE  IInv'
<1>1. ASSUME NEW w \in Writer, NEW batch \in Batches, Log(w, batch)  PROVE IInv'
  BY <1>1, LogKeeps
<1>2. ASSUME NEW w \in Writer, WriteDone(w)  PROVE IInv'
  BY <1>2, WriteDoneKeeps
<1>3. ASSUME NEW w \in Writer, WriteFails(w)  PROVE IInv'
  BY <1>3, WriteFailsKeeps
<1>4. ASSUME NEW w \in Writer, Apply(w)  PROVE IInv'
  BY <1>4, ApplyKeeps
<1>5. ASSUME NEW w \in Writer, NEW n \in Cuts(Len(Record(writer[w].batch))), WriteShort(w, n)
      PROVE  IInv'
  BY <1>5, WriteShortKeeps
<1>6. ASSUME NEW w \in Writer, NEW n, Tear(w, n),
             n \in Cuts(Len(Record(writer[w].batch))) \/ n = Len(Record(writer[w].batch))
      PROVE  IInv'
  <2>1. n \in 0 .. Len(Record(writer[w].batch))
    BY <1>6, TornAt
  <2> QED BY <2>1, <1>6, TearKeeps
<1>7. CASE ClearLogs
  BY <1>7, ClearLogsKeeps
<1>8. CASE Crash
  BY <1>8, CrashKeeps
<1>9. CASE Restart
  BY <1>9, RestartKeeps
<1>10. CASE ReadOne
  BY <1>10, ReadOneKeeps
<1>11. CASE ReplayOne
  BY <1>11, ReplayOneKeeps
<1>12. CASE Restore
  BY <1>12, RestoreKeeps
<1>13. CASE UNCHANGED vars
  BY <1>13, UnchangedKeeps
<1>14. Next \/ UNCHANGED vars
  OBVIOUS
<1> QED
  BY <1>1, <1>2, <1>3, <1>4, <1>5, <1>6, <1>7, <1>8, <1>9, <1>10, <1>11, <1>12, <1>13, <1>14
  DEF Next

--------------------------------------------------------------------------------
\* The theorems

\* The invariant that the others follow from: where the records of the log lie, which of
\* their cells are in the file, what the table holds of them, and what has been read back.
THEOREM Invariance == LoadsBack /\ TornIsNoticed => (Spec => []IInv)
<1> SUFFICES ASSUME LoadsBack, TornIsNoticed  PROVE Spec => []IInv
  OBVIOUS
<1>1. Init => IInv
  BY InitKeeps
<1>2. IInv /\ [Next]_vars => IInv'
  BY NextKeeps
<1> QED BY <1>1, <1>2, PTL DEF Spec

\* No two records of the log share a place in the file, and the offset of the next one is
\* behind all of them, whatever is under way, fails or is replayed.
THEOREM TypeCorrect == LoadsBack /\ TornIsNoticed => (Spec => []TypeOK)
<1> SUFFICES ASSUME LoadsBack, TornIsNoticed  PROVE Spec => []TypeOK
  OBVIOUS
<1>1. ASSUME IInv  PROVE TypeOK
  <2>1. Types /\ MapOK /\ Places
    BY <1>1 DEF IInv
  <2>2. /\ file \in Seq(Nat) /\ offset_ \in Nat
        /\ life \in {"up", "killed", "restoring"} /\ erase \in BOOLEAN
        /\ \A w \in Writer : writer[w].pc \in {"idle", "writing", "logged"} /\ writer[w].at \in Nat
        /\ reading.applied <= Len(reading.batchs)
        /\ damage \subseteq Nat
    BY <2>1 DEF Types
  <2>3. \A r \in records : r.batch \in Batches /\ r.at \in Nat
                           /\ End(r) = r.at + Len(Record(r.batch))
    BY <2>1, SizeIs DEF Size
  <2>4. \A r \in records :
            /\ up => r.at + Len(Record(r.batch)) <= offset_
            /\ \A q \in records : r.at < q.at => r.at + Len(Record(r.batch)) <= q.at
    BY <2>1, <2>3 DEF Places
  <2> QED BY <2>1, <2>2, <2>3, <2>4 DEF TypeOK, MapOK
<1>2. IInv => TypeOK
  BY <1>1
<1>3. Spec => []IInv
  BY Invariance
<1> QED BY <1>2, <1>3, PTL

\* Whenever no batch is under way the table holds, key by key, what the batches in the log
\* left, but for keys that two fibers wrote at once: Action takes its place in the log and
\* applies its batch in two steps, and Restore must arrive at the same table.
THEOREM TableFollowsLog == LoadsBack /\ TornIsNoticed => (Spec => []TableIsLog)
<1> SUFFICES ASSUME LoadsBack, TornIsNoticed  PROVE Spec => []TableIsLog
  OBVIOUS
<1>1. ASSUME IInv  PROVE TableIsLog
  <2> SUFFICES ASSUME up, Busy = {}
               PROVE  \A k \in (DOMAIN map \cup DOMAIN Replay(records)) \ raced :
                        k \in DOMAIN map \cap DOMAIN Replay(records) /\ map[k] = Replay(records)[k]
    BY DEF TableIsLog
  <2>1. Owners /\ Table
    BY <1>1 DEF IInv
  <2>2. Acked = records
    BY <2>1 DEF Owners, Acked
  <2>3. \A k \in (DOMAIN map \cup DOMAIN Replay(Acked)) \ raced :
            k \in DOMAIN map \cap DOMAIN Replay(Acked) /\ map[k] = Replay(Acked)[k]
    BY <2>1 DEF Table
  <2> QED BY <2>2, <2>3
<1>2. IInv => TableIsLog
  BY <1>1
<1>3. Spec => []IInv
  BY Invariance
<1> QED BY <1>2, <1>3, PTL

\* Only Restore makes a table that is up of one that is not.
LEMMA OnlyRestore ==
    ASSUME [Next]_vars, ~up, up'
    PROVE  Restore
<1>1. life # life' /\ life' = "up" /\ life # "up"
  BY DEF up
<1>2. \A w \in Writer : /\ \A batch \in Batches : ~Log(w, batch)
                        /\ ~WriteDone(w) /\ ~WriteFails(w) /\ ~Apply(w)
  BY <1>1 DEF Log, WriteDone, WriteFails, Apply
<1>3. \A w \in Writer : \A n : ~WriteShort(w, n) /\ ~Tear(w, n)
  BY <1>1 DEF WriteShort, Tear
<1>4. ~ClearLogs /\ ~Crash /\ ~Restart /\ ~ReadOne /\ ~ReplayOne
  BY <1>1 DEF ClearLogs, Crash, Restart, ReadOne, ReplayOne
<1>5. Next
  BY <1>1 DEF vars
<1> QED BY <1>2, <1>3, <1>4, <1>5 DEF Next

\* A restart, however often it is itself cut short, ends in the table that a prefix of the
\* log leaves, each batch of it whole: GetWriteBatchs, which reads over a buffer that is
\* not cleared and cuts the file at a batch it cannot load, and the loop of Restore.
THEOREM PrefixRestored == LoadsBack /\ TornIsNoticed => (Spec => RestoredIsPrefix)
<1> SUFFICES ASSUME LoadsBack, TornIsNoticed  PROVE Spec => RestoredIsPrefix
  OBVIOUS
<1>1. ASSUME IInv, [Next]_vars, ~up, up'
      PROVE  map' = Replay(records')
  <2>1. Restore
    BY <1>1, OnlyRestore
  <2>2. map' = Replay(records)'
    BY <1>1, <2>1, RestoreKeeps
  <2>3. erase' = erase
    BY <2>1 DEF Restore
  <2> QED BY <2>2, <2>3 DEF Replay, TableOf, Kept, LastSaid, Newest, With, Entries
<1>2. Spec => []IInv
  BY Invariance
<1>3. IInv /\ [Next]_vars => [~up /\ up' => map' = Replay(records')]_vars
  BY <1>1
<1> QED BY <1>2, <1>3, PTL DEF Spec, RestoredIsPrefix

\* A batch whose Action has returned is still in the log when the table is up again, unless
\* the log had been cut below it (WriteFails and ClearLogs leave the offset where it was) or
\* an earlier record had not been written; this over any number of restarts.
THEOREM AcknowledgedSurvive == LoadsBack /\ TornIsNoticed => (Spec => AckedSurvives)
<1> SUFFICES ASSUME LoadsBack, TornIsNoticed  PROVE Spec => AckedSurvives
  OBVIOUS
<1> DEFINE Kept1 == \A r \in records :
                /\ ~up /\ up' /\ r.acked
                /\ \A d \in damage : r.at < d
                /\ \A e \in records : e.at < r.at => e.written
                => r \in records'
<1>1. ASSUME IInv, [Next]_vars
      PROVE  Kept1
  <2> SUFFICES ASSUME NEW r \in records, ~up, up', r.acked,
                      \A d \in damage : r.at < d, \A e \in records : e.at < r.at => e.written
               PROVE  r \in records'
    OBVIOUS
  <2>1. Restore
    BY <1>1, OnlyRestore
  <2>2. PICK c \in {reading.offset, reading.whole} :
            ReadBack = Below(c) /\ \A q \in records : q.at >= c => ~Firm(q)
    BY <1>1, <2>1, RestoredUpTo
  <2>3. Types /\ Owners
    BY <1>1 DEF IInv
  <2>4. r.written /\ Firm(r)
    BY <2>3 DEF Owners, Firm, Sound
  <2>5. r.at \in Nat /\ c \in Nat
    BY <2>3, ReadIs, SizeIs
  <2>6. r \in ReadBack
    BY <2>2, <2>4, <2>5 DEF Below
  <2>7. records \subseteq [at : Nat, batch : Batches, written : BOOLEAN, acked : BOOLEAN]
    BY <2>3 DEF Types
  <2>8. r.acked = TRUE /\ r.written = TRUE
    BY <2>4, <2>7
  <2>9. r = Marked(r, TRUE, TRUE)
    BY <2>7, <2>8 DEF Marked
  <2> QED BY <2>1, <2>6, <2>9 DEF Restore
<1>2. Spec => []IInv
  BY Invariance
<1>3. IInv /\ [Next]_vars => [Kept1]_vars
  BY <1>1
<1> QED BY <1>2, <1>3, PTL DEF Spec, AckedSurvives
================================================================================
