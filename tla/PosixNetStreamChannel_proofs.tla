--------------------- MODULE PosixNetStreamChannel_proofs ---------------------
(* Proofs about the channel, for every number and length of calls, every send   *)
(* buffer and everything the peer may do: a call has one place until it has one *)
(* answer, reads and writes keep their order and lose no byte, and a channel    *)
(* that epoll has told of everything has forgotten nothing of it.               *)
EXTENDS PosixNetStreamChannel, SequenceTheorems, FiniteSetTheorems, WellFoundedInduction,
        TLAPS

--------------------------------------------------------------------------------
\* Sums

\* A set of naturals has a smallest member.
LEMMA SmallestOf ==
    ASSUME NEW S \in SUBSET Nat, S # {}
    PROVE  \E x \in S : \A y \in S : x <= y
<1> DEFINE R == {ss \in Nat \X Nat : ss[1] < ss[2]}
<1>1. IsWellFoundedOn(R, Nat)
  BY NatLessThanWellFounded DEF OpToRel
<1>2. \A x, y \in Nat : <<y, x>> \notin R => x <= y
  OBVIOUS
<1> HIDE DEF R
<1>3. PICK x \in S : \A y \in S : ~(<<y, x>> \in R)
  BY <1>1, WFMin
<1> QED BY <1>2, <1>3


Cell(ns, i) == {i} \X (1 .. ns[i])
Cells(ns) == UNION {Cell(ns, i) : i \in DOMAIN ns}

LEMMA InCells ==
    ASSUME NEW ns
    PROVE  /\ \A i, j : <<i, j>> \in Cells(ns) <=> i \in DOMAIN ns /\ j \in 1 .. ns[i]
           /\ \A c \in Cells(ns) : c = <<c[1], c[2]>>
BY DEF Cells, Cell

\* A sum is a natural number.
LEMMA TotalType ==
    ASSUME NEW ns \in Seq(Int)
    PROVE  /\ IsFiniteSet(Cells(ns))
           /\ Total(ns) = Cardinality(Cells(ns))
           /\ Total(ns) \in Nat
<1> DEFINE f == [i \in DOMAIN ns |-> Cell(ns, i)]
           all == {Cell(ns, i) : i \in DOMAIN ns}
<1>1. DOMAIN ns = 1 .. Len(ns) /\ Len(ns) \in Nat /\ \A i \in DOMAIN ns : ns[i] \in Int
  BY LenProperties, ElementOfSeq
<1>2. f \in Surjection(DOMAIN ns, all)
  BY DEF Surjection
<1>3. IsFiniteSet(DOMAIN ns)
  BY <1>1, FS_Interval
<1>4. IsFiniteSet(all)
  <2> HIDE DEF f, all
  <2> QED BY <1>2, <1>3, FS_Surjection
<1>5. \A T \in all : IsFiniteSet(T)
  <2> SUFFICES ASSUME NEW i \in DOMAIN ns PROVE IsFiniteSet(Cell(ns, i))
    OBVIOUS
  <2>1. IsFiniteSet({i})
    BY FS_Singleton
  <2>2. IsFiniteSet(1 .. ns[i])
    BY <1>1, FS_Interval
  <2> QED BY <2>1, <2>2, FS_Product DEF Cell
<1>6. IsFiniteSet(Cells(ns))
  BY <1>4, <1>5, FS_UNION DEF Cells
<1> QED BY <1>6, FS_CardinalityType DEF Total, Cells, Cell

LEMMA TotalEmpty == Total(<<>>) = 0
<1>1. Cells(<<>>) = {}
  BY DEF Cells
<1> QED BY <1>1, FS_EmptySet, TotalType, EmptySeq

LEMMA TotalOne ==
    ASSUME NEW n \in Int
    PROVE  Total(<<n>>) = IF n > 0 THEN n ELSE 0
<1> DEFINE g == [j \in 1 .. n |-> <<1, j>>]
<1>1. Cells(<<n>>) = {1} \X (1 .. n)
  BY DEF Cells, Cell
<1>2. g \in Bijection(1 .. n, {1} \X (1 .. n))
  <2>1. g \in Injection(1 .. n, {1} \X (1 .. n))
    BY DEF Injection, IsInjective
  <2>2. \A c \in {1} \X (1 .. n) : \E j \in 1 .. n : g[j] = c
    OBVIOUS
  <2>3. g \in Surjection(1 .. n, {1} \X (1 .. n))
    BY <2>2 DEF Surjection
  <2> QED BY <2>1, <2>3 DEF Bijection
<1>3. IsFiniteSet(1 .. n) /\ Cardinality(1 .. n) = IF n > 0 THEN n ELSE 0
  BY FS_Interval
<1>4. ExistsBijection(1 .. n, {1} \X (1 .. n))
  BY <1>2 DEF ExistsBijection
<1>5. Cardinality({1} \X (1 .. n)) = Cardinality(1 .. n)
  BY <1>3, <1>4, FS_Bijection
<1>6. <<n>> \in Seq(Int)
  OBVIOUS
<1> QED BY <1>1, <1>3, <1>5, <1>6, TotalType

\* The sum of two sequences one after the other.
LEMMA TotalConcat ==
    ASSUME NEW s \in Seq(Int), NEW t \in Seq(Int)
    PROVE  Total(s \o t) = Total(s) + Total(t)
<1> DEFINE S == Cells(s)
           T == Cells(t)
           B == {<<c[1] + Len(s), c[2]>> : c \in T}
           f == [c \in T |-> <<c[1] + Len(s), c[2]>>]
<1>1. /\ s \o t \in Seq(Int) /\ Len(s \o t) = Len(s) + Len(t)
      /\ DOMAIN (s \o t) = 1 .. Len(s) + Len(t)
      /\ Len(s) \in Nat /\ DOMAIN s = 1 .. Len(s) /\ Len(t) \in Nat /\ DOMAIN t = 1 .. Len(t)
      /\ \A i \in 1 .. Len(s) + Len(t) : (s \o t)[i] = IF i <= Len(s) THEN s[i] ELSE t[i - Len(s)]
  BY LenProperties, ConcatProperties
<1>2. IsFiniteSet(S) /\ IsFiniteSet(T) /\ Total(s) = Cardinality(S) /\ Total(t) = Cardinality(T)
      /\ Total(s \o t) = Cardinality(Cells(s \o t))
  BY <1>1, TotalType
<1>3. \A c \in T : c = <<c[1], c[2]>> /\ c[1] \in 1 .. Len(t) /\ c[2] \in 1 .. t[c[1]]
  <2> SUFFICES ASSUME NEW c \in T
               PROVE  c = <<c[1], c[2]>> /\ c[1] \in 1 .. Len(t) /\ c[2] \in 1 .. t[c[1]]
    OBVIOUS
  <2>1. c = <<c[1], c[2]>>
    BY InCells
  <2>2. <<c[1], c[2]>> \in T
    BY <2>1
  <2> QED BY <2>1, <2>2, <1>1, InCells
<1>4. f \in Bijection(T, B)
  <2>1. f \in Injection(T, B)
    <3> SUFFICES ASSUME NEW c \in T, NEW d \in T, f[c] = f[d] PROVE c = d
      BY DEF Injection, IsInjective
    <3>1. <<c[1] + Len(s), c[2]>> = <<d[1] + Len(s), d[2]>>
      OBVIOUS
    <3>2. c[1] + Len(s) = d[1] + Len(s) /\ c[2] = d[2]
      BY <3>1
    <3>3. c[1] \in Int /\ d[1] \in Int
      BY <1>3
    <3>4. c[1] = d[1]
      BY <3>2, <3>3, <1>1
    <3>5. c = <<c[1], c[2]>> /\ d = <<d[1], d[2]>>
      BY <1>3
    <3> HIDE DEF T
    <3> QED BY <3>2, <3>4, <3>5
  <2>2. f \in Surjection(T, B)
    BY DEF Surjection
  <2> QED BY <2>1, <2>2 DEF Bijection
<1>5. IsFiniteSet(B) /\ Cardinality(B) = Cardinality(T)
  <2>1. ExistsBijection(T, B)
    BY <1>4 DEF ExistsBijection
  <2> HIDE DEF T, B
  <2> QED BY <2>1, <1>2, FS_Bijection
<1>6. Cells(s \o t) = S \cup B
  <2>1. ASSUME NEW c \in Cells(s \o t) PROVE c \in S \cup B
    <3>1. c = <<c[1], c[2]>> /\ c[1] \in 1 .. Len(s) + Len(t) /\ c[2] \in 1 .. (s \o t)[c[1]]
      <4>1. c = <<c[1], c[2]>>
        BY <2>1, InCells
      <4>2. <<c[1], c[2]>> \in Cells(s \o t)
        BY <4>1, <2>1
      <4> QED BY <4>1, <4>2, <1>1, InCells
    <3>2. CASE c[1] <= Len(s)
      <4>1. c[1] \in DOMAIN s /\ c[2] \in 1 .. s[c[1]]
        BY <3>1, <3>2, <1>1
      <4>2. <<c[1], c[2]>> \in S
        BY <4>1, InCells
      <4> QED BY <4>2, <3>1
    <3>3. CASE c[1] > Len(s)
      <4> DEFINE i == c[1] - Len(s)
      <4>1. i \in 1 .. Len(t) /\ c[2] \in 1 .. t[i] /\ i + Len(s) = c[1]
        BY <3>1, <3>3, <1>1
      <4>2. <<i, c[2]>> \in T
        BY <4>1, <1>1, InCells
      <4> HIDE DEF T, i
      <4>3. <<(<<i, c[2]>>)[1] + Len(s), (<<i, c[2]>>)[2]>> = c
        BY <4>1, <3>1
      <4> QED BY <4>2, <4>3
    <3> QED BY <3>1, <3>2, <3>3, <1>1
  <2>2. ASSUME NEW c \in S PROVE c \in Cells(s \o t)
    <3>1. c = <<c[1], c[2]>>
      BY <2>2, InCells
    <3>2. <<c[1], c[2]>> \in S
      BY <3>1, <2>2
    <3>3. c[1] \in 1 .. Len(s) /\ c[2] \in 1 .. s[c[1]]
      BY <3>2, <1>1, InCells
    <3>4. c[1] \in DOMAIN (s \o t) /\ (s \o t)[c[1]] = s[c[1]]
      BY <3>3, <1>1
    <3>5. <<c[1], c[2]>> \in Cells(s \o t)
      BY <3>3, <3>4, InCells
    <3> QED BY <3>1, <3>5
  <2>3. ASSUME NEW d \in T PROVE <<d[1] + Len(s), d[2]>> \in Cells(s \o t)
    <3>1. d[1] \in 1 .. Len(t) /\ d[2] \in 1 .. t[d[1]]
      BY <2>3, <1>3
    <3>2. d[1] + Len(s) \in DOMAIN (s \o t) /\ (s \o t)[d[1] + Len(s)] = t[d[1]]
      BY SMTT(30), <3>1, <1>1
    <3> QED BY <3>1, <3>2, InCells
  <2> HIDE DEF S, T
  <2> QED BY <2>1, <2>2, <2>3
<1>7. S \cap B = {}
  <2> SUFFICES ASSUME NEW d \in T, <<d[1] + Len(s), d[2]>> \in S PROVE FALSE
    OBVIOUS
  <2>1. d[1] + Len(s) \in 1 .. Len(s)
    BY <1>1, InCells
  <2> HIDE DEF S, T
  <2> QED BY <2>1, <1>1, <1>3
<1> HIDE DEF S, T, B
<1>8. Cardinality(S \cup B) = Cardinality(S) + Cardinality(B)
  <2>1. Cardinality(S \cup B) = Cardinality(S) + Cardinality(B) - Cardinality(S \cap B)
    BY <1>2, <1>5, FS_Union
  <2>2. Cardinality(S) \in Nat /\ Cardinality(B) \in Nat
    BY <1>2, <1>5, FS_CardinalityType
  <2>3. Cardinality(S \cap B) = 0
    BY <1>7, FS_EmptySet
  <2> QED BY <2>1, <2>2, <2>3
<1> QED BY <1>2, <1>5, <1>6, <1>8

--------------------------------------------------------------------------------
\* The bytes of a batch of buffers

Lens(bufs) == [i \in DOMAIN bufs |-> bufs[i].len]
Upto(bufs, k) == Bytes(SubSeq(bufs, 1, k))

LEMMA BufferSeq ==
    ASSUME NEW bufs \in Seq(Buffer)
    PROVE  /\ Len(bufs) \in Nat /\ DOMAIN bufs = 1 .. Len(bufs)
           /\ \A i \in 1 .. Len(bufs) :
                bufs[i] \in Buffer /\ bufs[i].call \in Call /\ bufs[i].len \in 1 .. MaxLength
<1>1. Len(bufs) \in Nat /\ DOMAIN bufs = 1 .. Len(bufs)
  BY LenProperties
<1>2. \A i \in 1 .. Len(bufs) : bufs[i] \in Buffer
  BY ElementOfSeq
<1> QED BY <1>1, <1>2 DEF Buffer

LEMMA LensType ==
    ASSUME NEW bufs \in Seq(Buffer)
    PROVE  /\ Lens(bufs) \in Seq(Int) /\ Len(Lens(bufs)) = Len(bufs)
           /\ DOMAIN Lens(bufs) = 1 .. Len(bufs)
           /\ \A i \in 1 .. Len(bufs) : Lens(bufs)[i] = bufs[i].len
           /\ Bytes(bufs) = Total(Lens(bufs)) /\ Bytes(bufs) \in Nat
<1>1. Lens(bufs) = [i \in 1 .. Len(bufs) |-> bufs[i].len]
  BY BufferSeq DEF Lens
<1>2. \A i \in 1 .. Len(bufs) : bufs[i].len \in Int
  BY BufferSeq, ChannelAssumption
<1>3. Lens(bufs) \in Seq(Int) /\ Len(Lens(bufs)) = Len(bufs)
  BY <1>1, <1>2, BufferSeq
<1>4. Bytes(bufs) = Total(Lens(bufs))
  BY DEF Bytes, Lens
<1> QED BY <1>1, <1>3, <1>4, TotalType

LEMMA BytesConcat ==
    ASSUME NEW s \in Seq(Buffer), NEW t \in Seq(Buffer)
    PROVE  Bytes(s \o t) = Bytes(s) + Bytes(t)
<1>1. s \o t \in Seq(Buffer) /\ Len(s \o t) = Len(s) + Len(t)
      /\ \A i \in 1 .. Len(s) + Len(t) : (s \o t)[i] = IF i <= Len(s) THEN s[i] ELSE t[i - Len(s)]
  BY ConcatProperties
<1>2. Lens(s \o t) \in Seq(Int) /\ Lens(s) \o Lens(t) \in Seq(Int)
      /\ Len(Lens(s \o t)) = Len(s) + Len(t) /\ Len(Lens(s) \o Lens(t)) = Len(s) + Len(t)
  <2>1. Lens(s \o t) \in Seq(Int) /\ Len(Lens(s \o t)) = Len(s) + Len(t)
    BY <1>1, LensType
  <2>2. Lens(s) \in Seq(Int) /\ Lens(t) \in Seq(Int) /\ Len(Lens(s)) = Len(s) /\ Len(Lens(t)) = Len(t)
    BY LensType
  <2>3. Lens(s) \o Lens(t) \in Seq(Int) /\ Len(Lens(s) \o Lens(t)) = Len(Lens(s)) + Len(Lens(t))
    BY <2>2, ConcatProperties
  <2> QED BY <2>1, <2>2, <2>3
<1>3. ASSUME NEW i \in 1 .. Len(s) + Len(t) PROVE Lens(s \o t)[i] = (Lens(s) \o Lens(t))[i]
  <2>0. Lens(s) \in Seq(Int) /\ Lens(t) \in Seq(Int) /\ Len(Lens(s)) = Len(s) /\ Len(Lens(t)) = Len(t)
    BY LensType
  <2>1. Lens(s \o t)[i] = (s \o t)[i].len
    <3>1. i \in 1 .. Len(s \o t)
      BY <1>1
    <3> QED BY <1>1, <3>1, LensType
  <2>2. (Lens(s) \o Lens(t))[i] = IF i <= Len(s) THEN Lens(s)[i] ELSE Lens(t)[i - Len(s)]
    BY <2>0, ConcatProperties
  <2>3. i > Len(s) => i - Len(s) \in 1 .. Len(t)
    BY BufferSeq
  <2>4. i <= Len(s) => i \in 1 .. Len(s)
    BY BufferSeq
  <2>5. (s \o t)[i].len = IF i <= Len(s) THEN Lens(s)[i] ELSE Lens(t)[i - Len(s)]
    BY <1>1, <2>3, <2>4, LensType
  <2> QED BY <2>1, <2>2, <2>5
<1>4. Lens(s \o t) = Lens(s) \o Lens(t)
  BY <1>2, <1>3, SeqEqual
<1> QED BY <1>4, LensType, TotalConcat, <1>1

\* The sum up to each buffer.
LEMMA UptoStep ==
    ASSUME NEW bufs \in Seq(Buffer)
    PROVE  /\ Upto(bufs, 0) = 0 /\ Upto(bufs, Len(bufs)) = Bytes(bufs)
           /\ \A k \in 0 .. Len(bufs) : Upto(bufs, k) \in Nat
           /\ \A k \in 1 .. Len(bufs) : Upto(bufs, k) = Upto(bufs, k - 1) + bufs[k].len
           /\ \A j, k \in 0 .. Len(bufs) : j < k => Upto(bufs, j) < Upto(bufs, k)
           /\ \A j, k \in 0 .. Len(bufs) : Upto(bufs, j) < Upto(bufs, k) => j < k
<1>0. Len(bufs) \in Nat /\ DOMAIN bufs = 1 .. Len(bufs)
  BY BufferSeq
<1>1. Upto(bufs, 0) = 0
  <2>1. SubSeq(bufs, 1, 0) = <<>>
    BY SubSeqEmpty
  <2>2. Lens(<<>>) = <<>>
    BY DEF Lens
  <2> QED BY <2>1, <2>2, TotalEmpty DEF Upto, Bytes, Lens
<1>2. Upto(bufs, Len(bufs)) = Bytes(bufs)
  BY SubSeqFull DEF Upto
<1>3. \A j, k \in 0 .. Len(bufs) : j <= k => SubSeq(bufs, j + 1, k) \in Seq(Buffer)
  <2> SUFFICES ASSUME NEW j \in 0 .. Len(bufs), NEW k \in 0 .. Len(bufs)
               PROVE  SubSeq(bufs, j + 1, k) \in Seq(Buffer)
    OBVIOUS
  <2>1. \A i \in j + 1 .. k : bufs[i] \in Buffer
    BY BufferSeq, <1>0
  <2> QED BY <2>1, <1>0, SubSeqProperties
<1>4. \A k \in 0 .. Len(bufs) : Upto(bufs, k) \in Nat
  <2> SUFFICES ASSUME NEW k \in 0 .. Len(bufs) PROVE Upto(bufs, k) \in Nat
    OBVIOUS
  <2>1. SubSeq(bufs, 0 + 1, k) \in Seq(Buffer) /\ 0 + 1 = 1
    BY <1>3, <1>0
  <2>2. SubSeq(bufs, 1, k) \in Seq(Buffer)
    BY <2>1
  <2>3. Bytes(SubSeq(bufs, 1, k)) \in Nat
    BY <2>2, LensType
  <2> QED BY <2>3 DEF Upto
<1>5. \A j, k \in 0 .. Len(bufs) : j <= k =>
         Upto(bufs, k) = Upto(bufs, j) + Bytes(SubSeq(bufs, j + 1, k))
  <2> SUFFICES ASSUME NEW j \in 0 .. Len(bufs), NEW k \in 0 .. Len(bufs), j <= k
               PROVE  Upto(bufs, k) = Upto(bufs, j) + Bytes(SubSeq(bufs, j + 1, k))
    OBVIOUS
  <2>1. SubSeq(bufs, 1, j) \o SubSeq(bufs, j + 1, k) = SubSeq(bufs, 1, k)
    <3>1. 1 \in 1 .. Len(bufs) + 1 /\ j \in 1 - 1 .. Len(bufs) /\ k \in j .. Len(bufs)
      BY <1>0
    <3> QED BY <3>1, ConcatAdjacentSubSeq
  <2>2. SubSeq(bufs, 0 + 1, j) \in Seq(Buffer) /\ SubSeq(bufs, j + 1, k) \in Seq(Buffer) /\ 0 + 1 = 1
    BY <1>3, <1>0
  <2>3. SubSeq(bufs, 1, j) \in Seq(Buffer)
    BY <2>2
  <2>4. Bytes(SubSeq(bufs, 1, j) \o SubSeq(bufs, j + 1, k)) = Bytes(SubSeq(bufs, 1, j)) + Bytes(SubSeq(bufs, j + 1, k))
    BY <2>2, <2>3, BytesConcat
  <2> QED BY <2>1, <2>4 DEF Upto
<1>6. \A k \in 1 .. Len(bufs) : Upto(bufs, k) = Upto(bufs, k - 1) + bufs[k].len
  <2> SUFFICES ASSUME NEW k \in 1 .. Len(bufs)
               PROVE  Upto(bufs, k) = Upto(bufs, k - 1) + bufs[k].len
    OBVIOUS
  <2>1. Upto(bufs, k) = Upto(bufs, k - 1) + Bytes(SubSeq(bufs, k, k))
    <3>1. k - 1 \in 0 .. Len(bufs) /\ k \in 0 .. Len(bufs) /\ (k - 1) + 1 = k /\ k - 1 <= k
      BY <1>0
    <3> QED BY <3>1, <1>5
  <2>2. Lens(SubSeq(bufs, k, k)) = <<bufs[k].len>>
    <3>1. SubSeq(bufs, k, k) \in Seq(Buffer) /\ Len(SubSeq(bufs, k, k)) = 1 /\ SubSeq(bufs, k, k)[1] = bufs[k]
      <4>1. \A i \in k .. k : bufs[i] \in Buffer
        BY BufferSeq
      <4>2. k \in Int /\ k - k + 1 = 1 /\ k + 1 - 1 = k
        BY <1>0
      <4> QED BY <4>1, <4>2, SubSeqProperties
    <3>2. Lens(SubSeq(bufs, k, k)) \in Seq(Int) /\ Len(Lens(SubSeq(bufs, k, k))) = 1
          /\ Lens(SubSeq(bufs, k, k))[1] = bufs[k].len
      <4> DEFINE one == SubSeq(bufs, k, k)
      <4>1. one \in Seq(Buffer) /\ Len(one) = 1 /\ one[1] = bufs[k]
        BY <3>1
      <4> HIDE DEF one
      <4>2. Lens(one) \in Seq(Int) /\ Len(Lens(one)) = 1 /\ Lens(one)[1] = bufs[k].len
        BY <4>1, LensType
      <4> QED BY <4>2 DEF one
    <3>3. bufs[k].len \in Int
      BY BufferSeq, ChannelAssumption
    <3> QED BY <3>2, <3>3
  <2>3. bufs[k].len \in 1 .. MaxLength
    BY BufferSeq
  <2>4. Bytes(SubSeq(bufs, k, k)) = bufs[k].len
    BY <2>2, <2>3, TotalOne, ChannelAssumption DEF Bytes, Lens
  <2> QED BY <2>1, <2>4
<1>7. ASSUME NEW j \in 0 .. Len(bufs), NEW k \in 0 .. Len(bufs), j < k
      PROVE  Upto(bufs, j) < Upto(bufs, k)
  <2>1. k \in 1 .. Len(bufs) /\ k - 1 \in 0 .. Len(bufs) /\ j <= k - 1
    BY <1>7, <1>0
  <2>2. SubSeq(bufs, j + 1, k - 1) \in Seq(Buffer)
    BY <2>1, <1>3
  <2>3. Upto(bufs, k - 1) = Upto(bufs, j) + Bytes(SubSeq(bufs, j + 1, k - 1))
    BY <2>1, <1>5
  <2>4. Bytes(SubSeq(bufs, j + 1, k - 1)) \in Nat
    BY <2>2, LensType
  <2>5. bufs[k].len \in 1 .. MaxLength /\ Upto(bufs, k) = Upto(bufs, k - 1) + bufs[k].len
    BY <2>1, <1>6, BufferSeq
  <2> QED BY SMTT(30), <2>3, <2>4, <2>5, <1>4, ChannelAssumption
<1>8. ASSUME NEW j \in 0 .. Len(bufs), NEW k \in 0 .. Len(bufs), Upto(bufs, j) < Upto(bufs, k)
      PROVE  j < k
  <2>1. j = k \/ k < j \/ j < k
    BY <1>0
  <2> QED BY <2>1, <1>7, <1>8, <1>4
<1> QED BY <1>1, <1>2, <1>4, <1>6, <1>7, <1>8

\* A byte of the batch is in one buffer of it, and the search finds that one.
LEMMA BufferOf ==
    ASSUME NEW bufs \in Seq(Buffer), NEW n \in 1 .. Bytes(bufs)
    PROVE  LET k == ConvertByteToBufferNumber(bufs, n) IN
           /\ k \in 1 .. Len(bufs)
           /\ Upto(bufs, k - 1) < n /\ n <= Upto(bufs, k)
           /\ \A j \in 1 .. Len(bufs) : Upto(bufs, j - 1) < n /\ n <= Upto(bufs, j) => j = k
<1> DEFINE In(j) == Upto(bufs, j - 1) < n /\ n <= Upto(bufs, j)
           K == {j \in 1 .. Len(bufs) : n <= Upto(bufs, j)}
           k == ConvertByteToBufferNumber(bufs, n)
<1>0. Len(bufs) \in Nat /\ DOMAIN bufs = 1 .. Len(bufs) /\ n \in Nat /\ n >= 1
  BY BufferSeq, LensType
<1>1. K # {} /\ K \in SUBSET Nat
  <2>1. n <= Upto(bufs, Len(bufs))
    BY UptoStep, LensType
  <2>2. Len(bufs) # 0
    BY <2>1, <1>0, UptoStep
  <2> QED BY <2>1, <2>2, <1>0
<1>2. PICK j \in K : \A i \in K : j <= i
  <2> HIDE DEF K
  <2> QED BY <1>1, SmallestOf
<1>3. j \in 1 .. Len(bufs) /\ In(j)
  <2>1. j \in 1 .. Len(bufs) /\ n <= Upto(bufs, j)
    OBVIOUS
  <2>2. CASE j = 1
    BY <2>1, <2>2, <1>0, UptoStep
  <2>3. CASE j > 1
    <3>1. j - 1 \in 1 .. Len(bufs) /\ j - 1 \in 0 .. Len(bufs) /\ ~(j <= j - 1)
      BY <2>1, <2>3, <1>0
    <3>2. j - 1 \notin K
      BY <3>1, <1>2
    <3>3. ~(n <= Upto(bufs, j - 1)) /\ Upto(bufs, j - 1) \in Nat
      BY <3>1, <3>2, UptoStep
    <3> QED BY <3>3, <2>1, <1>0
  <2> QED BY <2>1, <2>2, <2>3, <1>0
<1>4. k \in 1 .. Len(bufs) /\ In(k)
  BY <1>3, <1>0 DEF ConvertByteToBufferNumber, Upto
<1>5. ASSUME NEW i \in 1 .. Len(bufs), In(i) PROVE i = k
  <2> HIDE DEF k
  <2>1. /\ i - 1 \in 0 .. Len(bufs) /\ i \in 0 .. Len(bufs) /\ i \in Nat
        /\ k - 1 \in 0 .. Len(bufs) /\ k \in 0 .. Len(bufs) /\ k \in Nat
    BY <1>4, <1>0
  <2>2. Upto(bufs, i - 1) < Upto(bufs, k) /\ Upto(bufs, k - 1) < Upto(bufs, i)
    BY <2>1, <1>4, <1>5, <1>0, UptoStep
  <2>3. i - 1 < k /\ k - 1 < i
    BY <2>1, <2>2, UptoStep
  <2> QED BY <2>1, <2>3
<1> QED BY <1>4, <1>5

--------------------------------------------------------------------------------
\* Lines: the calls of one operation, those with an answer before those that wait

InLine(cs, ans, line, op) ==
    /\ \A i \in DOMAIN line : line[i] \in DOMAIN cs /\ cs[line[i]].op = op
    /\ \A i, j \in DOMAIN line : i < j => line[i] < line[j]
    /\ \A i, j \in DOMAIN ans :
          i < j /\ cs[ans[i].call].op = op /\ cs[ans[j].call].op = op => ans[i].call < ans[j].call
    /\ \A i \in DOMAIN ans, j \in DOMAIN line : cs[ans[i].call].op = op => ans[i].call < line[j]
    /\ \A c \in DOMAIN cs : cs[c].op = op =>
          (\E i \in DOMAIN line : line[i] = c) \/ (\E i \in DOMAIN ans : ans[i].call = c)

\* The answers are to the first calls of the line, and the rest is the rest.
Leads(more, line, rest) ==
    /\ Len(line) = Len(more) + Len(rest)
    /\ \A i \in 1 .. Len(more) : more[i].call = line[i]
    /\ \A i \in 1 .. Len(rest) : rest[i] = line[Len(more) + i]

Kinds(cs, ans, ops) == \A i \in DOMAIN ans : ans[i].call \in DOMAIN cs /\ cs[ans[i].call].op \in ops

\* The three lines of a half of the channel.
Lines(cs, ans, line, polls, cb, a, b, c) ==
    /\ InLine(cs, ans, line, a)
    /\ InLine(cs, ans, polls, b)
    /\ InLine(cs, ans, Waiting(cb), c)
    /\ Kinds(cs, ans, {a, b, c})

LEMMA AnswerSeq ==
    ASSUME NEW s \in Seq(Answer)
    PROVE  /\ Len(s) \in Nat /\ DOMAIN s = 1 .. Len(s)
           /\ \A i \in 1 .. Len(s) :
                s[i] \in Answer /\ s[i].call \in Call /\ s[i].n \in Failed .. MaxLength
<1>1. Len(s) \in Nat /\ DOMAIN s = 1 .. Len(s)
  BY LenProperties
<1>2. \A i \in 1 .. Len(s) : s[i] \in Answer
  BY ElementOfSeq
<1> QED BY <1>1, <1>2 DEF Answer

LEMMA CallSeq ==
    ASSUME NEW s \in Seq(Call)
    PROVE  /\ Len(s) \in Nat /\ DOMAIN s = 1 .. Len(s)
           /\ \A i \in 1 .. Len(s) : s[i] \in Call /\ s[i] \in Nat
<1>1. Len(s) \in Nat /\ DOMAIN s = 1 .. Len(s)
  BY LenProperties
<1>2. \A i \in 1 .. Len(s) : s[i] \in Call
  BY ElementOfSeq
<1> QED BY <1>1, <1>2, ChannelAssumption DEF Call

\* Answers given in the order of a line take the first calls out of it.
LEMMA AnswerLine ==
    ASSUME NEW cs, NEW ans \in Seq(Answer), NEW more \in Seq(Answer),
           NEW line \in Seq(Call), NEW rest \in Seq(Call), NEW op,
           InLine(cs, ans, line, op), Leads(more, line, rest)
    PROVE  InLine(cs, ans \o more, rest, op)
<1> USE DEF Leads
<1> DEFINE all == ans \o more
<1>1. /\ Len(ans) \in Nat /\ DOMAIN ans = 1 .. Len(ans)
      /\ Len(more) \in Nat /\ DOMAIN more = 1 .. Len(more)
      /\ Len(line) \in Nat /\ DOMAIN line = 1 .. Len(line)
      /\ Len(rest) \in Nat /\ DOMAIN rest = 1 .. Len(rest)
      /\ \A i \in 1 .. Len(line) : line[i] \in Nat
      /\ \A i \in 1 .. Len(ans) : ans[i].call \in Nat
  BY AnswerSeq, CallSeq, ChannelAssumption DEF Call
<1>2. /\ DOMAIN all = 1 .. Len(ans) + Len(more)
      /\ \A i \in 1 .. Len(ans) + Len(more) : all[i] = IF i <= Len(ans) THEN ans[i] ELSE more[i - Len(ans)]
  BY ConcatProperties, LenProperties
<1>3. \A i \in 1 .. Len(ans) : i \in DOMAIN all /\ all[i] = ans[i]
  BY <1>1, <1>2
<1>4. \A i \in 1 .. Len(more) : Len(ans) + i \in DOMAIN all /\ all[Len(ans) + i].call = line[i] /\ i \in DOMAIN line
  BY <1>1, <1>2
<1>5. \A i \in DOMAIN all : \/ i \in 1 .. Len(ans) /\ all[i] = ans[i]
                            \/ /\ i - Len(ans) \in 1 .. Len(more) /\ i > Len(ans)
                               /\ i - Len(ans) \in DOMAIN line /\ all[i].call = line[i - Len(ans)]
  BY <1>1, <1>2
<1>6. \A i \in DOMAIN rest : Len(more) + i \in DOMAIN line /\ rest[i] = line[Len(more) + i]
  BY <1>1
<1> HIDE DEF all
<1> USE DEF InLine
<1>7. \A i \in DOMAIN rest : rest[i] \in DOMAIN cs /\ cs[rest[i]].op = op
  BY <1>6
<1>8. \A i, j \in DOMAIN rest : i < j => rest[i] < rest[j]
  BY <1>1, <1>6
<1>9. ASSUME NEW i \in DOMAIN all, NEW j \in DOMAIN all, i < j,
             cs[all[i].call].op = op, cs[all[j].call].op = op
      PROVE  all[i].call < all[j].call
  <2>1. CASE j \in 1 .. Len(ans)
    <3>1. i \in 1 .. Len(ans) /\ i \in DOMAIN ans /\ j \in DOMAIN ans
      BY <1>1, <1>2, <1>9, <2>1
    <3>2. all[i] = ans[i] /\ all[j] = ans[j]
      BY <1>3, <3>1, <2>1
    <3> QED BY <1>9, <3>1, <3>2
  <2>2. CASE j \notin 1 .. Len(ans)
    <3>1. j - Len(ans) \in DOMAIN line /\ all[j].call = line[j - Len(ans)]
      BY <1>5, <2>2
    <3>2. CASE i \in 1 .. Len(ans)
      BY <1>3, <1>1, <1>9, <3>1, <3>2
    <3>3. CASE i \notin 1 .. Len(ans)
      <4>1. i - Len(ans) \in DOMAIN line /\ all[i].call = line[i - Len(ans)]
        BY <1>5, <3>3
      <4>2. i - Len(ans) < j - Len(ans)
        BY <1>1, <1>2, <1>9
      <4> QED BY <3>1, <4>1, <4>2
    <3> QED BY <3>2, <3>3
  <2> QED BY <2>1, <2>2
<1>10. ASSUME NEW i \in DOMAIN all, NEW j \in DOMAIN rest, cs[all[i].call].op = op
       PROVE  all[i].call < rest[j]
  <2>1. Len(more) + j \in DOMAIN line /\ rest[j] = line[Len(more) + j]
    BY <1>6
  <2>2. CASE i \in 1 .. Len(ans)
    BY <1>1, <1>3, <1>10, <2>1, <2>2
  <2>3. CASE i \notin 1 .. Len(ans)
    <3>1. i - Len(ans) \in DOMAIN line /\ all[i].call = line[i - Len(ans)] /\ i - Len(ans) \in 1 .. Len(more)
      BY <1>5, <2>3
    <3>2. i - Len(ans) < Len(more) + j
      BY <3>1, <1>1
    <3> QED BY <2>1, <3>1, <3>2
  <2> QED BY <2>2, <2>3
<1>11. ASSUME NEW c \in DOMAIN cs, cs[c].op = op
       PROVE  (\E i \in DOMAIN rest : rest[i] = c) \/ (\E i \in DOMAIN all : all[i].call = c)
  <2>1. CASE \E i \in DOMAIN ans : ans[i].call = c
    BY <2>1, <1>1, <1>3
  <2>2. ASSUME NEW i \in DOMAIN line, line[i] = c
        PROVE  (\E k \in DOMAIN rest : rest[k] = c) \/ (\E k \in DOMAIN all : all[k].call = c)
    <3>1. CASE i <= Len(more)
      <4>1. i \in 1 .. Len(more)
        BY <1>1, <3>1
      <4> QED BY <4>1, <1>4, <2>2
    <3>2. CASE i > Len(more)
      <4>1. i - Len(more) \in DOMAIN rest /\ Len(more) + (i - Len(more)) = i
        BY <1>1, <3>2
      <4> QED BY <4>1, <1>6, <2>2
    <3> QED BY <1>1, <3>1, <3>2
  <2> QED BY <2>1, <2>2, <1>11
<1>12. InLine(cs, all, rest, op)
  BY <1>7, <1>8, <1>9, <1>10, <1>11
<1> QED BY <1>12 DEF all

\* Answers to other operations change nothing.
LEMMA OtherLine ==
    ASSUME NEW cs, NEW ans \in Seq(Answer), NEW more \in Seq(Answer), NEW line, NEW op,
           InLine(cs, ans, line, op),
           \A i \in 1 .. Len(more) : cs[more[i].call].op # op
    PROVE  InLine(cs, ans \o more, line, op)
<1> DEFINE all == ans \o more
<1>1. /\ Len(ans) \in Nat /\ DOMAIN ans = 1 .. Len(ans)
      /\ Len(more) \in Nat /\ DOMAIN more = 1 .. Len(more)
  BY AnswerSeq
<1>2. /\ DOMAIN all = 1 .. Len(ans) + Len(more)
      /\ \A i \in 1 .. Len(ans) + Len(more) : all[i] = IF i <= Len(ans) THEN ans[i] ELSE more[i - Len(ans)]
  BY ConcatProperties, LenProperties
<1>3. \A i \in DOMAIN ans : i \in DOMAIN all /\ all[i] = ans[i]
  BY <1>1, <1>2
<1>4. \A i \in DOMAIN all : cs[all[i].call].op = op => i \in DOMAIN ans /\ all[i] = ans[i]
  BY <1>1, <1>2
<1> HIDE DEF all
<1>5. InLine(cs, all, line, op)
  BY <1>3, <1>4 DEF InLine
<1> QED BY <1>5 DEF all

\* A new call goes to the end of its line.
LEMMA NewInLine ==
    ASSUME NEW cs \in Seq(Operation), NEW o \in Operation, NEW line \in Seq(Call), NEW ans \in Seq(Answer),
           NEW op, InLine(cs, ans, line, op), \A i \in DOMAIN ans : ans[i].call \in DOMAIN cs,
           Len(cs) < MaxCalls
    PROVE  LET new == Append(cs, o) IN
           /\ o.op = op => InLine(new, ans, Append(line, Len(cs) + 1), op)
           /\ o.op # op => InLine(new, ans, line, op)
<1> DEFINE new == Append(cs, o)
           longer == Append(line, Len(cs) + 1)
<1>1. /\ Len(cs) \in Nat /\ DOMAIN cs = 1 .. Len(cs)
      /\ DOMAIN new = 1 .. Len(cs) + 1 /\ new[Len(cs) + 1] = o
      /\ \A c \in 1 .. Len(cs) : new[c] = cs[c]
  BY LenProperties, AppendProperties
<1>2. /\ Len(line) \in Nat /\ DOMAIN line = 1 .. Len(line) /\ Len(cs) + 1 \in Call
      /\ DOMAIN ans = 1 .. Len(ans)
  BY CallSeq, AnswerSeq, <1>1, ChannelAssumption DEF Call
<1>3. /\ DOMAIN longer = 1 .. Len(line) + 1 /\ longer[Len(line) + 1] = Len(cs) + 1
      /\ \A i \in 1 .. Len(line) : longer[i] = line[i]
  BY <1>2, LenProperties, AppendProperties
<1>4. \A i \in DOMAIN ans : ans[i].call \in 1 .. Len(cs) /\ new[ans[i].call] = cs[ans[i].call]
  BY <1>1
<1>5. \A i \in DOMAIN line : line[i] \in 1 .. Len(cs) /\ new[line[i]] = cs[line[i]]
  BY <1>1 DEF InLine
<1> HIDE DEF new, longer
<1>6. ASSUME o.op = op PROVE InLine(new, ans, longer, op)
  <2>1. \A i \in DOMAIN longer : longer[i] \in DOMAIN new /\ new[longer[i]].op = op
    BY <1>1, <1>2, <1>3, <1>5, <1>6 DEF InLine
  <2>2. \A i, j \in DOMAIN longer : i < j => longer[i] < longer[j]
    BY <1>1, <1>2, <1>3, <1>5 DEF InLine
  <2>3. \A i, j \in DOMAIN ans : i < j /\ new[ans[i].call].op = op /\ new[ans[j].call].op = op
                                    => ans[i].call < ans[j].call
    BY <1>4 DEF InLine
  <2>4. \A i \in DOMAIN ans, j \in DOMAIN longer : new[ans[i].call].op = op => ans[i].call < longer[j]
    BY <1>1, <1>2, <1>3, <1>4, <1>5 DEF InLine
  <2>5. \A c \in DOMAIN new : new[c].op = op =>
           (\E i \in DOMAIN longer : longer[i] = c) \/ (\E i \in DOMAIN ans : ans[i].call = c)
    <3> SUFFICES ASSUME NEW c \in DOMAIN new, new[c].op = op
                 PROVE  (\E i \in DOMAIN longer : longer[i] = c) \/ (\E i \in DOMAIN ans : ans[i].call = c)
      OBVIOUS
    <3>1. CASE c \in DOMAIN cs
      <4>1. (\E i \in DOMAIN line : line[i] = c) \/ (\E i \in DOMAIN ans : ans[i].call = c)
        BY <1>1, <3>1 DEF InLine
      <4>2. \A i \in DOMAIN line : i \in DOMAIN longer /\ longer[i] = line[i]
        BY <1>2, <1>3
      <4> QED BY <4>1, <4>2
    <3>2. CASE c = Len(cs) + 1
      BY <1>2, <1>3, <3>2
    <3> QED BY <3>1, <3>2, <1>1
  <2> QED BY <2>1, <2>2, <2>3, <2>4, <2>5 DEF InLine
<1>7. ASSUME o.op # op PROVE InLine(new, ans, line, op)
  <2>1. \A c \in DOMAIN new : new[c].op = op => c \in DOMAIN cs /\ cs[c].op = op
    BY <1>1, <1>7
  <2>2. \A i \in DOMAIN line : line[i] \in DOMAIN new /\ new[line[i]].op = op
    BY <1>1, <1>5 DEF InLine
  <2> QED BY <2>1, <2>2, <1>4 DEF InLine
<1> QED BY <1>6, <1>7 DEF new, longer

LEMMA ConcatAnswers ==
    ASSUME NEW s \in Seq(Answer), NEW t \in Seq(Answer)
    PROVE  /\ s \o t \in Seq(Answer) /\ Len(s \o t) = Len(s) + Len(t) /\ DOMAIN (s \o t) = 1 .. Len(s) + Len(t)
           /\ \A i \in 1 .. Len(s) : (s \o t)[i] = s[i]
           /\ \A i \in 1 .. Len(t) : (s \o t)[Len(s) + i] = t[i]
           /\ \A i \in DOMAIN (s \o t) :
                \/ i \in 1 .. Len(s) /\ (s \o t)[i] = s[i]
                \/ i - Len(s) \in 1 .. Len(t) /\ (s \o t)[i] = t[i - Len(s)]
<1>1. Len(s) \in Nat /\ Len(t) \in Nat
  BY AnswerSeq
<1>2. s \o t \in Seq(Answer) /\ Len(s \o t) = Len(s) + Len(t)
      /\ \A i \in 1 .. Len(s) + Len(t) : (s \o t)[i] = IF i <= Len(s) THEN s[i] ELSE t[i - Len(s)]
  BY ConcatProperties
<1>3. DOMAIN (s \o t) = 1 .. Len(s) + Len(t)
  BY <1>2, LenProperties
<1>4. \A i \in 1 .. Len(t) : (s \o t)[Len(s) + i] = t[i]
  <2> SUFFICES ASSUME NEW i \in 1 .. Len(t) PROVE (s \o t)[Len(s) + i] = t[i]
    OBVIOUS
  <2>1. Len(s) + i \in 1 .. Len(s) + Len(t) /\ ~(Len(s) + i <= Len(s)) /\ (Len(s) + i) - Len(s) = i
    BY <1>1
  <2> QED BY <2>1, <1>2
<1> QED BY <1>1, <1>2, <1>3, <1>4

LEMMA AnswersStay ==
    ASSUME NEW s \in Seq(Answer), NEW t \in Seq(Answer)
    PROVE  ToSet(Calls(s)) \subseteq ToSet(Calls(s \o t))
<1>1. \A i \in DOMAIN s : i \in DOMAIN (s \o t) /\ (s \o t)[i] = s[i]
  BY ConcatAnswers, AnswerSeq
<1> QED BY <1>1 DEF ToSet, Calls

LEMMA MoreKinds ==
    ASSUME NEW cs, NEW ans \in Seq(Answer), NEW more \in Seq(Answer), NEW ops, Kinds(cs, ans, ops),
           \A i \in 1 .. Len(more) : more[i].call \in DOMAIN cs /\ cs[more[i].call].op \in ops
    PROVE  Kinds(cs, ans \o more, ops)
BY ConcatAnswers, AnswerSeq DEF Kinds

\* Answers to the first of the buffers.
LEMMA LinesBuffers ==
    ASSUME NEW cs, NEW ans \in Seq(Answer), NEW more \in Seq(Answer),
           NEW line \in Seq(Call), NEW rest \in Seq(Call), NEW polls, NEW cb, NEW a, NEW b, NEW c, a # b, a # c,
           Lines(cs, ans, line, polls, cb, a, b, c), Leads(more, line, rest)
    PROVE  /\ Lines(cs, ans \o more, rest, polls, cb, a, b, c)
           /\ Kinds(cs, more, {a})
<1>1. InLine(cs, ans \o more, rest, a)
  BY AnswerLine DEF Lines
<1>2. \A i \in 1 .. Len(more) : more[i].call \in DOMAIN cs /\ cs[more[i].call].op = a
  <2>1. /\ Len(line) \in Nat /\ DOMAIN line = 1 .. Len(line)
        /\ Len(more) \in Nat /\ Len(rest) \in Nat
    BY CallSeq, AnswerSeq
  <2>2. \A i \in 1 .. Len(more) : i \in DOMAIN line /\ more[i].call = line[i]
    BY <2>1 DEF Leads
  <2>3. \A i \in DOMAIN line : line[i] \in DOMAIN cs /\ cs[line[i]].op = a
    BY DEF Lines, InLine
  <2> QED BY <2>2, <2>3
<1>3. InLine(cs, ans \o more, polls, b) /\ InLine(cs, ans \o more, Waiting(cb), c)
  BY <1>2, OtherLine DEF Lines
<1>4. Kinds(cs, ans \o more, {a, b, c})
  BY <1>2, MoreKinds DEF Lines
<1>5. Kinds(cs, more, {a})
  BY <1>2, AnswerSeq DEF Kinds
<1> QED BY <1>1, <1>3, <1>4, <1>5 DEF Lines

\* Answers to all polls.
LEMMA LinesPolls ==
    ASSUME NEW cs, NEW ans \in Seq(Answer), NEW more \in Seq(Answer),
           NEW line, NEW polls \in Seq(Call), NEW cb, NEW a, NEW b, NEW c, b # a, b # c,
           Lines(cs, ans, line, polls, cb, a, b, c), Leads(more, polls, <<>>)
    PROVE  /\ Lines(cs, ans \o more, line, <<>>, cb, a, b, c)
           /\ Kinds(cs, more, {b})
<1>0. <<>> \in Seq(Call) /\ Len(<<>>) = 0 /\ Len(more) \in Nat
  BY EmptySeq, AnswerSeq
<1>1. InLine(cs, ans \o more, <<>>, b)
  <2> DEFINE none == <<>>
  <2>1. none \in Seq(Call) /\ Len(none) = 0
    BY <1>0
  <2> HIDE DEF none
  <2>2. InLine(cs, ans, polls, b) /\ Leads(more, polls, none)
    BY DEF Lines, none
  <2>4. InLine(cs, ans \o more, none, b)
    BY <2>1, <2>2, AnswerLine
  <2> QED BY <2>4 DEF none
<1>2. \A i \in 1 .. Len(more) : more[i].call \in DOMAIN cs /\ cs[more[i].call].op = b
  <2>1. Len(polls) = Len(more) /\ \A i \in 1 .. Len(more) : more[i].call = polls[i]
    BY <1>0 DEF Leads
  <2> QED BY <2>1, CallSeq DEF Lines, InLine
<1>3. InLine(cs, ans \o more, line, a) /\ InLine(cs, ans \o more, Waiting(cb), c)
  BY <1>2, OtherLine DEF Lines
<1>4. Kinds(cs, ans \o more, {a, b, c})
  BY <1>2, MoreKinds DEF Lines
<1>5. Kinds(cs, more, {b})
  BY <1>2, AnswerSeq DEF Kinds
<1> QED BY <1>1, <1>3, <1>4, <1>5 DEF Lines

\* The answer to an accept or a connect.
LEMMA LinesWaiting ==
    ASSUME NEW cs, NEW ans \in Seq(Answer), NEW x \in Answer,
           NEW line, NEW polls, NEW cb \in Call, NEW a, NEW b, NEW c, c # a, c # b,
           Lines(cs, ans, line, polls, cb, a, b, c), x.call = cb
    PROVE  /\ Lines(cs, ans \o <<x>>, line, polls, NoCall, a, b, c)
           /\ cb \in DOMAIN cs /\ cs[cb].op = c
<1>0. <<x>> \in Seq(Answer) /\ Len(<<x>>) = 1 /\ <<x>>[1] = x
  OBVIOUS
<1>1. Waiting(cb) = <<cb>> /\ Waiting(NoCall) = <<>>
  BY ChannelAssumption DEF Waiting, NoCall, Call
<1>2. <<cb>> \in Seq(Call) /\ Len(<<cb>>) = 1 /\ <<cb>>[1] = cb /\ <<>> \in Seq(Call) /\ Len(<<>>) = 0
      /\ DOMAIN <<cb>> = 1 .. 1
  OBVIOUS
<1> DEFINE more == <<x>>
<1>3. more \in Seq(Answer) /\ Len(more) = 1 /\ more[1] = x
  BY <1>0
<1> HIDE DEF more
<1>4. InLine(cs, ans, <<cb>>, c)
  BY <1>1 DEF Lines
<1>5. InLine(cs, ans \o more, <<>>, c)
  <2> DEFINE none == <<>>
             one == <<cb>>
  <2>1. /\ none \in Seq(Call) /\ Len(none) = 0
        /\ one \in Seq(Call) /\ Len(one) = 1 /\ one[1] = cb /\ InLine(cs, ans, one, c)
    BY <1>2, <1>4
  <2> HIDE DEF none, one
  <2>2. Leads(more, one, none)
    BY <1>3, <2>1 DEF Leads
  <2>3. InLine(cs, ans \o more, none, c)
    BY <1>3, <2>1, <2>2, AnswerLine
  <2> QED BY <2>3 DEF none
<1>6. cb \in DOMAIN cs /\ cs[cb].op = c
  BY <1>2, <1>4 DEF InLine
<1>7. \A i \in 1 .. Len(more) : more[i].call = cb
  BY <1>3
<1>8. InLine(cs, ans \o more, line, a) /\ InLine(cs, ans \o more, polls, b)
  BY <1>6, <1>7, <1>3, OtherLine DEF Lines
<1>9. Kinds(cs, ans \o more, {a, b, c})
  BY <1>6, <1>7, <1>3, MoreKinds DEF Lines
<1>10. Lines(cs, ans \o more, line, polls, NoCall, a, b, c)
  BY <1>1, <1>5, <1>8, <1>9 DEF Lines
<1> QED BY <1>6, <1>10 DEF more

\* A new call, of one of the operations or of another.
LEMMA LinesCall ==
    ASSUME NEW cs \in Seq(Operation), NEW o \in Operation, NEW ans \in Seq(Answer),
           NEW line \in Seq(Call), NEW polls \in Seq(Call), NEW cb, Waiting(cb) \in Seq(Call),
           NEW a, NEW b, NEW c, a # b, a # c, b # c,
           Lines(cs, ans, line, polls, cb, a, b, c), Len(cs) < MaxCalls
    PROVE  LET new == Append(cs, o)
               call == Len(cs) + 1 IN
           /\ o.op = a => Lines(new, ans, Append(line, call), polls, cb, a, b, c)
           /\ o.op = b => Lines(new, ans, line, Append(polls, call), cb, a, b, c)
           /\ o.op = c /\ cb = NoCall => Lines(new, ans, line, polls, call, a, b, c)
           /\ o.op \notin {a, b, c} => Lines(new, ans, line, polls, cb, a, b, c)
<1> DEFINE new == Append(cs, o)
           call == Len(cs) + 1
<1>1. \A i \in DOMAIN ans : ans[i].call \in DOMAIN cs
  BY DEF Lines, Kinds
<1>2. /\ Len(cs) \in Nat /\ DOMAIN cs = 1 .. Len(cs) /\ DOMAIN new = 1 .. Len(cs) + 1
      /\ \A k \in 1 .. Len(cs) : new[k] = cs[k]
  BY LenProperties, AppendProperties
<1>3. Kinds(new, ans, {a, b, c})
  BY <1>1, <1>2 DEF Lines, Kinds
<1>4. /\ o.op = a => InLine(new, ans, Append(line, call), a)
      /\ o.op # a => InLine(new, ans, line, a)
      /\ o.op = b => InLine(new, ans, Append(polls, call), b)
      /\ o.op # b => InLine(new, ans, polls, b)
      /\ o.op = c => InLine(new, ans, Append(Waiting(cb), call), c)
      /\ o.op # c => InLine(new, ans, Waiting(cb), c)
  BY <1>1, NewInLine DEF Lines
<1>5. cb = NoCall => Append(Waiting(cb), call) = Waiting(call)
  <2>1. call # NoCall
    BY <1>2 DEF NoCall
  <2> QED BY <2>1 DEF Waiting
<1> HIDE DEF new, call
<1>6. o.op = a => Lines(new, ans, Append(line, call), polls, cb, a, b, c)
  BY <1>3, <1>4 DEF Lines
<1>7. o.op = b => Lines(new, ans, line, Append(polls, call), cb, a, b, c)
  BY <1>3, <1>4 DEF Lines
<1>8. o.op = c /\ cb = NoCall => Lines(new, ans, line, polls, call, a, b, c)
  BY <1>3, <1>4, <1>5 DEF Lines
<1>9. o.op \notin {a, b, c} => Lines(new, ans, line, polls, cb, a, b, c)
  BY <1>3, <1>4 DEF Lines
<1> QED BY <1>6, <1>7, <1>8, <1>9 DEF new, call

--------------------------------------------------------------------------------
\* Answers

LEMMA Sizes == /\ MaxLength \in Nat /\ MaxLength >= 1 /\ MaxCalls \in Nat /\ Space \in Nat /\ Space >= 1
               /\ MaxIn \in Nat /\ MaxDrains \in Nat
               /\ Failed = -1 /\ Again = -2 /\ NoCall = 0 /\ NoCall \notin Call
               /\ \A n \in 1 .. MaxLength : n \in Failed .. MaxLength
               /\ 0 \in Failed .. MaxLength /\ 1 \in Failed .. MaxLength /\ Failed \in Failed .. MaxLength
BY ChannelAssumption DEF Failed, Again, NoCall, Call

LEMMA AnsweredType ==
    ASSUME NEW bufs \in Seq(Buffer), NEW n \in Failed .. MaxLength
    PROVE  /\ Answered(bufs, n) \in Seq(Answer) /\ Len(Answered(bufs, n)) = Len(bufs)
           /\ \A i \in 1 .. Len(bufs) : Answered(bufs, n)[i].call = bufs[i].call /\ Answered(bufs, n)[i].n = n
<1>1. Answered(bufs, n) = [i \in 1 .. Len(bufs) |-> [call |-> bufs[i].call, n |-> n]]
  BY BufferSeq DEF Answered
<1>2. \A i \in 1 .. Len(bufs) : [call |-> bufs[i].call, n |-> n] \in Answer
  BY BufferSeq DEF Answer
<1> QED BY <1>1, <1>2, BufferSeq

LEMMA InFullType ==
    ASSUME NEW bufs \in Seq(Buffer)
    PROVE  /\ InFull(bufs) \in Seq(Answer) /\ Len(InFull(bufs)) = Len(bufs)
           /\ \A i \in 1 .. Len(bufs) : InFull(bufs)[i].call = bufs[i].call /\ InFull(bufs)[i].n = bufs[i].len
<1>1. InFull(bufs) = [i \in 1 .. Len(bufs) |-> [call |-> bufs[i].call, n |-> bufs[i].len]]
  BY BufferSeq DEF InFull
<1>2. \A i \in 1 .. Len(bufs) : [call |-> bufs[i].call, n |-> bufs[i].len] \in Answer
  BY BufferSeq, Sizes DEF Answer
<1> QED BY <1>1, <1>2, BufferSeq

LEMMA PolledType ==
    ASSUME NEW polls \in Seq(Call), NEW n \in Failed .. MaxLength
    PROVE  /\ Polled(polls, n) \in Seq(Answer) /\ Len(Polled(polls, n)) = Len(polls)
           /\ \A i \in 1 .. Len(polls) : Polled(polls, n)[i].call = polls[i] /\ Polled(polls, n)[i].n = n
<1>1. Polled(polls, n) = [i \in 1 .. Len(polls) |-> [call |-> polls[i], n |-> n]]
  BY CallSeq DEF Polled
<1>2. \A i \in 1 .. Len(polls) : [call |-> polls[i], n |-> n] \in Answer
  BY CallSeq DEF Answer
<1> QED BY <1>1, <1>2, CallSeq

LEMMA CallsType ==
    ASSUME NEW bufs \in Seq(Buffer)
    PROVE  /\ Calls(bufs) \in Seq(Call) /\ Len(Calls(bufs)) = Len(bufs)
           /\ \A i \in 1 .. Len(bufs) : Calls(bufs)[i] = bufs[i].call
<1>1. Calls(bufs) = [i \in 1 .. Len(bufs) |-> bufs[i].call]
  BY BufferSeq DEF Calls
<1> QED BY <1>1, BufferSeq

LEMMA ConcatBuffers ==
    ASSUME NEW s \in Seq(Buffer), NEW t \in Seq(Buffer)
    PROVE  /\ s \o t \in Seq(Buffer) /\ Len(s \o t) = Len(s) + Len(t)
           /\ \A i \in 1 .. Len(s) + Len(t) : (s \o t)[i] = IF i <= Len(s) THEN s[i] ELSE t[i - Len(s)]
           /\ Calls(s \o t) \in Seq(Call) /\ Len(Calls(s \o t)) = Len(s) + Len(t)
           /\ \A i \in 1 .. Len(s) : Calls(s \o t)[i] = s[i].call
           /\ \A i \in 1 .. Len(t) : Calls(s \o t)[Len(s) + i] = t[i].call
<1>1. s \o t \in Seq(Buffer) /\ Len(s \o t) = Len(s) + Len(t)
      /\ \A i \in 1 .. Len(s) + Len(t) : (s \o t)[i] = IF i <= Len(s) THEN s[i] ELSE t[i - Len(s)]
  BY ConcatProperties
<1>2. Calls(s \o t) \in Seq(Call) /\ Len(Calls(s \o t)) = Len(s) + Len(t)
      /\ \A i \in 1 .. Len(s) + Len(t) : Calls(s \o t)[i] = (s \o t)[i].call
  BY <1>1, CallsType
<1>3. Len(s) \in Nat /\ Len(t) \in Nat
  BY BufferSeq
<1>4. \A i \in 1 .. Len(s) : Calls(s \o t)[i] = s[i].call
  BY <1>1, <1>2, <1>3
<1>5. ASSUME NEW i \in 1 .. Len(t) PROVE Calls(s \o t)[Len(s) + i] = t[i].call
  <2>1. Len(s) + i \in 1 .. Len(s) + Len(t) /\ ~(Len(s) + i <= Len(s)) /\ (Len(s) + i) - Len(s) = i
    BY <1>3
  <2> QED BY <2>1, <1>1, <1>2
<1> QED BY <1>1, <1>2, <1>4, <1>5

Counts(s) == [i \in DOMAIN s |-> s[i].n]

LEMMA CountsType ==
    ASSUME NEW s \in Seq(Answer)
    PROVE  /\ Counts(s) \in Seq(Int) /\ Len(Counts(s)) = Len(s)
           /\ DOMAIN Counts(s) = 1 .. Len(s)
           /\ \A i \in 1 .. Len(s) : Counts(s)[i] = s[i].n
           /\ Taken(s) = Total(Counts(s)) /\ Taken(s) \in Nat
<1>1. Counts(s) = [i \in 1 .. Len(s) |-> s[i].n]
  BY AnswerSeq DEF Counts
<1>2. \A i \in 1 .. Len(s) : s[i].n \in Int
  BY AnswerSeq, Sizes
<1>3. Counts(s) \in Seq(Int) /\ Len(Counts(s)) = Len(s)
  BY <1>1, <1>2, AnswerSeq
<1>4. Taken(s) = Total(Counts(s))
  BY DEF Taken, Counts
<1> QED BY <1>1, <1>3, <1>4, TotalType

LEMMA TakenConcat ==
    ASSUME NEW s \in Seq(Answer), NEW t \in Seq(Answer)
    PROVE  Taken(s \o t) = Taken(s) + Taken(t)
<1>0. /\ Counts(s) \in Seq(Int) /\ Counts(t) \in Seq(Int)
      /\ Len(Counts(s)) = Len(s) /\ Len(Counts(t)) = Len(t) /\ Len(s) \in Nat /\ Len(t) \in Nat
      /\ \A i \in 1 .. Len(s) : Counts(s)[i] = s[i].n
      /\ \A i \in 1 .. Len(t) : Counts(t)[i] = t[i].n
  BY CountsType, AnswerSeq
<1>1. s \o t \in Seq(Answer) /\ Len(s \o t) = Len(s) + Len(t)
      /\ \A i \in 1 .. Len(s) + Len(t) : (s \o t)[i] = IF i <= Len(s) THEN s[i] ELSE t[i - Len(s)]
  BY ConcatProperties
<1>2. Counts(s \o t) \in Seq(Int) /\ Len(Counts(s \o t)) = Len(s) + Len(t)
      /\ \A i \in 1 .. Len(s) + Len(t) : Counts(s \o t)[i] = (s \o t)[i].n
  BY <1>1, CountsType
<1>3. Counts(s) \o Counts(t) \in Seq(Int) /\ Len(Counts(s) \o Counts(t)) = Len(s) + Len(t)
      /\ \A i \in 1 .. Len(s) + Len(t) :
            (Counts(s) \o Counts(t))[i] = IF i <= Len(s) THEN Counts(s)[i] ELSE Counts(t)[i - Len(s)]
  <2> DEFINE a == Counts(s)
             b == Counts(t)
  <2>1. a \in Seq(Int) /\ b \in Seq(Int) /\ Len(a) = Len(s) /\ Len(b) = Len(t)
    BY <1>0
  <2> HIDE DEF a, b
  <2>2. a \o b \in Seq(Int) /\ Len(a \o b) = Len(a) + Len(b)
        /\ \A i \in 1 .. Len(a) + Len(b) : (a \o b)[i] = IF i <= Len(a) THEN a[i] ELSE b[i - Len(a)]
    BY <2>1, ConcatProperties
  <2>3. a \o b \in Seq(Int) /\ Len(a \o b) = Len(s) + Len(t)
        /\ \A i \in 1 .. Len(s) + Len(t) : (a \o b)[i] = IF i <= Len(s) THEN a[i] ELSE b[i - Len(s)]
    BY <2>1, <2>2
  <2> QED BY <2>3 DEF a, b
<1>4. ASSUME NEW i \in 1 .. Len(s) + Len(t) PROVE Counts(s \o t)[i] = (Counts(s) \o Counts(t))[i]
  <2>1. i <= Len(s) => i \in 1 .. Len(s)
    BY <1>0
  <2>2. ~(i <= Len(s)) => i - Len(s) \in 1 .. Len(t)
    BY <1>0
  <2> QED BY <2>1, <2>2, <1>0, <1>1, <1>2, <1>3
<1>5. Counts(s \o t) = Counts(s) \o Counts(t)
  BY <1>2, <1>3, <1>4, SeqEqual
<1> QED BY <1>0, <1>1, <1>5, CountsType, TotalConcat

LEMMA TakenNone ==
    ASSUME NEW s \in Seq(Answer), \A i \in 1 .. Len(s) : s[i].n <= 0
    PROVE  Taken(s) = 0
<1>1. DOMAIN Counts(s) = 1 .. Len(s) /\ \A i \in 1 .. Len(s) : Counts(s)[i] \in Int /\ Counts(s)[i] <= 0
  BY CountsType, AnswerSeq, Sizes
<1>2. \A i \in DOMAIN Counts(s) : 1 .. Counts(s)[i] = {}
  BY <1>1
<1>3. Cells(Counts(s)) = {}
  BY <1>2 DEF Cells, Cell
<1> QED BY <1>3, CountsType, TotalType, FS_EmptySet

LEMMA TakenFull ==
    ASSUME NEW bufs \in Seq(Buffer)
    PROVE  Taken(InFull(bufs)) = Bytes(bufs)
<1>1. Counts(InFull(bufs)) = Lens(bufs)
  BY CountsType, LensType, InFullType, SeqEqual
<1> QED BY <1>1, InFullType, CountsType, LensType

LEMMA TakenOne ==
    ASSUME NEW x \in Answer
    PROVE  <<x>> \in Seq(Answer) /\ Taken(<<x>>) = IF x.n > 0 THEN x.n ELSE 0
<1>1. <<x>> \in Seq(Answer) /\ Len(<<x>>) = 1 /\ <<x>>[1] = x /\ DOMAIN <<x>> = 1 .. 1
  OBVIOUS
<1>2. Counts(<<x>>) = <<x.n>>
  BY <1>1 DEF Counts
<1>3. x.n \in Int
  BY Sizes DEF Answer
<1> QED BY <1>1, <1>2, <1>3, CountsType, TotalOne

\* What is left of a batch, with the pending ones behind it.
LEMMA RestLine ==
    ASSUME NEW bufs \in Seq(Buffer), NEW rest \in Seq(Buffer), NEW pend \in Seq(Buffer), NEW more \in Seq(Answer),
           Leads(more, Calls(bufs), Calls(rest))
    PROVE  Leads(more, Calls(bufs \o pend), Calls(rest \o pend))
<1> DEFINE k == Len(more)
<1>0. /\ k \in Nat /\ Len(bufs) = k + Len(rest)
      /\ \A i \in 1 .. k : more[i].call = bufs[i].call
      /\ \A i \in 1 .. Len(rest) : rest[i].call = bufs[k + i].call
  <2>1. Len(more) \in Nat /\ Len(rest) \in Nat /\ Len(bufs) = Len(more) + Len(rest)
    BY AnswerSeq, BufferSeq, CallsType DEF Leads
  <2>2. \A i \in 1 .. k : i \in 1 .. Len(bufs)
    BY <2>1
  <2>3. \A i \in 1 .. Len(rest) : k + i \in 1 .. Len(bufs)
    BY <2>1
  <2>4. /\ \A i \in 1 .. Len(bufs) : Calls(bufs)[i] = bufs[i].call
        /\ \A i \in 1 .. Len(rest) : Calls(rest)[i] = rest[i].call
        /\ Len(Calls(rest)) = Len(rest)
    BY CallsType
  <2>5. \A i \in 1 .. k : more[i].call = bufs[i].call
    BY <2>2, <2>4 DEF Leads
  <2>6. \A i \in 1 .. Len(rest) : rest[i].call = bufs[k + i].call
    BY <2>3, <2>4 DEF Leads
  <2> QED BY <2>1, <2>5, <2>6
<1> DEFINE line == Calls(bufs \o pend)
           left == Calls(rest \o pend)
<1>1. /\ line \in Seq(Call) /\ Len(line) = Len(bufs) + Len(pend)
      /\ \A i \in 1 .. Len(bufs) : line[i] = bufs[i].call
      /\ \A i \in 1 .. Len(pend) : line[Len(bufs) + i] = pend[i].call
  BY ConcatBuffers
<1>2. /\ left \in Seq(Call) /\ Len(left) = Len(rest) + Len(pend)
      /\ \A i \in 1 .. Len(rest) : left[i] = rest[i].call
      /\ \A i \in 1 .. Len(pend) : left[Len(rest) + i] = pend[i].call
  BY ConcatBuffers
<1>3. Len(bufs) \in Nat /\ Len(rest) \in Nat /\ Len(pend) \in Nat
  BY BufferSeq
<1> HIDE DEF line, left, k
<1>4. \A i \in 1 .. k : more[i].call = line[i]
  BY <1>0, <1>1, <1>3
<1>5. ASSUME NEW i \in 1 .. Len(left) PROVE left[i] = line[k + i]
  <2>1. CASE i <= Len(rest)
    <3>1. i \in 1 .. Len(rest) /\ k + i \in 1 .. Len(bufs)
      BY <1>0, <1>3, <2>1
    <3> QED BY <3>1, <1>0, <1>1, <1>2
  <2>2. CASE i > Len(rest)
    <3> DEFINE j == i - Len(rest)
    <3>1. j \in 1 .. Len(pend) /\ Len(rest) + j = i /\ Len(bufs) + j = k + i
      BY <1>0, <1>2, <1>3, <2>2
    <3> HIDE DEF j
    <3>2. left[Len(rest) + j] = pend[j].call /\ line[Len(bufs) + j] = pend[j].call
      BY <3>1, <1>0, <1>1, <1>2
    <3> QED BY <3>1, <3>2
  <2> QED BY <2>1, <2>2, <1>2, <1>3
<1>6. Len(line) = k + Len(left)
  BY <1>0, <1>1, <1>2, <1>3
<1>7. Leads(more, line, left)
  BY <1>4, <1>5, <1>6 DEF Leads, k
<1> QED BY <1>7 DEF line, left

--------------------------------------------------------------------------------
\* The reading half

Reader == [ready : BOOLEAN, bufs : Seq(Buffer), pend : Seq(Buffer), polls : Seq(Call),
           acceptCb : Call \cup {NoCall}, avail : Nat, arrived : Nat, end : {"open", "closed", "reset"},
           answers : Seq(Answer), short : BOOLEAN, aborted : Nat]

\* A read was told of the end only when the end was there and nothing before it.
Ended(cs, o) ==
    \A i \in DOMAIN o.answers :
        cs[o.answers[i].call].op = "read" /\ o.answers[i].n = 0 => o.end # "open" /\ o.avail = 0

ReaderInv(cs, o) ==
    /\ o \in Reader
    /\ Lines(cs, o.answers, Calls(Buffers(o)), o.polls, o.acceptCb, "read", "pollRead", "accept")
    /\ Taken(o.answers) + o.aborted = o.arrived - o.avail
    /\ Ended(cs, o)

\* Nothing but the reads of a half differs.
SameButReads(o, p) ==
    p.polls = o.polls /\ p.acceptCb = o.acceptCb /\ p.arrived = o.arrived /\ p.end = o.end /\ p.aborted = o.aborted

LEMMA ReaderFields ==
    ASSUME NEW o \in Reader
    PROVE  /\ o.ready \in BOOLEAN /\ o.bufs \in Seq(Buffer) /\ o.pend \in Seq(Buffer) /\ o.polls \in Seq(Call)
           /\ o.acceptCb \in Call \cup {NoCall} /\ o.avail \in Nat /\ o.arrived \in Nat
           /\ o.end \in {"open", "closed", "reset"} /\ o.answers \in Seq(Answer)
           /\ o.short \in BOOLEAN /\ o.aborted \in Nat
           /\ Waiting(o.acceptCb) \in Seq(Call)
BY DEF Reader, Waiting

\* Answers to the first of the buffers, that took what is missing.
LEMMA ReadsAnswered ==
    ASSUME NEW cs, NEW o, ReaderInv(cs, o), NEW p \in Reader, SameButReads(o, p), p.pend = o.pend,
           NEW more \in Seq(Answer), p.answers = o.answers \o more,
           Leads(more, Calls(o.bufs), Calls(p.bufs)),
           p.avail <= o.avail, Taken(more) = o.avail - p.avail,
           \A i \in 1 .. Len(more) : more[i].n = 0 => p.end # "open" /\ p.avail = 0
    PROVE  ReaderInv(cs, p)
<1> DEFINE line == Calls(Buffers(o))
           left == Calls(Buffers(p))
<1>0. o \in Reader
  BY DEF ReaderInv
<1>1. line \in Seq(Call) /\ left \in Seq(Call) /\ Leads(more, line, left)
  <2>1. o.bufs \in Seq(Buffer) /\ o.pend \in Seq(Buffer) /\ p.bufs \in Seq(Buffer)
    BY <1>0, ReaderFields
  <2>2. line = Calls(o.bufs \o o.pend) /\ left = Calls(p.bufs \o o.pend)
    BY DEF Buffers
  <2> QED BY <2>1, <2>2, RestLine, ConcatBuffers
<1> HIDE DEF line, left
<1>2. Lines(cs, o.answers, line, o.polls, o.acceptCb, "read", "pollRead", "accept")
  BY DEF ReaderInv, line
<1>3. /\ Lines(cs, p.answers, left, p.polls, p.acceptCb, "read", "pollRead", "accept")
      /\ Kinds(cs, more, {"read"})
  <2>1. o.answers \in Seq(Answer)
    BY <1>0, ReaderFields
  <2>3. /\ Lines(cs, o.answers \o more, left, o.polls, o.acceptCb, "read", "pollRead", "accept")
        /\ Kinds(cs, more, {"read"})
    BY <1>1, <1>2, <2>1, LinesBuffers
  <2> QED BY <2>3 DEF SameButReads
<1>4. Taken(p.answers) + p.aborted = p.arrived - p.avail
  <2>1. Taken(p.answers) = Taken(o.answers) + Taken(more) /\ Taken(o.answers) \in Nat
    BY <1>0, ReaderFields, TakenConcat, CountsType
  <2>2. Taken(o.answers) + o.aborted = o.arrived - o.avail
    BY DEF ReaderInv
  <2>3. o.avail \in Nat /\ p.avail \in Nat /\ o.arrived \in Nat /\ o.aborted \in Nat
        /\ p.arrived = o.arrived /\ p.aborted = o.aborted
    BY <1>0, ReaderFields DEF SameButReads
  <2>4. Taken(more) = o.avail - p.avail
    OBVIOUS
  <2> QED BY ONLY <2>1, <2>2, <2>3, <2>4
<1>5. Ended(cs, p)
  <2> SUFFICES ASSUME NEW i \in DOMAIN p.answers, p.answers[i].n = 0, cs[p.answers[i].call].op = "read"
               PROVE  p.end # "open" /\ p.avail = 0
    BY DEF Ended
  <2>1. /\ o.answers \in Seq(Answer) /\ o.avail \in Nat /\ p.avail \in Nat
        /\ DOMAIN o.answers = 1 .. Len(o.answers)
    BY <1>0, ReaderFields, AnswerSeq
  <2>2. CASE i \in 1 .. Len(o.answers) /\ p.answers[i] = o.answers[i]
    <3>1. o.end # "open" /\ o.avail = 0
      BY <2>1, <2>2 DEF ReaderInv, Ended
    <3> QED BY <2>1, <3>1 DEF SameButReads
  <2>3. CASE i - Len(o.answers) \in 1 .. Len(more) /\ p.answers[i] = more[i - Len(o.answers)]
    BY <2>3
  <2> QED BY <2>1, <2>2, <2>3, ConcatAnswers
<1> QED BY <1>3, <1>4, <1>5 DEF ReaderInv, left

\* Answers to others than reads.
LEMMA EndedMore ==
    ASSUME NEW cs, NEW o \in Reader, Ended(cs, o), NEW p \in Reader,
           NEW more \in Seq(Answer), p.answers = o.answers \o more,
           \A i \in 1 .. Len(more) : cs[more[i].call].op # "read",
           p.end = o.end, p.avail <= o.avail
    PROVE  Ended(cs, p)
<1> SUFFICES ASSUME NEW i \in DOMAIN p.answers, p.answers[i].n = 0, cs[p.answers[i].call].op = "read"
             PROVE  p.end # "open" /\ p.avail = 0
  BY DEF Ended
<1>1. /\ o.answers \in Seq(Answer) /\ o.avail \in Nat /\ p.avail \in Nat
      /\ DOMAIN o.answers = 1 .. Len(o.answers)
  BY ReaderFields, AnswerSeq
<1>2. i \in DOMAIN o.answers /\ p.answers[i] = o.answers[i]
  BY <1>1, ConcatAnswers
<1>3. o.end # "open" /\ o.avail = 0
  BY <1>2 DEF Ended
<1> QED BY <1>1, <1>3

--------------------------------------------------------------------------------
\* What each half answers

LEMMA NoBuffers == <<>> \in Seq(Buffer) /\ Len(<<>>) = 0 /\ Calls(<<>>) = <<>> /\ Bytes(<<>>) = 0
<1>1. <<>> \in Seq(Buffer) /\ Len(<<>>) = 0
  BY EmptySeq
<1>2. Calls(<<>>) = <<>> /\ Lens(<<>>) = <<>>
  BY DEF Calls, Lens
<1> QED BY <1>1, <1>2, LensType, TotalEmpty

LEMMA Slice ==
    ASSUME NEW bufs \in Seq(Buffer), NEW j \in 1 .. Len(bufs) + 1, NEW k \in 0 .. Len(bufs), j <= k + 1
    PROVE  LET part == SubSeq(bufs, j, k) IN
           /\ part \in Seq(Buffer) /\ Len(part) = k - j + 1
           /\ \A i \in 1 .. k - j + 1 : part[i] = bufs[j + i - 1]
<1>1. Len(bufs) \in Nat /\ \A i \in j .. k : bufs[i] \in Buffer
  BY BufferSeq
<1>2. j \in Int /\ k \in Int
  BY <1>1
<1>3. /\ SubSeq(bufs, j, k) \in Seq(Buffer)
      /\ Len(SubSeq(bufs, j, k)) = IF j <= k THEN k - j + 1 ELSE 0
      /\ \A i \in 1 .. k - j + 1 : SubSeq(bufs, j, k)[i] = bufs[j + i - 1]
  BY <1>1, <1>2, SubSeqProperties
<1> QED BY <1>1, <1>3

LEMMA AllLead ==
    ASSUME NEW bufs \in Seq(Buffer), NEW n \in Failed .. MaxLength
    PROVE  Leads(Answered(bufs, n), Calls(bufs), <<>>)
<1>1. /\ Len(Calls(bufs)) = Len(bufs) /\ Len(Answered(bufs, n)) = Len(bufs) /\ Len(bufs) \in Nat
      /\ \A i \in 1 .. Len(bufs) : Calls(bufs)[i] = bufs[i].call /\ Answered(bufs, n)[i].call = bufs[i].call
  BY CallsType, AnsweredType, BufferSeq
<1>2. Len(<<>>) = 0
  OBVIOUS
<1> QED BY <1>1, <1>2 DEF Leads

LEMMA PollsLead ==
    ASSUME NEW polls \in Seq(Call), NEW n \in Failed .. MaxLength
    PROVE  Leads(Polled(polls, n), polls, <<>>)
<1>1. /\ Len(Polled(polls, n)) = Len(polls) /\ Len(polls) \in Nat
      /\ \A i \in 1 .. Len(polls) : Polled(polls, n)[i].call = polls[i]
  BY PolledType, CallSeq
<1>2. Len(<<>>) = 0
  OBVIOUS
<1> QED BY <1>1, <1>2 DEF Leads

\* The first d buffers are answered in full.
LEMMA FullLead ==
    ASSUME NEW bufs \in Seq(Buffer), NEW rest \in Seq(Buffer), NEW d \in 0 .. Len(bufs),
           Len(rest) = Len(bufs) - d, \A i \in 1 .. Len(rest) : rest[i].call = bufs[d + i].call
    PROVE  /\ InFull(SubSeq(bufs, 1, d)) \in Seq(Answer) /\ Len(InFull(SubSeq(bufs, 1, d))) = d
           /\ \A i \in 1 .. d : /\ InFull(SubSeq(bufs, 1, d))[i].call = bufs[i].call
                                /\ InFull(SubSeq(bufs, 1, d))[i].n = bufs[i].len
           /\ Leads(InFull(SubSeq(bufs, 1, d)), Calls(bufs), Calls(rest))
<1> DEFINE part == SubSeq(bufs, 1, d)
           more == InFull(part)
<1>0. Len(bufs) \in Nat /\ d \in Nat
  BY BufferSeq
<1>1. part \in Seq(Buffer) /\ Len(part) = d /\ \A i \in 1 .. d : part[i] = bufs[i]
  <2>1. 1 \in 1 .. Len(bufs) + 1 /\ 1 <= d + 1 /\ d - 1 + 1 = d
    BY <1>0
  <2>2. /\ part \in Seq(Buffer) /\ Len(part) = d - 1 + 1
        /\ \A i \in 1 .. d - 1 + 1 : part[i] = bufs[1 + i - 1]
    BY <2>1, Slice
  <2>3. \A i \in 1 .. d : 1 + i - 1 = i
    BY <1>0
  <2> QED BY <2>1, <2>2, <2>3
<1> HIDE DEF part
<1>2. more \in Seq(Answer) /\ Len(more) = d
      /\ \A i \in 1 .. d : more[i].call = bufs[i].call /\ more[i].n = bufs[i].len
  BY ZenonT(60), <1>1, InFullType
<1> HIDE DEF more
<1>3. Leads(more, Calls(bufs), Calls(rest))
  <2>1. /\ Len(Calls(bufs)) = Len(bufs) /\ Len(Calls(rest)) = Len(rest)
        /\ \A i \in 1 .. Len(bufs) : Calls(bufs)[i] = bufs[i].call
        /\ \A i \in 1 .. Len(rest) : Calls(rest)[i] = rest[i].call
    BY CallsType
  <2>2. \A i \in 1 .. d : i \in 1 .. Len(bufs)
    BY <1>0
  <2>3. \A i \in 1 .. Len(rest) : d + i \in 1 .. Len(bufs)
    BY <1>0
  <2> QED BY <1>0, <1>2, <2>1, <2>2, <2>3 DEF Leads
<1> QED BY <1>2, <1>3 DEF more, part

\* The first k - 1 buffers are answered in full, and the next with x.
LEMMA PartLead ==
    ASSUME NEW bufs \in Seq(Buffer), NEW k \in 1 .. Len(bufs), NEW x \in Answer, x.call = bufs[k].call
    PROVE  LET more == InFull(SubSeq(bufs, 1, k - 1)) \o <<x>>
               rest == SubSeq(bufs, k + 1, Len(bufs)) IN
           /\ more \in Seq(Answer) /\ rest \in Seq(Buffer) /\ Len(rest) = Len(bufs) - k
           /\ \A i \in 1 .. Len(more) : \/ i \in 1 .. k - 1 /\ more[i].n = bufs[i].len
                                        \/ i = k /\ more[i].n = x.n
           /\ Leads(more, Calls(bufs), Calls(rest))
           /\ Taken(more) = Upto(bufs, k - 1) + (IF x.n > 0 THEN x.n ELSE 0)
<1> DEFINE full == InFull(SubSeq(bufs, 1, k - 1))
           more == full \o <<x>>
           rest == SubSeq(bufs, k + 1, Len(bufs))
           behind == SubSeq(bufs, k, Len(bufs))
<1>0. Len(bufs) \in Nat /\ k \in Nat /\ k - 1 \in 0 .. Len(bufs)
  BY BufferSeq
<1>1. /\ rest \in Seq(Buffer) /\ Len(rest) = Len(bufs) - k
      /\ \A i \in 1 .. Len(rest) : rest[i] = bufs[k + i]
  <2>1. k + 1 \in 1 .. Len(bufs) + 1 /\ Len(bufs) \in 0 .. Len(bufs) /\ k + 1 <= Len(bufs) + 1
        /\ Len(bufs) - (k + 1) + 1 = Len(bufs) - k
    BY <1>0
  <2>2. /\ rest \in Seq(Buffer) /\ Len(rest) = Len(bufs) - (k + 1) + 1
        /\ \A i \in 1 .. Len(bufs) - (k + 1) + 1 : rest[i] = bufs[(k + 1) + i - 1]
    BY <2>1, Slice
  <2>3. \A i \in 1 .. Len(rest) : (k + 1) + i - 1 = k + i
    BY <1>0
  <2> QED BY <2>1, <2>2, <2>3
<1>2. /\ behind \in Seq(Buffer) /\ Len(behind) = Len(bufs) - (k - 1)
      /\ \A i \in 1 .. Len(behind) : behind[i] = bufs[(k - 1) + i]
  <2>1. k \in 1 .. Len(bufs) + 1 /\ Len(bufs) \in 0 .. Len(bufs) /\ k <= Len(bufs) + 1
        /\ Len(bufs) - k + 1 = Len(bufs) - (k - 1)
    BY <1>0
  <2>2. /\ behind \in Seq(Buffer) /\ Len(behind) = Len(bufs) - k + 1
        /\ \A i \in 1 .. Len(bufs) - k + 1 : behind[i] = bufs[k + i - 1]
    BY <2>1, Slice
  <2>3. \A i \in 1 .. Len(behind) : k + i - 1 = (k - 1) + i
    BY <1>0
  <2> QED BY <2>1, <2>2, <2>3
<1>3. /\ full \in Seq(Answer) /\ Len(full) = k - 1
      /\ \A i \in 1 .. k - 1 : full[i].call = bufs[i].call /\ full[i].n = bufs[i].len
  <2> HIDE DEF behind
  <2>1. \A i \in 1 .. Len(behind) : behind[i].call = bufs[(k - 1) + i].call
    BY <1>2
  <2> QED BY <1>0, <1>2, <2>1, FullLead
<1>4. <<x>> \in Seq(Answer) /\ Len(<<x>>) = 1 /\ <<x>>[1] = x
  OBVIOUS
<1>5. /\ more \in Seq(Answer) /\ Len(more) = k
      /\ \A i \in 1 .. k - 1 : more[i] = full[i]
      /\ more[k] = x
  <2> DEFINE one == <<x>>
  <2>1. one \in Seq(Answer) /\ Len(one) = 1 /\ one[1] = x
    BY <1>4
  <2> HIDE DEF one, full
  <2>2. /\ full \o one \in Seq(Answer) /\ Len(full \o one) = Len(full) + Len(one)
        /\ \A i \in 1 .. Len(full) : (full \o one)[i] = full[i]
        /\ (full \o one)[Len(full) + 1] = one[1]
    <3>1. /\ full \o one \in Seq(Answer) /\ Len(full \o one) = Len(full) + Len(one)
          /\ \A i \in 1 .. Len(full) : (full \o one)[i] = full[i]
          /\ \A i \in 1 .. Len(one) : (full \o one)[Len(full) + i] = one[i]
      BY <1>3, <2>1, ConcatAnswers
    <3>2. 1 \in 1 .. Len(one)
      BY <2>1
    <3> QED BY <3>1, <3>2
  <2>3. Len(full) + 1 = k
    BY <1>0, <1>3
  <2> QED BY <1>3, <2>1, <2>2, <2>3 DEF one
<1>6. Taken(more) = Upto(bufs, k - 1) + (IF x.n > 0 THEN x.n ELSE 0)
  <2>1. Taken(full) = Bytes(SubSeq(bufs, 1, k - 1))
    <3>1. 1 \in 1 .. Len(bufs) + 1 /\ 1 <= (k - 1) + 1
      BY <1>0
    <3>2. SubSeq(bufs, 1, k - 1) \in Seq(Buffer)
      BY <3>1, <1>0, Slice
    <3> QED BY <3>2, TakenFull
  <2>2. Taken(more) = Taken(full) + Taken(<<x>>)
    BY <1>3, <1>4, TakenConcat
  <2> QED BY <2>1, <2>2, TakenOne DEF Upto
<1> HIDE DEF more, rest, full
<1>7. \A i \in 1 .. Len(more) : \/ i \in 1 .. k - 1 /\ more[i].n = bufs[i].len
                                \/ i = k /\ more[i].n = x.n
  BY <1>0, <1>3, <1>5
<1>8. Leads(more, Calls(bufs), Calls(rest))
  <2>1. /\ Len(Calls(bufs)) = Len(bufs) /\ Len(Calls(rest)) = Len(rest)
        /\ \A i \in 1 .. Len(bufs) : Calls(bufs)[i] = bufs[i].call
        /\ \A i \in 1 .. Len(rest) : Calls(rest)[i] = rest[i].call
    BY <1>1, CallsType
  <2>2. \A i \in 1 .. k : i \in 1 .. Len(bufs)
    BY <1>0
  <2>3. \A i \in 1 .. Len(rest) : k + i \in 1 .. Len(bufs)
    BY <1>0, <1>1
  <2>4. \A i \in 1 .. k : more[i].call = bufs[i].call
    BY <1>0, <1>3, <1>5
  <2>5. Len(Calls(bufs)) = Len(more) + Len(Calls(rest))
    BY <1>0, <1>1, <1>5, <2>1
  <2>6. \A i \in 1 .. Len(more) : more[i].call = Calls(bufs)[i]
    BY <1>5, <2>1, <2>2, <2>4
  <2>7. \A i \in 1 .. Len(Calls(rest)) : Calls(rest)[i] = Calls(bufs)[Len(more) + i]
    BY SMTT(30), <1>1, <1>5, <2>1, <2>3
  <2> QED BY <2>5, <2>6, <2>7 DEF Leads
<1> QED BY <1>1, <1>5, <1>6, <1>7, <1>8 DEF more, rest, full

LEMMA ReaderPolled ==
    ASSUME NEW cs, NEW o, ReaderInv(cs, o)
    PROVE  LET p == DoPoll(o) IN
           /\ ReaderInv(cs, p) /\ p.polls = <<>>
           /\ p.ready = o.ready /\ p.bufs = o.bufs /\ p.pend = o.pend /\ p.acceptCb = o.acceptCb
           /\ p.avail = o.avail /\ p.arrived = o.arrived /\ p.end = o.end
           /\ p.short = o.short /\ p.aborted = o.aborted
           /\ ToSet(Calls(o.answers)) \subseteq ToSet(Calls(p.answers))
<1> DEFINE p == DoPoll(o)
           more == Polled(o.polls, 0)
<1>0. o \in Reader
  BY DEF ReaderInv
<1>1. /\ p.polls = <<>> /\ p.answers = o.answers \o more
      /\ p.ready = o.ready /\ p.bufs = o.bufs /\ p.pend = o.pend /\ p.acceptCb = o.acceptCb
      /\ p.avail = o.avail /\ p.arrived = o.arrived /\ p.end = o.end
      /\ p.short = o.short /\ p.aborted = o.aborted
  BY <1>0 DEF DoPoll, Reader
<1>2. /\ o.answers \in Seq(Answer) /\ o.polls \in Seq(Call)
      /\ more \in Seq(Answer) /\ Len(more) = Len(o.polls)
      /\ \A i \in 1 .. Len(more) : more[i].n = 0
      /\ Leads(more, o.polls, <<>>)
  <2>1. o.answers \in Seq(Answer) /\ o.polls \in Seq(Call)
    BY <1>0, ReaderFields
  <2> QED BY <2>1, PolledType, PollsLead, Sizes
<1>3. o.answers \o more \in Seq(Answer)
  BY <1>2, ConcatAnswers
<1>4. p \in Reader
  <2>1. p = [o EXCEPT !.polls = <<>>, !.answers = o.answers \o more]
    BY DEF DoPoll
  <2>2. <<>> \in Seq(Call)
    BY EmptySeq
  <2> HIDE DEF more, p
  <2> QED BY <1>0, <1>3, <2>1, <2>2 DEF Reader
<1> HIDE DEF p, more
<1>5. /\ Lines(cs, p.answers, Calls(Buffers(p)), p.polls, p.acceptCb, "read", "pollRead", "accept")
      /\ Kinds(cs, more, {"pollRead"})
  <2>1. Buffers(p) = Buffers(o)
    BY <1>1 DEF Buffers
  <2>2. Lines(cs, o.answers, Calls(Buffers(o)), o.polls, o.acceptCb, "read", "pollRead", "accept")
    BY DEF ReaderInv
  <2>3. /\ Lines(cs, o.answers \o more, Calls(Buffers(o)), <<>>, o.acceptCb, "read", "pollRead", "accept")
        /\ Kinds(cs, more, {"pollRead"})
    BY <1>2, <2>2, LinesPolls
  <2> QED BY <1>1, <2>1, <2>3
<1>6. Taken(p.answers) = Taken(o.answers)
  <2>1. Taken(more) = 0
    BY <1>2, TakenNone
  <2>2. Taken(o.answers \o more) = Taken(o.answers) + Taken(more)
    BY <1>2, TakenConcat
  <2>3. Taken(o.answers) \in Nat
    BY <1>2, CountsType
  <2> QED BY <1>1, <2>1, <2>2, <2>3
<1>7. Ended(cs, p)
  <2>1. \A i \in 1 .. Len(more) : cs[more[i].call].op # "read"
    BY <1>2, <1>5, AnswerSeq DEF Kinds
  <2>2. Ended(cs, o) /\ p.avail <= o.avail
    BY <1>0, <1>1, ReaderFields DEF ReaderInv
  <2> QED BY <1>0, <1>1, <1>2, <1>4, <2>1, <2>2, EndedMore
<1>8. ReaderInv(cs, p)
  BY <1>1, <1>4, <1>5, <1>6, <1>7 DEF ReaderInv
<1>9. ToSet(Calls(o.answers)) \subseteq ToSet(Calls(p.answers))
  BY <1>1, <1>2, AnswersStay
<1> QED BY <1>1, <1>8, <1>9 DEF p

LEMMA ReaderFilled ==
    ASSUME NEW cs, NEW o, ReaderInv(cs, o)
    PROVE  LET p == FillBufferAndCallback(o) IN
           /\ ReaderInv(cs, p) /\ SameButReads(o, p)
           /\ p.ready = o.ready /\ p.avail = o.avail /\ p.short = o.short /\ p.answers = o.answers
<1> DEFINE p == FillBufferAndCallback(o)
<1>0. o \in Reader /\ o.bufs \in Seq(Buffer) /\ o.pend \in Seq(Buffer)
  BY ReaderFields DEF ReaderInv
<1>1. CASE o.bufs # <<>>
  BY <1>1 DEF FillBufferAndCallback, SameButReads
<1>2. CASE o.bufs = <<>>
  <2>1. p = [o EXCEPT !.bufs = o.pend, !.pend = <<>>]
    BY <1>2 DEF FillBufferAndCallback
  <2>2. p \in Reader
    BY <1>0, <2>1, EmptySeq DEF Reader
  <2>3. /\ p.bufs = o.pend /\ p.pend = <<>>
        /\ p.polls = o.polls /\ p.ready = o.ready /\ p.acceptCb = o.acceptCb
        /\ p.avail = o.avail /\ p.arrived = o.arrived /\ p.end = o.end
        /\ p.short = o.short /\ p.aborted = o.aborted /\ p.answers = o.answers
    BY <1>0, <2>1 DEF Reader
  <2> HIDE DEF p
  <2>4. Buffers(p) = Buffers(o)
    BY <1>0, <1>2, <2>3, ConcatEmptySeq DEF Buffers
  <2>5. ReaderInv(cs, p)
    BY <2>2, <2>3, <2>4 DEF ReaderInv, Ended
  <2> QED BY <2>3, <2>5 DEF SameButReads, p
<1> QED BY <1>1, <1>2

LEMMA ReaderFailed ==
    ASSUME NEW cs, NEW o, ReaderInv(cs, o), NEW n \in {Failed, 0}, n = 0 => o.end # "open" /\ o.avail = 0
    PROVE  LET p == FailAll(o, n) IN
           /\ ReaderInv(cs, p) /\ SameButReads(o, p) /\ p.pend = o.pend /\ p.bufs = <<>>
           /\ p.ready = o.ready /\ p.avail = o.avail /\ p.short = o.short
           /\ ToSet(Calls(o.answers)) \subseteq ToSet(Calls(p.answers))
<1> DEFINE p == FailAll(o, n)
           more == Answered(o.bufs, n)
<1>0. o \in Reader /\ o.bufs \in Seq(Buffer) /\ o.answers \in Seq(Answer) /\ n \in Failed .. MaxLength /\ n <= 0
  BY ReaderFields, Sizes DEF ReaderInv
<1>1. /\ more \in Seq(Answer) /\ \A i \in 1 .. Len(more) : more[i].n = n
      /\ Leads(more, Calls(o.bufs), <<>>)
  BY <1>0, AnsweredType, AllLead
<1>2. o.answers \o more \in Seq(Answer)
  BY <1>0, <1>1, ConcatAnswers
<1>3. p = [o EXCEPT !.bufs = <<>>, !.answers = o.answers \o more]
  BY DEF FailAll
<1> HIDE DEF more, p
<1>4. p \in Reader
  BY <1>0, <1>2, <1>3, NoBuffers DEF Reader
<1>5. /\ p.bufs = <<>> /\ p.pend = o.pend /\ p.answers = o.answers \o more /\ p.avail = o.avail
      /\ p.ready = o.ready /\ p.short = o.short /\ SameButReads(o, p)
  BY <1>0, <1>3 DEF Reader, SameButReads
<1>6. ReaderInv(cs, p)
  <2>1. Leads(more, Calls(o.bufs), Calls(p.bufs))
    BY <1>1, <1>5, NoBuffers
  <2>2. p.avail <= o.avail /\ Taken(more) = o.avail - p.avail
    <3>1. o.avail \in Nat
      BY <1>0, ReaderFields
    <3>2. Taken(more) = 0
      BY <1>0, <1>1, TakenNone
    <3> QED BY <1>5, <3>1, <3>2
  <2>3. \A i \in 1 .. Len(more) : more[i].n = 0 => p.end # "open" /\ p.avail = 0
    BY <1>1, <1>5 DEF SameButReads
  <2> QED BY <1>1, <1>4, <1>5, <2>1, <2>2, <2>3, ReadsAnswered
<1>7. ToSet(Calls(o.answers)) \subseteq ToSet(Calls(p.answers))
  BY <1>0, <1>1, <1>5, AnswersStay
<1> QED BY <1>5, <1>6, <1>7 DEF p

\* What epoll told of is remembered by the flag, and nobody waits for what is there.
ReadNoted(o) ==
    /\ o.avail > 0 => o.ready
    /\ o.end # "open" => o.ready \/ o.short
    /\ o.bufs # <<>> => o.avail = 0 /\ (o.end = "open" \/ o.short)

LEMMA ReaderScattered ==
    ASSUME NEW cs, NEW o, ReaderInv(cs, o), o.bufs # <<>>, o.avail > 0
    PROVE  LET p == Scattered(o, Least(o.avail, Bytes(o.bufs))) IN
           /\ ReaderInv(cs, p) /\ SameButReads(o, p) /\ ReadNoted(p)
           /\ ToSet(Calls(o.answers)) \subseteq ToSet(Calls(p.answers))
<1> DEFINE bufs == o.bufs
           n == Least(o.avail, Bytes(bufs))
           k == ConvertByteToBufferNumber(bufs, n)
           size == n - Bytes(SubSeq(bufs, 1, k - 1))
           x == [call |-> bufs[k].call, n |-> size]
           rest == SubSeq(bufs, k + 1, Len(bufs))
           more == InFull(SubSeq(bufs, 1, k - 1)) \o <<x>>
           p == Scattered(o, n)
<1>0. /\ o \in Reader /\ bufs \in Seq(Buffer) /\ o.answers \in Seq(Answer) /\ o.avail \in Nat
      /\ Len(bufs) \in Nat /\ DOMAIN bufs = 1 .. Len(bufs) /\ Bytes(bufs) \in Nat /\ Len(bufs) # 0
  BY ReaderFields, BufferSeq, LensType DEF ReaderInv
<1>1. n \in 1 .. Bytes(bufs) /\ n <= o.avail /\ (n # o.avail => n = Bytes(bufs))
  <2>1. Bytes(bufs) > 0
    <3>1. Upto(bufs, 0) < Upto(bufs, Len(bufs))
      BY <1>0, UptoStep
    <3> QED BY <1>0, <3>1, UptoStep
  <2> QED BY <1>0, <2>1 DEF Least
<1>2. p = [o EXCEPT !.short = size < bufs[k].len \/ rest # <<>>,
                    !.ready = size = bufs[k].len /\ rest = <<>>, !.bufs = rest, !.avail = o.avail - n,
                    !.answers = o.answers \o InFull(SubSeq(bufs, 1, k - 1)) \o <<x>>]
  BY DEF Scattered
<1> HIDE DEF n, p
<1>3. k \in 1 .. Len(bufs) /\ Upto(bufs, k - 1) < n /\ n <= Upto(bufs, k)
  BY <1>0, <1>1, BufferOf
<1> HIDE DEF k
<1>4. /\ k - 1 \in 0 .. Len(bufs) /\ Upto(bufs, k - 1) \in Nat /\ Upto(bufs, k) = Upto(bufs, k - 1) + bufs[k].len
      /\ bufs[k].len \in 1 .. MaxLength /\ bufs[k].call \in Call /\ bufs[k].len \in Nat
      /\ size = n - Upto(bufs, k - 1)
  BY SMTT(30), <1>0, <1>3, UptoStep, BufferSeq, Sizes DEF Upto
<1>5. size \in 1 .. bufs[k].len /\ size \in Nat /\ size \in Failed .. MaxLength
  BY <1>1, <1>3, <1>4, Sizes
<1> HIDE DEF size
<1>6. x \in Answer /\ x.call = bufs[k].call /\ x.n = size
  BY <1>4, <1>5 DEF Answer
<1> HIDE DEF x
<1>7. /\ more \in Seq(Answer) /\ rest \in Seq(Buffer) /\ Len(rest) = Len(bufs) - k
      /\ \A i \in 1 .. Len(more) : (i \in 1 .. k - 1 /\ more[i].n = bufs[i].len) \/ (i = k /\ more[i].n = size)
      /\ Leads(more, Calls(bufs), Calls(rest))
      /\ Taken(more) = Upto(bufs, k - 1) + size
  <2>1. /\ more \in Seq(Answer) /\ rest \in Seq(Buffer) /\ Len(rest) = Len(bufs) - k
        /\ \A i \in 1 .. Len(more) : (i \in 1 .. k - 1 /\ more[i].n = bufs[i].len) \/ (i = k /\ more[i].n = x.n)
        /\ Leads(more, Calls(bufs), Calls(rest))
        /\ Taken(more) = Upto(bufs, k - 1) + (IF x.n > 0 THEN x.n ELSE 0)
    BY SMTT(30), <1>0, <1>3, <1>6, PartLead
  <2> HIDE DEF more, rest
  <2> QED BY <2>1, <1>5, <1>6
<1>8. o.answers \o InFull(SubSeq(bufs, 1, k - 1)) \o <<x>> = o.answers \o more
  <2>1. InFull(SubSeq(bufs, 1, k - 1)) \in Seq(Answer)
    <3>1. 1 \in 1 .. Len(bufs) + 1 /\ 1 <= (k - 1) + 1
      BY <1>0, <1>4
    <3>2. SubSeq(bufs, 1, k - 1) \in Seq(Buffer)
      BY <3>1, <1>0, <1>4, Slice
    <3> QED BY <3>2, InFullType
  <2> DEFINE s == o.answers
             t == InFull(SubSeq(bufs, 1, k - 1))
             u == <<x>>
  <2>2. s \in Seq(Answer) /\ t \in Seq(Answer) /\ u \in Seq(Answer)
    BY <1>0, <1>6, <2>1
  <2>3. (s \o t) \o u = s \o (t \o u)
    <3> HIDE DEF s, t, u
    <3> QED BY <2>2, ConcatAssociative
  <2> QED BY <2>3
<1> HIDE DEF more, rest
<1>9. p \in Reader
  <2>1. o.answers \o more \in Seq(Answer) /\ o.avail - n \in Nat
    BY <1>0, <1>1, <1>7, ConcatAnswers
  <2>2. p = [o EXCEPT !.short = size < bufs[k].len \/ rest # <<>>,
                      !.ready = size = bufs[k].len /\ rest = <<>>, !.bufs = rest, !.avail = o.avail - n,
                      !.answers = o.answers \o more]
    BY <1>2, <1>8
  <2>3. (size < bufs[k].len \/ rest # <<>>) \in BOOLEAN /\ (size = bufs[k].len /\ rest = <<>>) \in BOOLEAN
    OBVIOUS
  <2> HIDE DEF bufs
  <2> QED BY <1>0, <1>7, <2>1, <2>2, <2>3 DEF Reader
<1>10. /\ p.bufs = rest /\ p.pend = o.pend /\ p.answers = o.answers \o more /\ p.avail = o.avail - n
       /\ SameButReads(o, p)
  BY <1>0, <1>2, <1>8 DEF Reader, SameButReads
<1>11. /\ p.short <=> size < bufs[k].len \/ rest # <<>>
       /\ p.ready <=> size = bufs[k].len /\ rest = <<>>
  BY <1>0, <1>2 DEF Reader
<1>12. ReaderInv(cs, p)
  <2>1. Leads(more, Calls(o.bufs), Calls(p.bufs))
    BY <1>7, <1>10
  <2>2. p.avail <= o.avail /\ Taken(more) = o.avail - p.avail
    BY <1>0, <1>1, <1>4, <1>7, <1>10
  <2>3. \A i \in 1 .. Len(more) : more[i].n # 0
    <3> SUFFICES ASSUME NEW i \in 1 .. Len(more) PROVE more[i].n # 0
      OBVIOUS
    <3>1. CASE i \in 1 .. k - 1 /\ more[i].n = bufs[i].len
      <4>1. i \in 1 .. Len(bufs)
        BY <1>0, <1>3, <3>1
      <4>2. bufs[i].len \in 1 .. MaxLength
        BY <1>0, <4>1, BufferSeq
      <4> QED BY <3>1, <4>2, Sizes
    <3>2. CASE more[i].n = size
      BY <1>4, <1>5, <3>2
    <3> QED BY <1>7, <3>1, <3>2
  <2> QED BY <1>7, <1>9, <1>10, <2>1, <2>2, <2>3, ReadsAnswered
<1>13. ReadNoted(p)
  <2>1. p.avail # 0 => size = bufs[k].len /\ rest = <<>>
    <3> SUFFICES ASSUME p.avail # 0 PROVE size = bufs[k].len /\ rest = <<>>
      OBVIOUS
    <3>1. n = Bytes(bufs)
      BY <1>0, <1>1, <1>10
    <3>2. k = Len(bufs)
      <4>1. k < Len(bufs) => Upto(bufs, k) < Upto(bufs, Len(bufs))
        BY <1>0, <1>3, UptoStep
      <4>2. Upto(bufs, Len(bufs)) = n /\ Upto(bufs, k) \in Nat
        BY <1>0, <1>3, <3>1, UptoStep
      <4> QED BY <1>0, <1>1, <1>3, <4>1, <4>2
    <3>3. Len(rest) = 0
      BY <1>0, <1>7, <3>2
    <3>4. rest = <<>>
      BY <1>7, <3>3, EmptySeq
    <3>5. size = bufs[k].len
      BY <1>0, <1>1, <1>4, <3>1, <3>2, UptoStep
    <3> QED BY <3>4, <3>5
  <2>2. p.ready \/ p.short
    BY <1>4, <1>5, <1>11
  <2>3. p.bufs # <<>> => p.short /\ p.avail = 0
    BY <1>10, <1>11, <2>1
  <2> QED BY <2>1, <2>2, <2>3, <1>9, <1>11, ReaderFields DEF ReadNoted
<1>14. ToSet(Calls(o.answers)) \subseteq ToSet(Calls(p.answers))
  BY <1>0, <1>7, <1>10, AnswersStay
<1> QED BY <1>10, <1>12, <1>13, <1>14 DEF p, n

\* The flags of a half are nobody's answer.
LEMMA ReaderFlagged ==
    ASSUME NEW cs, NEW o, ReaderInv(cs, o), NEW up \in BOOLEAN
    PROVE  LET p == [o EXCEPT !.ready = up] IN
           /\ ReaderInv(cs, p) /\ SameButReads(o, p) /\ p.ready = up /\ p.bufs = o.bufs /\ p.pend = o.pend
           /\ p.avail = o.avail /\ p.short = o.short /\ p.answers = o.answers
<1> DEFINE p == [o EXCEPT !.ready = up]
<1>1. o \in Reader
  BY DEF ReaderInv
<1>2. /\ p \in Reader /\ p.ready = up /\ p.bufs = o.bufs /\ p.pend = o.pend /\ p.avail = o.avail
      /\ p.short = o.short /\ p.answers = o.answers /\ SameButReads(o, p)
  BY <1>1 DEF Reader, SameButReads
<1> HIDE DEF p
<1>3. Buffers(p) = Buffers(o)
  BY <1>2 DEF Buffers
<1>4. ReaderInv(cs, p)
  BY <1>2, <1>3 DEF ReaderInv, SameButReads, Ended
<1> QED BY <1>2, <1>4 DEF p

\* What a read finds.
LEMMA ReadvResult ==
    ASSUME NEW o \in Reader, NEW n \in Readv(o)
    PROVE  \/ o.avail > 0 /\ n = Least(o.avail, Bytes(o.bufs))
           \/ o.avail = 0 /\ o.end = "open" /\ n = Again
           \/ o.avail = 0 /\ o.end # "open" /\ n \in {Failed, 0}
<1>1. o.avail \in Nat /\ o.end \in {"open", "closed", "reset"}
  BY ReaderFields
<1>2. CASE o.avail > 0
  BY <1>2 DEF Readv
<1>3. CASE o.end = "open" /\ o.avail = 0
  BY <1>3 DEF Readv
<1>4. CASE o.end = "closed" /\ o.avail = 0
  BY <1>4 DEF Readv
<1>5. CASE o.end = "reset" /\ o.avail = 0
  BY <1>5 DEF Readv
<1> QED BY <1>1, <1>2, <1>3, <1>4, <1>5

LEMMA ReaderReadInto ==
    ASSUME NEW cs, NEW o, ReaderInv(cs, o), o.bufs # <<>>, NEW p \in ReadInto(o)
    PROVE  /\ ReaderInv(cs, p) /\ SameButReads(o, p) /\ ReadNoted(p)
           /\ ToSet(Calls(o.answers)) \subseteq ToSet(Calls(p.answers))
<1>0. o \in Reader /\ o.avail \in Nat /\ o.bufs \in Seq(Buffer)
  BY ReaderFields DEF ReaderInv
<1>1. PICK n \in Readv(o) : p = IF n = Again THEN [o EXCEPT !.ready = FALSE]
                                ELSE IF n <= 0 THEN FailAll([o EXCEPT !.ready = TRUE], n)
                                ELSE Scattered(o, n)
  BY DEF ReadInto
<1>2. CASE o.avail > 0 /\ n = Least(o.avail, Bytes(o.bufs))
  <2>1. Bytes(o.bufs) \in Nat /\ Bytes(o.bufs) > 0
    <3>1. Len(o.bufs) # 0 /\ Len(o.bufs) \in Nat
      BY <1>0, BufferSeq, EmptySeq
    <3>2. Upto(o.bufs, 0) < Upto(o.bufs, Len(o.bufs))
      BY <1>0, <3>1, UptoStep
    <3> QED BY <1>0, <3>2, UptoStep, LensType
  <2>2. n \in Nat /\ n > 0
    BY <1>0, <1>2, <2>1 DEF Least
  <2>3. p = Scattered(o, n)
    BY <1>1, <2>2, Sizes
  <2> QED BY <1>2, <2>3, ReaderScattered
<1>3. CASE o.avail = 0 /\ o.end = "open" /\ n = Again
  <2>1. p = [o EXCEPT !.ready = FALSE]
    BY <1>1, <1>3
  <2>2. /\ ReaderInv(cs, p) /\ SameButReads(o, p) /\ p.avail = o.avail /\ p.answers = o.answers
    BY <2>1, ReaderFlagged
  <2>3. ReadNoted(p)
    BY <1>3, <2>2 DEF ReadNoted, SameButReads
  <2> QED BY <2>2, <2>3
<1>4. CASE o.avail = 0 /\ o.end # "open" /\ n \in {Failed, 0}
  <2> DEFINE up == [o EXCEPT !.ready = TRUE]
  <2>1. p = FailAll(up, n)
    BY <1>1, <1>4, Sizes
  <2>2. ReaderInv(cs, up) /\ SameButReads(o, up) /\ up.ready = TRUE /\ up.avail = o.avail /\ up.answers = o.answers
    BY ReaderFlagged
  <2> HIDE DEF up
  <2>3. up.end # "open" /\ up.avail = 0
    BY <1>4, <2>2 DEF SameButReads
  <2>4. /\ ReaderInv(cs, p) /\ SameButReads(up, p) /\ p.bufs = <<>> /\ p.ready = up.ready /\ p.avail = up.avail
        /\ ToSet(Calls(up.answers)) \subseteq ToSet(Calls(p.answers))
    BY ZenonT(60), <1>4, <2>1, <2>2, <2>3, ReaderFailed
  <2>5. SameButReads(o, p)
    BY <2>2, <2>4 DEF SameButReads
  <2>6. ReadNoted(p)
    BY <2>2, <2>3, <2>4 DEF ReadNoted
  <2> QED BY <2>2, <2>4, <2>5, <2>6
<1> QED BY <1>0, <1>2, <1>3, <1>4, ReadvResult

LEMMA BothEmpty ==
    ASSUME NEW s \in Seq(Buffer), NEW t \in Seq(Buffer), s \o t = <<>>
    PROVE  s = <<>> /\ t = <<>>
<1>1. Len(s) + Len(t) = 0 /\ Len(s) \in Nat /\ Len(t) \in Nat
  BY BufferSeq, ConcatBuffers, NoBuffers
<1>2. Len(s) = 0 /\ Len(t) = 0
  BY <1>1
<1> QED BY <1>2, EmptySeq

\* The reader's DoExecute.
LEMMA ReaderDoRead ==
    ASSUME NEW cs, NEW o, ReaderInv(cs, o), NEW p \in DoRead(o)
    PROVE  /\ ReaderInv(cs, p) /\ SameButReads(o, p) /\ ReadNoted(p)
           /\ Buffers(o) = <<>> => Buffers(p) = <<>> /\ p.avail = o.avail
           /\ ToSet(Calls(o.answers)) \subseteq ToSet(Calls(p.answers))
<1> DEFINE f == FillBufferAndCallback(o)
<1>1. ReaderInv(cs, f) /\ SameButReads(o, f) /\ f.avail = o.avail /\ f.answers = o.answers
  BY ReaderFilled
<1>2. p \in IF f.bufs = <<>> THEN {[f EXCEPT !.ready = TRUE]} ELSE ReadInto(f)
  BY DEF DoRead
<1>3. o.bufs \in Seq(Buffer) /\ o.pend \in Seq(Buffer) /\ o \in Reader
  BY ReaderFields DEF ReaderInv
<1>4. Buffers(o) = <<>> => f.bufs = <<>> /\ f.pend = <<>>
  <2> SUFFICES ASSUME Buffers(o) = <<>> PROVE f.bufs = <<>> /\ f.pend = <<>>
    OBVIOUS
  <2>3. o.bufs = <<>> /\ o.pend = <<>>
    BY <1>3, BothEmpty DEF Buffers
  <2>4. f = [o EXCEPT !.bufs = o.pend, !.pend = <<>>]
    BY <2>3 DEF FillBufferAndCallback
  <2> QED BY <2>3, <2>4, <1>3 DEF Reader
<1> HIDE DEF f
<1>5. CASE f.bufs = <<>>
  <2>1. p = [f EXCEPT !.ready = TRUE]
    BY <1>2, <1>5
  <2>2. /\ ReaderInv(cs, p) /\ SameButReads(f, p) /\ p.ready = TRUE /\ p.bufs = f.bufs /\ p.pend = f.pend
        /\ p.avail = f.avail /\ p.answers = f.answers
    BY <1>1, <2>1, ReaderFlagged
  <2>3. ReadNoted(p)
    BY <1>5, <2>2 DEF ReadNoted
  <2>4. Buffers(o) = <<>> => Buffers(p) = <<>> /\ p.avail = o.avail
    BY <1>1, <1>4, <2>2, NoBuffers, ConcatEmptySeq DEF Buffers
  <2> QED BY <1>1, <2>2, <2>3, <2>4 DEF SameButReads
<1>6. CASE f.bufs # <<>>
  BY <1>1, <1>2, <1>4, <1>6, ReaderReadInto DEF SameButReads
<1> QED BY <1>5, <1>6

--------------------------------------------------------------------------------
\* Accepts

SameButAccepts(o, p) ==
    p.bufs = o.bufs /\ p.pend = o.pend /\ p.polls = o.polls /\ p.arrived = o.arrived /\ p.end = o.end

LEMMA ReaderAccepted ==
    ASSUME NEW cs, NEW o, ReaderInv(cs, o), o.acceptCb # NoCall, NEW n \in {Failed, 1}, n = 1 => o.avail > 0
    PROVE  LET p == AnswerAccept(o, n) IN
           /\ ReaderInv(cs, p) /\ SameButAccepts(o, p) /\ p.acceptCb = NoCall
           /\ p.ready = o.ready /\ p.aborted = o.aborted
           /\ ToSet(Calls(o.answers)) \subseteq ToSet(Calls(p.answers))
<1> DEFINE cb == o.acceptCb
           x == [call |-> cb, n |-> n]
           more == <<x>>
           left == IF n = 1 THEN o.avail - 1 ELSE o.avail
           p == AnswerAccept(o, n)
<1>0. /\ o \in Reader /\ o.answers \in Seq(Answer) /\ o.avail \in Nat /\ o.arrived \in Nat /\ o.aborted \in Nat
      /\ cb \in Call /\ n \in Failed .. MaxLength
  BY ReaderFields, Sizes DEF ReaderInv
<1>1. x \in Answer /\ x.call = cb /\ x.n = n
  BY <1>0 DEF Answer
<1> HIDE DEF x
<1>2. more \in Seq(Answer) /\ Taken(more) = IF n > 0 THEN n ELSE 0
  BY <1>1, TakenOne
<1>3. p = [o EXCEPT !.acceptCb = NoCall, !.answers = o.answers \o more, !.avail = left]
  <2>1. Append(o.answers, x) = o.answers \o more
    BY <1>0, <1>1, AppendIsConcat
  <2> QED BY <2>1 DEF AnswerAccept, x
<1>4. left \in Nat /\ Taken(more) = o.avail - left /\ left <= o.avail
  BY <1>0, <1>2, Sizes
<1>5. o.answers \o more \in Seq(Answer)
  BY <1>0, <1>2, ConcatAnswers
<1> HIDE DEF p, left, more
<1>6. /\ p \in Reader /\ p.acceptCb = NoCall /\ p.answers = o.answers \o more /\ p.avail = left
      /\ p.ready = o.ready /\ p.aborted = o.aborted /\ SameButAccepts(o, p)
  BY <1>0, <1>3, <1>4, <1>5 DEF Reader, SameButAccepts
<1>7. /\ Lines(cs, p.answers, Calls(Buffers(p)), p.polls, p.acceptCb, "read", "pollRead", "accept")
      /\ cs[cb].op = "accept"
  <2>1. Buffers(p) = Buffers(o)
    BY <1>6 DEF Buffers, SameButAccepts
  <2>2. Lines(cs, o.answers, Calls(Buffers(o)), o.polls, cb, "read", "pollRead", "accept")
    BY DEF ReaderInv
  <2> HIDE DEF cb
  <2>3. /\ Lines(cs, o.answers \o <<x>>, Calls(Buffers(o)), o.polls, NoCall, "read", "pollRead", "accept")
        /\ cs[cb].op = "accept"
    BY SMTT(30), <1>0, <1>1, <2>2, LinesWaiting
  <2> QED BY <1>6, <2>1, <2>3 DEF SameButAccepts, more
<1>8. Taken(p.answers) + p.aborted = p.arrived - p.avail
  <2>1. Taken(o.answers \o more) = Taken(o.answers) + Taken(more)
    BY <1>0, <1>2, TakenConcat
  <2>2. Taken(o.answers) \in Nat
    BY <1>0, CountsType
  <2>3. Taken(o.answers) + o.aborted = o.arrived - o.avail
    BY DEF ReaderInv
  <2>4. p.arrived = o.arrived /\ p.aborted = o.aborted /\ p.avail = left /\ Taken(p.answers) = Taken(o.answers \o more)
    BY <1>6 DEF SameButAccepts
  <2>5. o.avail \in Nat /\ o.arrived \in Nat /\ o.aborted \in Nat /\ left \in Nat
    BY <1>0, <1>4
  <2>6. Taken(more) = o.avail - left
    BY <1>4
  <2> QED BY ONLY <2>1, <2>2, <2>3, <2>4, <2>5, <2>6
<1>9. Ended(cs, p)
  <2>1. \A i \in 1 .. Len(more) : cs[more[i].call].op # "read"
    <3>1. Len(more) = 1 /\ more[1] = x
      BY DEF more
    <3> QED BY <3>1, <1>1, <1>7
  <2>2. Ended(cs, o) /\ p.end = o.end /\ p.avail <= o.avail
    BY <1>4, <1>6 DEF ReaderInv, SameButAccepts
  <2> QED BY <1>0, <1>2, <1>6, <2>1, <2>2, EndedMore
<1>10. ReaderInv(cs, p)
  BY <1>6, <1>7, <1>8, <1>9 DEF ReaderInv
<1>11. ToSet(Calls(o.answers)) \subseteq ToSet(Calls(p.answers))
  BY <1>0, <1>2, <1>6, AnswersStay
<1> QED BY <1>6, <1>10, <1>11 DEF p

LEMMA ReaderAborted ==
    ASSUME NEW cs, NEW o, ReaderInv(cs, o), o.avail > 0
    PROVE  LET p == Aborted(o) IN
           /\ ReaderInv(cs, p) /\ SameButAccepts(o, p) /\ p.aborted > 0 /\ p.answers = o.answers
           /\ p.acceptCb = o.acceptCb
<1> DEFINE p == Aborted(o)
<1>0. o \in Reader /\ o.avail \in Nat /\ o.arrived \in Nat /\ o.aborted \in Nat /\ o.answers \in Seq(Answer)
  BY ReaderFields DEF ReaderInv
<1>1. /\ p \in Reader /\ SameButAccepts(o, p) /\ p.answers = o.answers /\ p.acceptCb = o.acceptCb
      /\ p.aborted = o.aborted + 1 /\ p.avail = o.avail - 1
  <2> DEFINE left == o.avail - 1
             more == o.aborted + 1
  <2>1. left \in Nat /\ more \in Nat
    BY <1>0
  <2>2. p = [o EXCEPT !.ready = FALSE, !.avail = left, !.aborted = more]
    BY DEF Aborted
  <2> HIDE DEF p, left, more
  <2>3. /\ p \in Reader /\ SameButAccepts(o, p) /\ p.answers = o.answers /\ p.acceptCb = o.acceptCb
        /\ p.aborted = more /\ p.avail = left
    BY <1>0, <2>1, <2>2 DEF Reader, SameButAccepts
  <2> QED BY <2>3 DEF left, more
<1> HIDE DEF p
<1>2. Buffers(p) = Buffers(o)
  BY <1>1 DEF Buffers, SameButAccepts
<1>3. Taken(p.answers) + p.aborted = p.arrived - p.avail
  <2>1. Taken(o.answers) \in Nat
    BY <1>0, CountsType
  <2>2. Taken(o.answers) + o.aborted = o.arrived - o.avail
    BY DEF ReaderInv
  <2>3. /\ p.aborted = o.aborted + 1 /\ p.avail = o.avail - 1 /\ p.arrived = o.arrived
        /\ Taken(p.answers) = Taken(o.answers)
    BY <1>1 DEF SameButAccepts
  <2> QED BY ONLY SMTT(30), <1>0, <2>1, <2>2, <2>3
<1>4. Ended(cs, p)
  BY <1>0, <1>1 DEF ReaderInv, Ended, SameButAccepts
<1>5. ReaderInv(cs, p)
  BY <1>1, <1>2, <1>3, <1>4 DEF ReaderInv, SameButAccepts
<1> QED BY <1>0, <1>1, <1>5 DEF p

LEMMA ReaderDoAccept ==
    ASSUME NEW cs, NEW o, ReaderInv(cs, o), o.ready, o.acceptCb # NoCall, NEW p \in DoAccept(o)
    PROVE  /\ ReaderInv(cs, p) /\ SameButAccepts(o, p)
           /\ p.avail = 0 \/ p.aborted > 0 \/ (p.ready /\ p.acceptCb = NoCall)
           /\ ToSet(Calls(o.answers)) \subseteq ToSet(Calls(p.answers))
<1>0. o \in Reader /\ o.avail \in Nat
  BY ReaderFields DEF ReaderInv
<1>1. CASE p = AnswerAccept(o, Failed)
  <2>1. Failed # 1 /\ Failed \in {Failed, 1}
    BY Sizes
  <2> QED BY <1>1, <2>1, ReaderAccepted
<1>2. CASE o.avail > 0 /\ p = AnswerAccept(o, 1)
  BY <1>2, ReaderAccepted
<1>3. CASE o.avail > 0 /\ p = Aborted(o)
  BY <1>3, ReaderAborted
<1>4. CASE o.avail = 0 /\ p = [o EXCEPT !.ready = FALSE]
  <2>1. ReaderInv(cs, p) /\ p.bufs = o.bufs /\ p.pend = o.pend /\ p.avail = o.avail
        /\ p.answers = o.answers /\ SameButReads(o, p)
    BY <1>4, ReaderFlagged
  <2> QED BY <1>4, <2>1 DEF SameButReads, SameButAccepts
<1> QED BY <1>0, <1>1, <1>2, <1>3, <1>4 DEF DoAccept

LEMMA ReaderHandleAccept ==
    ASSUME NEW cs, NEW o, ReaderInv(cs, o), NEW p \in HandleAccept(o)
    PROVE  /\ ReaderInv(cs, p) /\ SameButAccepts(o, p)
           /\ p.avail = 0 \/ p.aborted > 0 \/ (p.ready /\ p.acceptCb = NoCall)
           /\ ToSet(Calls(o.answers)) \subseteq ToSet(Calls(p.answers))
<1> DEFINE up == [o EXCEPT !.ready = TRUE]
<1>1. /\ ReaderInv(cs, up) /\ SameButReads(o, up) /\ up.ready = TRUE /\ up.bufs = o.bufs /\ up.pend = o.pend
      /\ up.avail = o.avail /\ up.answers = o.answers
  BY ReaderFlagged
<1>2. p \in IF o.acceptCb = NoCall THEN {up} ELSE DoAccept(up)
  BY DEF HandleAccept
<1> HIDE DEF up
<1>3. SameButAccepts(o, up) /\ up.acceptCb = o.acceptCb
  BY <1>1 DEF SameButReads, SameButAccepts
<1>4. CASE o.acceptCb = NoCall
  BY <1>1, <1>2, <1>3, <1>4
<1>5. CASE o.acceptCb # NoCall
  <2>1. /\ ReaderInv(cs, p) /\ SameButAccepts(up, p)
        /\ p.avail = 0 \/ p.aborted > 0 \/ (p.ready /\ p.acceptCb = NoCall)
        /\ ToSet(Calls(up.answers)) \subseteq ToSet(Calls(p.answers))
    BY <1>1, <1>2, <1>3, <1>5, ReaderDoAccept
  <2> QED BY <1>1, <1>3, <2>1 DEF SameButAccepts
<1> QED BY <1>4, <1>5

--------------------------------------------------------------------------------
\* Cancel answers everybody

\* More answers, all of them failures.
Grown(ans, all) ==
    \E more \in Seq(Answer) : all = ans \o more /\ \A i \in 1 .. Len(more) : more[i].n = Failed

LEMMA GrownMore ==
    ASSUME NEW ans \in Seq(Answer), NEW all, Grown(ans, all),
           NEW t \in Seq(Answer), \A i \in 1 .. Len(t) : t[i].n = Failed
    PROVE  Grown(ans, all \o t)
<1>1. PICK more \in Seq(Answer) : all = ans \o more /\ \A i \in 1 .. Len(more) : more[i].n = Failed
  BY DEF Grown
<1>2. (ans \o more) \o t = ans \o (more \o t)
  BY ConcatAssociative
<1>3. more \o t \in Seq(Answer) /\ \A i \in 1 .. Len(more \o t) : (more \o t)[i].n = Failed
  <2>1. /\ more \o t \in Seq(Answer) /\ DOMAIN (more \o t) = 1 .. Len(more \o t)
        /\ \A i \in DOMAIN (more \o t) : \/ i \in 1 .. Len(more) /\ (more \o t)[i] = more[i]
                                         \/ i - Len(more) \in 1 .. Len(t) /\ (more \o t)[i] = t[i - Len(more)]
    BY ConcatAnswers, AnswerSeq
  <2> SUFFICES ASSUME NEW i \in 1 .. Len(more \o t) PROVE (more \o t)[i].n = Failed
    BY <2>1
  <2>2. CASE i \in 1 .. Len(more) /\ (more \o t)[i] = more[i]
    BY <1>1, <2>2
  <2>3. CASE i - Len(more) \in 1 .. Len(t) /\ (more \o t)[i] = t[i - Len(more)]
    BY <2>3
  <2> QED BY <2>1, <2>2, <2>3
<1> QED BY <1>1, <1>2, <1>3 DEF Grown

LEMMA GrownFacts ==
    ASSUME NEW ans \in Seq(Answer), NEW all, Grown(ans, all)
    PROVE  /\ all \in Seq(Answer) /\ Taken(all) = Taken(ans)
           /\ \A i \in DOMAIN all : (i \in DOMAIN ans /\ all[i] = ans[i]) \/ all[i].n = Failed
           /\ ToSet(Calls(ans)) \subseteq ToSet(Calls(all))
<1>1. PICK more \in Seq(Answer) : all = ans \o more /\ \A i \in 1 .. Len(more) : more[i].n = Failed
  BY DEF Grown
<1>2. all \in Seq(Answer) /\ \A i \in DOMAIN all : (i \in DOMAIN ans /\ all[i] = ans[i]) \/ all[i].n = Failed
  <2>1. /\ all \in Seq(Answer)
        /\ \A i \in DOMAIN all : \/ i \in 1 .. Len(ans) /\ all[i] = ans[i]
                                 \/ i - Len(ans) \in 1 .. Len(more) /\ all[i] = more[i - Len(ans)]
    BY <1>1, ConcatAnswers
  <2>2. DOMAIN ans = 1 .. Len(ans)
    BY AnswerSeq
  <2> QED BY <1>1, <2>1, <2>2
<1>3. Taken(all) = Taken(ans)
  <2>1. Taken(more) = 0
    <3>1. \A i \in 1 .. Len(more) : more[i].n <= 0
      BY <1>1, Sizes
    <3> QED BY <3>1, TakenNone
  <2>2. Taken(all) = Taken(ans) + Taken(more) /\ Taken(ans) \in Nat
    BY <1>1, TakenConcat, CountsType
  <2> QED BY <2>1, <2>2
<1> QED BY <1>1, <1>2, <1>3, AnswersStay

LEMMA DroppedType ==
    ASSUME NEW cb \in Call \cup {NoCall}
    PROVE  Dropped(cb) \in Seq(Answer) /\ \A i \in 1 .. Len(Dropped(cb)) : Dropped(cb)[i].n = Failed
<1>1. CASE cb = NoCall
  <2>1. Dropped(cb) = <<>>
    BY <1>1 DEF Dropped
  <2> QED BY <2>1, EmptySeq
<1>2. CASE cb # NoCall
  <2> DEFINE x == [call |-> cb, n |-> Failed]
  <2>1. Dropped(cb) = <<x>> /\ x \in Answer /\ x.n = Failed
    BY <1>2, Sizes DEF Dropped, Answer
  <2> HIDE DEF x
  <2> QED BY <2>1
<1> QED BY <1>1, <1>2

LEMMA LinesDropped ==
    ASSUME NEW cs, NEW ans \in Seq(Answer), NEW bufs \in Seq(Buffer), NEW pend \in Seq(Buffer),
           NEW polls \in Seq(Call), NEW cb \in Call \cup {NoCall},
           NEW a, NEW b, NEW c, a # b, a # c, b # c,
           Lines(cs, ans, Calls(bufs \o pend), polls, cb, a, b, c)
    PROVE  LET all == ans \o Answered(bufs, Failed) \o Answered(pend, Failed)
                          \o Polled(polls, Failed) \o Dropped(cb) IN
           /\ Lines(cs, all, <<>>, <<>>, NoCall, a, b, c)
           /\ Grown(ans, all)
<1> DEFINE t == Answered(bufs, Failed)
           u == Answered(pend, Failed)
           v == Polled(polls, Failed)
           first == ans \o t
           second == first \o u
           third == second \o v
<1>0. Failed \in Failed .. MaxLength
  BY Sizes
<1>1. /\ t \in Seq(Answer) /\ \A i \in 1 .. Len(t) : t[i].n = Failed
      /\ u \in Seq(Answer) /\ \A i \in 1 .. Len(u) : u[i].n = Failed
      /\ v \in Seq(Answer) /\ \A i \in 1 .. Len(v) : v[i].n = Failed
  <2>1. t \in Seq(Answer) /\ \A i \in 1 .. Len(t) : t[i].n = Failed
    BY <1>0, AnsweredType
  <2>2. u \in Seq(Answer) /\ \A i \in 1 .. Len(u) : u[i].n = Failed
    BY <1>0, AnsweredType
  <2>3. v \in Seq(Answer) /\ \A i \in 1 .. Len(v) : v[i].n = Failed
    BY <1>0, PolledType
  <2> QED BY <2>1, <2>2, <2>3
<1>2. Leads(t, Calls(bufs), <<>>) /\ Leads(u, Calls(pend), <<>>) /\ Leads(v, polls, <<>>)
  BY <1>0, AllLead, PollsLead
<1>3. Leads(t, Calls(bufs \o pend), Calls(pend))
  <2> DEFINE none == <<>>
  <2>1. none \in Seq(Buffer) /\ Leads(t, Calls(bufs), Calls(none)) /\ none \o pend = pend
    BY <1>2, NoBuffers, ConcatEmptySeq
  <2> HIDE DEF none, t
  <2>2. Leads(t, Calls(bufs \o pend), Calls(none \o pend))
    BY <1>1, <2>1, RestLine
  <2> QED BY <2>1, <2>2
<1>4. Calls(bufs \o pend) \in Seq(Call) /\ Calls(pend) \in Seq(Call)
  BY ConcatBuffers, CallsType
<1> HIDE DEF t, u, v
<1>5. first \in Seq(Answer) /\ second \in Seq(Answer) /\ third \in Seq(Answer)
  BY <1>1, ConcatAnswers
<1>6. Lines(cs, first, Calls(pend), polls, cb, a, b, c)
  BY <1>1, <1>3, <1>4, LinesBuffers
<1>7. Grown(ans, first)
  BY <1>1 DEF Grown
<1> HIDE DEF first
<1>8. Lines(cs, second, <<>>, polls, cb, a, b, c)
  <2> DEFINE none == <<>>
  <2>1. none \in Seq(Call) /\ Leads(u, Calls(pend), none)
    BY <1>2, EmptySeq
  <2> HIDE DEF none
  <2>2. Lines(cs, second, none, polls, cb, a, b, c)
    BY <1>1, <1>4, <1>5, <1>6, <2>1, LinesBuffers
  <2> QED BY <2>2 DEF none
<1>9. Grown(ans, second)
  BY <1>1, <1>7, GrownMore
<1> HIDE DEF second
<1>10. Lines(cs, third, <<>>, <<>>, cb, a, b, c)
  BY <1>1, <1>2, <1>5, <1>8, LinesPolls
<1>11. Grown(ans, third)
  BY <1>1, <1>9, GrownMore
<1> HIDE DEF third
<1>12. Grown(ans, third \o Dropped(cb))
  BY <1>11, DroppedType, GrownMore
<1>13. Lines(cs, third \o Dropped(cb), <<>>, <<>>, NoCall, a, b, c)
  <2>1. CASE cb = NoCall
    <3>1. Dropped(cb) = <<>>
      BY <2>1 DEF Dropped
    <3>2. third \o Dropped(cb) = third
      BY <1>5, <3>1, ConcatEmptySeq
    <3> QED BY <1>10, <2>1, <3>2
  <2>2. CASE cb # NoCall
    <3> DEFINE x == [call |-> cb, n |-> Failed]
    <3>1. x \in Answer /\ x.call = cb /\ Dropped(cb) = <<x>>
      BY <1>0, <2>2 DEF Dropped, Answer
    <3> HIDE DEF x
    <3>2. Lines(cs, third \o <<x>>, <<>>, <<>>, NoCall, a, b, c)
      BY <1>5, <1>10, <2>2, <3>1, LinesWaiting
    <3> QED BY <3>1, <3>2
  <2> QED BY <2>1, <2>2
<1> QED BY <1>12, <1>13 DEF third, second, first, t, u, v

\* When nobody waits everybody has an answer.
LEMMA LinesEmpty ==
    ASSUME NEW cs, NEW ans \in Seq(Answer), NEW a, NEW b, NEW c,
           Lines(cs, ans, <<>>, <<>>, NoCall, a, b, c), NEW k \in DOMAIN cs, cs[k].op \in {a, b, c}
    PROVE  k \in ToSet(Calls(ans))
<1>1. Waiting(NoCall) = <<>> /\ DOMAIN <<>> = {}
  BY DEF Waiting
<1>2. \E i \in DOMAIN ans : ans[i].call = k
  BY <1>1 DEF Lines, InLine
<1> QED BY <1>2 DEF ToSet, Calls

CancelReader(o) ==
    [CancelAllIo(o) EXCEPT !.polls = <<>>, !.acceptCb = NoCall,
                           !.answers = @ \o Polled(o.polls, Failed) \o Dropped(o.acceptCb)]

LEMMA ReaderCancelled ==
    ASSUME NEW cs, NEW o, ReaderInv(cs, o)
    PROVE  LET p == CancelReader(o) IN
           /\ ReaderInv(cs, p) /\ Buffers(p) = <<>> /\ p.bufs = <<>> /\ p.polls = <<>> /\ p.acceptCb = NoCall
           /\ p.ready = o.ready /\ p.avail = o.avail /\ p.short = o.short
           /\ p.arrived = o.arrived /\ p.end = o.end /\ p.aborted = o.aborted
           /\ \A k \in DOMAIN cs : cs[k].op \in {"read", "pollRead", "accept"} => k \in ToSet(Calls(p.answers))
<1> DEFINE all == o.answers \o Answered(o.bufs, Failed) \o Answered(o.pend, Failed)
                      \o Polled(o.polls, Failed) \o Dropped(o.acceptCb)
           p == CancelReader(o)
<1>0. /\ o \in Reader /\ o.answers \in Seq(Answer) /\ o.bufs \in Seq(Buffer) /\ o.pend \in Seq(Buffer)
      /\ o.polls \in Seq(Call) /\ o.acceptCb \in Call \cup {NoCall}
  BY ReaderFields DEF ReaderInv
<1>1. /\ Lines(cs, all, <<>>, <<>>, NoCall, "read", "pollRead", "accept")
      /\ Grown(o.answers, all)
  <2>1. Lines(cs, o.answers, Calls(o.bufs \o o.pend), o.polls, o.acceptCb, "read", "pollRead", "accept")
    BY DEF ReaderInv, Buffers
  <2> HIDE DEF all
  <2>2. LET every == o.answers \o Answered(o.bufs, Failed) \o Answered(o.pend, Failed)
                          \o Polled(o.polls, Failed) \o Dropped(o.acceptCb) IN
        /\ Lines(cs, every, <<>>, <<>>, NoCall, "read", "pollRead", "accept")
        /\ Grown(o.answers, every)
    BY <1>0, <2>1, LinesDropped
  <2> QED BY <2>2 DEF all
<1>2. p = [o EXCEPT !.bufs = <<>>, !.pend = <<>>, !.polls = <<>>, !.acceptCb = NoCall, !.answers = all]
  BY <1>0 DEF CancelReader, CancelAllIo, FailAll, Reader
<1> HIDE DEF p, all
<1>3. /\ all \in Seq(Answer) /\ Taken(all) = Taken(o.answers)
      /\ \A i \in DOMAIN all : (i \in DOMAIN o.answers /\ all[i] = o.answers[i]) \/ all[i].n = Failed
  BY <1>0, <1>1, GrownFacts
<1>4. /\ p \in Reader /\ p.bufs = <<>> /\ p.pend = <<>> /\ p.polls = <<>> /\ p.acceptCb = NoCall
      /\ p.answers = all /\ p.ready = o.ready /\ p.avail = o.avail /\ p.short = o.short
      /\ p.arrived = o.arrived /\ p.end = o.end /\ p.aborted = o.aborted
  BY <1>0, <1>2, <1>3, EmptySeq DEF Reader
<1>5. Buffers(p) = <<>> /\ Calls(<<>>) = <<>>
  BY <1>4, NoBuffers, ConcatEmptySeq DEF Buffers
<1>6. Ended(cs, p)
  <2>1. Failed # 0
    BY Sizes
  <2> QED BY <1>3, <1>4, <2>1 DEF ReaderInv, Ended
<1>7. Taken(p.answers) + p.aborted = p.arrived - p.avail
  BY <1>3, <1>4 DEF ReaderInv
<1>8. ReaderInv(cs, p)
  BY <1>1, <1>4, <1>5, <1>6, <1>7 DEF ReaderInv
<1>9. \A k \in DOMAIN cs : cs[k].op \in {"read", "pollRead", "accept"} => k \in ToSet(Calls(p.answers))
  BY <1>1, <1>3, <1>4, LinesEmpty
<1> QED BY <1>4, <1>5, <1>8, <1>9 DEF p

--------------------------------------------------------------------------------
\* New calls of the reading half, and what comes from the peer

LEMMA AppendBuffer ==
    ASSUME NEW s \in Seq(Buffer), NEW t \in Seq(Buffer), NEW b \in Buffer
    PROVE  /\ Append(t, b) \in Seq(Buffer)
           /\ s \o Append(t, b) = Append(s \o t, b)
           /\ Calls(s \o Append(t, b)) = Append(Calls(s \o t), b.call)
<1> DEFINE all == s \o t
<1>1. Append(t, b) \in Seq(Buffer) /\ all \in Seq(Buffer) /\ b.call \in Call
  BY ConcatBuffers DEF Buffer
<1>2. s \o Append(t, b) = Append(all, b)
  <2> DEFINE one == <<b>>
  <2>1. one \in Seq(Buffer)
    OBVIOUS
  <2>2. Append(t, b) = t \o one /\ Append(all, b) = all \o one
    BY <1>1, AppendIsConcat
  <2> HIDE DEF one
  <2>3. s \o (t \o one) = (s \o t) \o one
    BY <2>1, ConcatAssociative
  <2> QED BY <2>2, <2>3
<1> HIDE DEF all
<1>3. Calls(Append(all, b)) = Append(Calls(all), b.call)
  <2>1. /\ Len(all) \in Nat /\ Append(all, b) \in Seq(Buffer) /\ Len(Append(all, b)) = Len(all) + 1
        /\ \A i \in 1 .. Len(all) : Append(all, b)[i] = all[i]
        /\ Append(all, b)[Len(all) + 1] = b
    BY <1>1, BufferSeq, AppendProperties
  <2>2. /\ Calls(Append(all, b)) \in Seq(Call) /\ Len(Calls(Append(all, b))) = Len(all) + 1
        /\ \A i \in 1 .. Len(all) + 1 : Calls(Append(all, b))[i] = Append(all, b)[i].call
    BY <2>1, CallsType
  <2>3. /\ Calls(all) \in Seq(Call) /\ Len(Calls(all)) = Len(all)
        /\ \A i \in 1 .. Len(all) : Calls(all)[i] = all[i].call
    BY <1>1, CallsType
  <2>4. /\ Append(Calls(all), b.call) \in Seq(Call) /\ Len(Append(Calls(all), b.call)) = Len(all) + 1
        /\ \A i \in 1 .. Len(all) : Append(Calls(all), b.call)[i] = all[i].call
        /\ Append(Calls(all), b.call)[Len(all) + 1] = b.call
    <3> DEFINE cl == Calls(all)
    <3>1. cl \in Seq(Call) /\ Len(cl) = Len(all) /\ \A i \in 1 .. Len(all) : cl[i] = all[i].call
      BY <2>3
    <3> HIDE DEF cl
    <3>2. /\ Append(cl, b.call) \in Seq(Call) /\ Len(Append(cl, b.call)) = Len(all) + 1
          /\ \A i \in 1 .. Len(all) : Append(cl, b.call)[i] = all[i].call
          /\ Append(cl, b.call)[Len(all) + 1] = b.call
      BY <1>1, <3>1, AppendProperties
    <3> QED BY <3>2 DEF cl
  <2>5. \A i \in 1 .. Len(all) + 1 : Calls(Append(all, b))[i] = Append(Calls(all), b.call)[i]
    <3> SUFFICES ASSUME NEW i \in 1 .. Len(all) + 1 PROVE Calls(Append(all, b))[i] = Append(Calls(all), b.call)[i]
      OBVIOUS
    <3>1. i \in 1 .. Len(all) \/ i = Len(all) + 1
      BY <2>1
    <3> QED BY <3>1, <2>1, <2>2, <2>4
  <2> QED BY <2>2, <2>4, <2>5, SeqEqual
<1> QED BY <1>1, <1>2, <1>3 DEF all

\* What was called before stays what it was.
LEMMA OlderCalls ==
    ASSUME NEW cs \in Seq(Operation), NEW x \in Operation
    PROVE  /\ Len(cs) \in Nat /\ DOMAIN cs = 1 .. Len(cs)
           /\ Append(cs, x) \in Seq(Operation) /\ Len(Append(cs, x)) = Len(cs) + 1
           /\ DOMAIN Append(cs, x) = 1 .. Len(cs) + 1
           /\ DOMAIN cs \subseteq DOMAIN Append(cs, x)
           /\ \A k \in DOMAIN cs : Append(cs, x)[k] = cs[k]
           /\ Append(cs, x)[Len(cs) + 1] = x
           /\ Len(cs) < MaxCalls => Len(cs) + 1 \in Call
<1>1. /\ Len(cs) \in Nat /\ DOMAIN cs = 1 .. Len(cs)
      /\ Append(cs, x) \in Seq(Operation) /\ Len(Append(cs, x)) = Len(cs) + 1
      /\ DOMAIN Append(cs, x) = 1 .. Len(cs) + 1
      /\ \A k \in 1 .. Len(cs) : Append(cs, x)[k] = cs[k]
      /\ Append(cs, x)[Len(cs) + 1] = x
  BY LenProperties, AppendProperties
<1> QED BY <1>1, Sizes DEF Call

Polling(o, c) == [o EXCEPT !.polls = Append(@, c)]
Accepting(o, c) == [o EXCEPT !.acceptCb = c]

LEMMA ReaderCalled ==
    ASSUME NEW cs \in Seq(Operation), NEW o, ReaderInv(cs, o), NEW x \in Operation, Len(cs) < MaxCalls,
           NEW call, call = Len(cs) + 1
    PROVE  LET new == Append(cs, x)
               read == AddPendingTask(o, call, x.len)
               poll == Polling(o, call)
               accept == Accepting(o, call) IN
           /\ x.op = "read" /\ x.len > 0 =>
                 /\ ReaderInv(new, read) /\ SameButReads(o, read) /\ read.bufs = o.bufs /\ read.ready = o.ready
                 /\ read.avail = o.avail /\ read.short = o.short /\ read.answers = o.answers
           /\ x.op = "pollRead" =>
                 /\ ReaderInv(new, poll) /\ poll.bufs = o.bufs /\ poll.pend = o.pend /\ poll.ready = o.ready
                 /\ poll.avail = o.avail /\ poll.short = o.short /\ poll.answers = o.answers
                 /\ poll.acceptCb = o.acceptCb /\ poll.arrived = o.arrived /\ poll.end = o.end
                 /\ poll.aborted = o.aborted
           /\ x.op = "accept" /\ o.acceptCb = NoCall =>
                 /\ ReaderInv(new, accept) /\ SameButAccepts(o, accept) /\ accept.ready = o.ready
                 /\ accept.acceptCb = call /\ accept.avail = o.avail /\ accept.aborted = o.aborted
                 /\ accept.answers = o.answers
           /\ x.op \notin {"read", "pollRead", "accept"} => ReaderInv(new, o)
<1> DEFINE new == Append(cs, x)
<1>0. /\ o \in Reader /\ o.answers \in Seq(Answer) /\ o.bufs \in Seq(Buffer) /\ o.pend \in Seq(Buffer)
      /\ o.polls \in Seq(Call) /\ o.acceptCb \in Call \cup {NoCall} /\ Waiting(o.acceptCb) \in Seq(Call)
      /\ Calls(Buffers(o)) \in Seq(Call) /\ call \in Call
  <2>1. /\ o \in Reader /\ o.answers \in Seq(Answer) /\ o.bufs \in Seq(Buffer) /\ o.pend \in Seq(Buffer)
        /\ o.polls \in Seq(Call) /\ o.acceptCb \in Call \cup {NoCall} /\ Waiting(o.acceptCb) \in Seq(Call)
    BY ReaderFields DEF ReaderInv
  <2> QED BY <2>1, ConcatBuffers, OlderCalls DEF Buffers
<1>1. Lines(cs, o.answers, Calls(Buffers(o)), o.polls, o.acceptCb, "read", "pollRead", "accept")
  BY DEF ReaderInv
<1>2. /\ x.op = "read" => Lines(new, o.answers, Append(Calls(Buffers(o)), call), o.polls, o.acceptCb,
                                "read", "pollRead", "accept")
      /\ x.op = "pollRead" => Lines(new, o.answers, Calls(Buffers(o)), Append(o.polls, call), o.acceptCb,
                                    "read", "pollRead", "accept")
      /\ x.op = "accept" /\ o.acceptCb = NoCall =>
            Lines(new, o.answers, Calls(Buffers(o)), o.polls, call, "read", "pollRead", "accept")
      /\ x.op \notin {"read", "pollRead", "accept"} =>
            Lines(new, o.answers, Calls(Buffers(o)), o.polls, o.acceptCb, "read", "pollRead", "accept")
  BY <1>0, <1>1, LinesCall
<1>3. ASSUME NEW p, p.answers = o.answers, p.end = o.end, p.avail = o.avail PROVE Ended(new, p)
  <2>1. \A i \in DOMAIN o.answers : o.answers[i].call \in DOMAIN cs
    BY <1>1 DEF Lines, Kinds
  <2>2. \A i \in DOMAIN o.answers : new[o.answers[i].call] = cs[o.answers[i].call]
    BY <2>1, OlderCalls
  <2> HIDE DEF new
  <2> QED BY <1>3, <2>2 DEF ReaderInv, Ended
<1>4. ASSUME NEW p, p.answers = o.answers, p.avail = o.avail, p.arrived = o.arrived, p.aborted = o.aborted
      PROVE  Taken(p.answers) + p.aborted = p.arrived - p.avail
  BY <1>4 DEF ReaderInv
<1> HIDE DEF new
<1>5. ASSUME x.op = "read", x.len > 0
      PROVE  LET read == AddPendingTask(o, call, x.len) IN
             /\ ReaderInv(new, read) /\ SameButReads(o, read) /\ read.bufs = o.bufs /\ read.ready = o.ready
             /\ read.avail = o.avail /\ read.short = o.short /\ read.answers = o.answers
  <2> DEFINE b == [call |-> call, len |-> x.len]
             read == AddPendingTask(o, call, x.len)
  <2>1. b \in Buffer /\ b.call = call
    BY <1>0, <1>5, Sizes DEF Buffer, Operation
  <2>2. read = [o EXCEPT !.pend = Append(o.pend, b)]
    BY DEF AddPendingTask
  <2> HIDE DEF b, read
  <2>3. Append(o.pend, b) \in Seq(Buffer)
    BY <1>0, <2>1, AppendBuffer
  <2>4. /\ read \in Reader /\ read.pend = Append(o.pend, b) /\ read.bufs = o.bufs /\ read.ready = o.ready
        /\ read.avail = o.avail /\ read.short = o.short /\ read.answers = o.answers /\ SameButReads(o, read)
    BY <1>0, <2>2, <2>3 DEF Reader, SameButReads
  <2>5. Calls(Buffers(read)) = Append(Calls(Buffers(o)), call)
    BY <1>0, <2>1, <2>4, AppendBuffer DEF Buffers
  <2>6. Ended(new, read) /\ Taken(read.answers) + read.aborted = read.arrived - read.avail
    BY <1>3, <1>4, <2>4 DEF SameButReads
  <2>7. ReaderInv(new, read)
    BY <1>2, <1>5, <2>4, <2>5, <2>6 DEF ReaderInv, SameButReads
  <2> QED BY <2>4, <2>7 DEF read
<1>6. ASSUME x.op = "pollRead"
      PROVE  LET poll == Polling(o, call) IN
             /\ ReaderInv(new, poll) /\ poll.bufs = o.bufs /\ poll.pend = o.pend /\ poll.ready = o.ready
             /\ poll.avail = o.avail /\ poll.short = o.short /\ poll.answers = o.answers
             /\ poll.acceptCb = o.acceptCb /\ poll.arrived = o.arrived /\ poll.end = o.end
             /\ poll.aborted = o.aborted
  <2> DEFINE poll == Polling(o, call)
  <2>1. Append(o.polls, call) \in Seq(Call)
    BY <1>0, AppendProperties
  <2>2. /\ poll \in Reader /\ poll.bufs = o.bufs /\ poll.pend = o.pend /\ poll.ready = o.ready
        /\ poll.avail = o.avail /\ poll.short = o.short /\ poll.answers = o.answers
        /\ poll.acceptCb = o.acceptCb /\ poll.arrived = o.arrived /\ poll.end = o.end
        /\ poll.aborted = o.aborted /\ poll.polls = Append(o.polls, call)
    BY <1>0, <2>1 DEF Reader, Polling
  <2> HIDE DEF poll
  <2>3. Buffers(poll) = Buffers(o)
    BY <2>2 DEF Buffers
  <2>4. Ended(new, poll) /\ Taken(poll.answers) + poll.aborted = poll.arrived - poll.avail
    BY <1>3, <1>4, <2>2
  <2>5. ReaderInv(new, poll)
    BY <1>2, <1>6, <2>2, <2>3, <2>4 DEF ReaderInv
  <2> QED BY <2>2, <2>5 DEF poll
<1>7. ASSUME x.op = "accept", o.acceptCb = NoCall
      PROVE  LET accept == Accepting(o, call) IN
             /\ ReaderInv(new, accept) /\ SameButAccepts(o, accept) /\ accept.ready = o.ready
             /\ accept.acceptCb = call /\ accept.avail = o.avail /\ accept.aborted = o.aborted
             /\ accept.answers = o.answers
  <2> DEFINE accept == Accepting(o, call)
  <2>1. /\ accept \in Reader /\ SameButAccepts(o, accept) /\ accept.ready = o.ready
        /\ accept.acceptCb = call /\ accept.avail = o.avail /\ accept.aborted = o.aborted
        /\ accept.answers = o.answers
    BY <1>0 DEF Reader, SameButAccepts, Accepting
  <2> HIDE DEF accept
  <2>2. Buffers(accept) = Buffers(o)
    BY <2>1 DEF Buffers, SameButAccepts
  <2>3. Ended(new, accept) /\ Taken(accept.answers) + accept.aborted = accept.arrived - accept.avail
    BY <1>3, <1>4, <2>1 DEF SameButAccepts
  <2>4. ReaderInv(new, accept)
    BY <1>2, <1>7, <2>1, <2>2, <2>3 DEF ReaderInv, SameButAccepts
  <2> QED BY <2>1, <2>4 DEF accept
<1>8. ASSUME x.op \notin {"read", "pollRead", "accept"} PROVE ReaderInv(new, o)
  BY <1>0, <1>2, <1>3, <1>8 DEF ReaderInv
<1> QED BY <1>5, <1>6, <1>7, <1>8 DEF new

LEMMA ReaderArrived ==
    ASSUME NEW cs, NEW o, ReaderInv(cs, o), o.end = "open"
    PROVE  LET more == [o EXCEPT !.avail = @ + 1, !.arrived = @ + 1] IN
           /\ ReaderInv(cs, more) /\ more.aborted = o.aborted
           /\ more.acceptCb = o.acceptCb /\ more.ready = o.ready /\ more.arrived = o.arrived + 1
           /\ more.bufs = o.bufs /\ more.pend = o.pend /\ more.polls = o.polls /\ more.end = o.end
           /\ more.answers = o.answers
<1> DEFINE left == o.avail + 1
           came == o.arrived + 1
           more == [o EXCEPT !.avail = left, !.arrived = came]
<1>0. o \in Reader /\ o.avail \in Nat /\ o.arrived \in Nat /\ left \in Nat /\ came \in Nat
  BY ReaderFields DEF ReaderInv
<1> HIDE DEF left, came
<1>1. /\ more \in Reader /\ more.acceptCb = o.acceptCb /\ more.ready = o.ready /\ more.arrived = came
      /\ more.bufs = o.bufs /\ more.pend = o.pend /\ more.polls = o.polls /\ more.end = o.end
      /\ more.answers = o.answers /\ more.avail = left /\ more.aborted = o.aborted
  BY <1>0 DEF Reader, SameButAccepts
<1> HIDE DEF more
<1>2. Buffers(more) = Buffers(o)
  BY <1>1 DEF Buffers
<1>3. Taken(more.answers) + more.aborted = more.arrived - more.avail
  <2>1. came - left = o.arrived - o.avail
    BY <1>0 DEF came, left
  <2> QED BY <1>1, <2>1 DEF ReaderInv
<1>4. Ended(cs, more)
  BY <1>1 DEF ReaderInv, Ended
<1>5. ReaderInv(cs, more)
  BY <1>1, <1>2, <1>3, <1>4 DEF ReaderInv
<1> QED BY <1>1, <1>5 DEF more, left, came

Ending(o, how) == [o EXCEPT !.end = how]

LEMMA ReaderEnded ==
    ASSUME NEW cs, NEW o, ReaderInv(cs, o), NEW how \in {"closed", "reset"}
    PROVE  LET p == Ending(o, how) IN
           /\ ReaderInv(cs, p) /\ p.acceptCb = o.acceptCb /\ p.ready = o.ready /\ p.arrived = o.arrived
           /\ p.bufs = o.bufs /\ p.pend = o.pend /\ p.polls = o.polls /\ p.end = how
           /\ p.answers = o.answers
<1> DEFINE p == Ending(o, how)
<1>0. o \in Reader
  BY DEF ReaderInv
<1>1. /\ p \in Reader /\ p.acceptCb = o.acceptCb /\ p.ready = o.ready /\ p.arrived = o.arrived
      /\ p.bufs = o.bufs /\ p.pend = o.pend /\ p.polls = o.polls /\ p.end = how
      /\ p.answers = o.answers /\ p.avail = o.avail /\ p.aborted = o.aborted
  BY <1>0 DEF Reader, Ending
<1> HIDE DEF p
<1>2. Buffers(p) = Buffers(o)
  BY <1>1 DEF Buffers
<1>3. Ended(cs, p) /\ Taken(p.answers) + p.aborted = p.arrived - p.avail
  BY <1>1 DEF ReaderInv, Ended
<1>4. ReaderInv(cs, p)
  BY <1>1, <1>2, <1>3 DEF ReaderInv
<1> QED BY <1>1, <1>4 DEF p

--------------------------------------------------------------------------------
\* The writing half

\* What a byte on the wire is of: a call, or none.
Byte == Call \cup {NoCall}

Writer == [ready : BOOLEAN, bufs : Seq(Buffer), pend : Seq(Buffer), polls : Seq(Call),
           connectCb : Call \cup {NoCall}, room : 0 .. Space, nospace : BOOLEAN,
           answers : Seq(Answer), sent : Seq(Byte), cut : SUBSET Call]

\* A waiting write that was not cut is not on the wire.
Owing(cs, o, b) == b.call \notin o.cut => OnWire(o.sent, b.call) = 0 /\ b.len = cs[b.call].len

\* An answered write that was not cut is on the wire.
Written(cs, o, a) ==
    cs[a.call].op = "write" /\ a.n >= 0 /\ a.call \notin o.cut =>
        OnWire(o.sent, a.call) = cs[a.call].len /\ a.n = cs[a.call].len

Wire(cs, o) ==
    /\ \A i, j \in DOMAIN o.sent : i < j /\ o.sent[j] # NoCall => o.sent[i] <= o.sent[j]
    /\ \A i \in DOMAIN o.sent : o.sent[i] \in DOMAIN cs \cup {NoCall}
    /\ \A i \in DOMAIN o.sent, j \in DOMAIN Buffers(o) : o.sent[i] <= Buffers(o)[j].call
    /\ \A j \in DOMAIN Buffers(o) : Owing(cs, o, Buffers(o)[j])
    /\ \A i \in DOMAIN o.answers : Written(cs, o, o.answers[i])
    /\ \A c \in DOMAIN cs \ {NoCall} : OnWire(o.sent, c) <= cs[c].len
    /\ o.cut = {} => OnWire(o.sent, NoCall) = 0
    /\ o.cut \subseteq DOMAIN cs

WriterInv(cs, o) ==
    /\ o \in Writer
    /\ Lines(cs, o.answers, Calls(Buffers(o)), o.polls, o.connectCb, "write", "pollWrite", "connect")
    /\ Wire(cs, o)

WriteNoted(end, o) ==
    /\ o.room > 0 => o.ready
    /\ ~o.nospace => o.ready /\ o.bufs = <<>>
    /\ o.bufs # <<>> => o.room = 0 /\ end # "reset"

LEMMA WriterFields ==
    ASSUME NEW o \in Writer
    PROVE  /\ o.ready \in BOOLEAN /\ o.bufs \in Seq(Buffer) /\ o.pend \in Seq(Buffer) /\ o.polls \in Seq(Call)
           /\ o.connectCb \in Call \cup {NoCall} /\ o.room \in 0 .. Space /\ o.room \in Nat
           /\ o.nospace \in BOOLEAN /\ o.answers \in Seq(Answer) /\ o.sent \in Seq(Byte) /\ o.cut \subseteq Call
           /\ Waiting(o.connectCb) \in Seq(Call)
BY Sizes DEF Writer, Waiting

LEMMA OnWireType ==
    ASSUME NEW s \in Seq(Byte), NEW c
    PROVE  IsFiniteSet({i \in DOMAIN s : s[i] = c}) /\ OnWire(s, c) \in Nat
<1>1. IsFiniteSet(DOMAIN s)
  BY LenProperties, FS_Interval
<1>2. IsFiniteSet({i \in DOMAIN s : s[i] = c})
  BY <1>1, FS_Subset
<1> QED BY <1>2, FS_CardinalityType DEF OnWire

LEMMA OnWireConcat ==
    ASSUME NEW s \in Seq(Byte), NEW t \in Seq(Byte), NEW c
    PROVE  OnWire(s \o t, c) = OnWire(s, c) + OnWire(t, c)
<1> DEFINE S == {i \in DOMAIN s : s[i] = c}
           T == {i \in DOMAIN t : t[i] = c}
           all == s \o t
           A == {i \in DOMAIN all : all[i] = c}
           B == {Len(s) + i : i \in T}
           f == [i \in T |-> Len(s) + i]
<1>1. /\ Len(s) \in Nat /\ DOMAIN s = 1 .. Len(s) /\ Len(t) \in Nat /\ DOMAIN t = 1 .. Len(t)
      /\ DOMAIN all = 1 .. Len(s) + Len(t)
      /\ \A i \in 1 .. Len(s) + Len(t) : all[i] = IF i <= Len(s) THEN s[i] ELSE t[i - Len(s)]
  BY LenProperties, ConcatProperties
<1>2. IsFiniteSet(S) /\ IsFiniteSet(T) /\ OnWire(s, c) = Cardinality(S) /\ OnWire(t, c) = Cardinality(T)
      /\ OnWire(all, c) = Cardinality(A)
  BY OnWireType DEF OnWire
<1>3. A = S \cup B
  <2>1. ASSUME NEW i \in A PROVE i \in S \cup B
    <3>1. CASE i <= Len(s)
      BY <1>1, <3>1
    <3>2. CASE i > Len(s)
      <4> DEFINE j == i - Len(s)
      <4>1. j \in DOMAIN t /\ t[j] = c /\ Len(s) + j = i
        BY <1>1, <3>2
      <4> HIDE DEF j
      <4> QED BY <4>1
    <3> QED BY <1>1, <3>1, <3>2
  <2>2. ASSUME NEW i \in S PROVE i \in A
    BY <1>1
  <2>3. ASSUME NEW i \in T PROVE Len(s) + i \in A
    <3>1. Len(s) + i \in 1 .. Len(s) + Len(t) /\ ~(Len(s) + i <= Len(s)) /\ (Len(s) + i) - Len(s) = i
      BY <1>1
    <3> QED BY <3>1, <1>1
  <2> HIDE DEF A, S, T
  <2> QED BY <2>1, <2>2, <2>3
<1>4. S \cap B = {}
  BY <1>1
<1>5. f \in Bijection(T, B)
  <2>1. f \in Injection(T, B)
    BY <1>1 DEF Injection, IsInjective
  <2>2. f \in Surjection(T, B)
    BY DEF Surjection
  <2> QED BY <2>1, <2>2 DEF Bijection
<1>6. IsFiniteSet(B) /\ Cardinality(B) = Cardinality(T)
  <2>1. ExistsBijection(T, B)
    BY <1>5 DEF ExistsBijection
  <2> HIDE DEF T, B
  <2> QED BY <2>1, <1>2, FS_Bijection
<1> HIDE DEF A, S, T, B
<1>7. Cardinality(S \cup B) = Cardinality(S) + Cardinality(B)
  <2>1. Cardinality(S \cup B) = Cardinality(S) + Cardinality(B) - Cardinality(S \cap B)
    BY <1>2, <1>6, FS_Union
  <2>2. Cardinality(S) \in Nat /\ Cardinality(B) \in Nat
    BY <1>2, <1>6, FS_CardinalityType
  <2>3. Cardinality(S \cap B) = 0
    BY <1>4, FS_EmptySet
  <2> QED BY <2>1, <2>2, <2>3
<1> QED BY <1>2, <1>3, <1>6, <1>7 DEF all

Rising(bufs) == \A i, j \in 1 .. Len(bufs) : i < j => bufs[i].call < bufs[j].call

\* Each byte is sent for the call in whose buffer it lies.
LEMMA GatheredOf ==
    ASSUME NEW bufs \in Seq(Buffer), NEW n \in Nat, n <= Bytes(bufs)
    PROVE  LET gone == Gathered(bufs, n) IN
           /\ gone \in Seq(Call) /\ Len(gone) = n
           /\ \A i \in 1 .. n : \E k \in 1 .. Len(bufs) :
                 gone[i] = bufs[k].call /\ Upto(bufs, k - 1) < i /\ i <= Upto(bufs, k)
<1> DEFINE gone == Gathered(bufs, n)
<1>0. Bytes(bufs) \in Nat
  BY LensType
<1>1. gone = [i \in 1 .. n |-> bufs[ConvertByteToBufferNumber(bufs, i)].call]
  BY DEF Gathered, ConvertByteToBufferNumber
<1>2. ASSUME NEW i \in 1 .. n
      PROVE  LET k == ConvertByteToBufferNumber(bufs, i) IN
             k \in 1 .. Len(bufs) /\ Upto(bufs, k - 1) < i /\ i <= Upto(bufs, k)
  <2>1. i \in 1 .. Bytes(bufs)
    BY <1>0
  <2> QED BY <2>1, BufferOf
<1>3. \A i \in 1 .. n : bufs[ConvertByteToBufferNumber(bufs, i)].call \in Call
  BY <1>2, BufferSeq
<1>4. gone \in Seq(Call) /\ Len(gone) = n
  BY <1>1, <1>3
<1> QED BY <1>1, <1>2, <1>4

LEMMA GatheredOrder ==
    ASSUME NEW bufs \in Seq(Buffer), NEW n \in Nat, n <= Bytes(bufs), Rising(bufs)
    PROVE  LET gone == Gathered(bufs, n) IN \A i, j \in 1 .. n : i < j => gone[i] <= gone[j]
<1> DEFINE gone == Gathered(bufs, n)
<1> HIDE DEF gone
<1> SUFFICES ASSUME NEW i \in 1 .. n, NEW j \in 1 .. n, i < j PROVE gone[i] <= gone[j]
  BY DEF gone
<1>1. PICK k \in 1 .. Len(bufs) : gone[i] = bufs[k].call /\ Upto(bufs, k - 1) < i /\ i <= Upto(bufs, k)
  BY GatheredOf DEF gone
<1>2. PICK m \in 1 .. Len(bufs) : gone[j] = bufs[m].call /\ Upto(bufs, m - 1) < j /\ j <= Upto(bufs, m)
  BY GatheredOf DEF gone
<1>3. Len(bufs) \in Nat /\ k - 1 \in 0 .. Len(bufs) /\ m \in 0 .. Len(bufs)
  BY BufferSeq
<1>4. Upto(bufs, k - 1) < Upto(bufs, m)
  <2>1. Upto(bufs, k - 1) \in Nat /\ Upto(bufs, m) \in Nat
    BY <1>3, UptoStep
  <2> QED BY <1>1, <1>2, <2>1
<1>5. k = m \/ k < m
  <2>1. k - 1 < m
    BY <1>3, <1>4, UptoStep
  <2> QED BY <1>3, <2>1
<1>6. bufs[k].call \in Nat /\ bufs[m].call \in Nat
  BY BufferSeq, Sizes DEF Call
<1> QED BY <1>1, <1>2, <1>5, <1>6 DEF Rising

\* How much of each buffer is among the first n bytes.
LEMMA GatheredShare ==
    ASSUME NEW bufs \in Seq(Buffer), NEW n \in Nat, n <= Bytes(bufs), Rising(bufs), NEW j \in 1 .. Len(bufs)
    PROVE  LET gone == Gathered(bufs, n) IN
           OnWire(gone, bufs[j].call) = IF Upto(bufs, j) <= n THEN bufs[j].len
                                        ELSE IF Upto(bufs, j - 1) < n THEN n - Upto(bufs, j - 1)
                                        ELSE 0
<1> DEFINE gone == Gathered(bufs, n)
           from == Upto(bufs, j - 1)
           to == Upto(bufs, j)
           last == IF to <= n THEN to ELSE n
           S == {i \in DOMAIN gone : gone[i] = bufs[j].call}
<1>0. /\ Len(bufs) \in Nat /\ j - 1 \in 0 .. Len(bufs) /\ j \in 0 .. Len(bufs)
      /\ from \in Nat /\ to \in Nat /\ bufs[j].len \in Nat /\ to = from + bufs[j].len
  <2>1. Len(bufs) \in Nat /\ j - 1 \in 0 .. Len(bufs) /\ j \in 0 .. Len(bufs)
    BY BufferSeq
  <2> QED BY <2>1, UptoStep, BufferSeq, Sizes
<1>1. gone \in Seq(Call) /\ Len(gone) = n /\ DOMAIN gone = 1 .. n
  <2>1. gone \in Seq(Call) /\ Len(gone) = n
    BY GatheredOf
  <2> HIDE DEF gone
  <2> QED BY <2>1, CallSeq
<1>2. ASSUME NEW i \in 1 .. n
      PROVE  gone[i] = bufs[j].call <=> from < i /\ i <= to
  <2>1. PICK k \in 1 .. Len(bufs) : gone[i] = bufs[k].call /\ Upto(bufs, k - 1) < i /\ i <= Upto(bufs, k)
    BY GatheredOf
  <2>2. bufs[k].call = bufs[j].call => k = j
    <3>1. k < j \/ j < k \/ k = j
      BY <1>0
    <3>2. bufs[k].call \in Nat /\ bufs[j].call \in Nat
      BY BufferSeq, Sizes DEF Call
    <3> QED BY <3>1, <3>2 DEF Rising
  <2>3. from < i /\ i <= to => k = j
    <3>1. i \in 1 .. Bytes(bufs)
      BY LensType
    <3>2. \A m \in 1 .. Len(bufs) : Upto(bufs, m - 1) < i /\ i <= Upto(bufs, m) => m = ConvertByteToBufferNumber(bufs, i)
      BY <3>1, BufferOf
    <3> QED BY <2>1, <3>2
  <2> QED BY <2>1, <2>2, <2>3
<1>3. S = from + 1 .. last
  <2>1. \A i \in 1 .. n : i \in S <=> from < i /\ i <= to
    BY <1>1, <1>2
  <2>2. S \subseteq 1 .. n
    BY <1>1
  <2> HIDE DEF S, from, to
  <2>3. \A i \in 1 .. n : from < i /\ i <= to <=> i \in from + 1 .. last
    BY <1>0
  <2>4. from + 1 .. last \subseteq 1 .. n
    BY <1>0
  <2> QED BY <2>1, <2>2, <2>3, <2>4
<1>4. OnWire(gone, bufs[j].call) = Cardinality(S)
  BY DEF OnWire
<1> HIDE DEF S, gone, from, to
<1>5. Cardinality(from + 1 .. last) = IF from + 1 > last THEN 0 ELSE last - (from + 1) + 1
  <2> DEFINE one == from + 1
  <2>1. one \in Int /\ last \in Int
    BY <1>0
  <2> HIDE DEF one, last
  <2>2. Cardinality(one .. last) = IF one > last THEN 0 ELSE last - one + 1
    BY <2>1, FS_Interval
  <2> QED BY <2>2 DEF one
<1>6. OnWire(gone, bufs[j].call) = IF to <= n THEN bufs[j].len ELSE IF from < n THEN n - from ELSE 0
  BY SMTT(30), <1>0, <1>3, <1>4, <1>5
<1> QED BY <1>6 DEF gone, from, to

LEMMA GatheredNone ==
    ASSUME NEW bufs \in Seq(Buffer), NEW n \in Nat, n <= Bytes(bufs), NEW c,
           \A j \in 1 .. Len(bufs) : bufs[j].call # c
    PROVE  OnWire(Gathered(bufs, n), c) = 0
<1> DEFINE gone == Gathered(bufs, n)
<1>1. gone \in Seq(Call) /\ Len(gone) = n /\ \A i \in 1 .. n : gone[i] # c
  BY GatheredOf
<1> HIDE DEF gone
<1>2. DOMAIN gone = 1 .. n
  BY <1>1, CallSeq
<1>3. {i \in DOMAIN gone : gone[i] = c} = {}
  BY <1>1, <1>2
<1>4. OnWire(gone, c) = 0
  BY <1>3, FS_EmptySet DEF OnWire
<1> QED BY <1>4 DEF gone

\* No more of a buffer is among them than it holds.
LEMMA GatheredMost ==
    ASSUME NEW bufs \in Seq(Buffer), NEW n \in Nat, n <= Bytes(bufs), Rising(bufs), NEW j \in 1 .. Len(bufs)
    PROVE  OnWire(Gathered(bufs, n), bufs[j].call) <= bufs[j].len
<1> DEFINE got == OnWire(Gathered(bufs, n), bufs[j].call)
           from == Upto(bufs, j - 1)
           to == Upto(bufs, j)
           len == bufs[j].len
<1>1. got = IF to <= n THEN len ELSE IF from < n THEN n - from ELSE 0
  BY GatheredShare
<1>2. from \in Nat /\ to \in Nat /\ len \in Nat /\ to = from + len
  <2>1. Len(bufs) \in Nat /\ j - 1 \in 0 .. Len(bufs) /\ j \in 0 .. Len(bufs)
    BY BufferSeq
  <2> QED BY <2>1, UptoStep, BufferSeq, Sizes
<1> HIDE DEF got, from, to, len
<1>3. got <= len
  BY <1>1, <1>2
<1> QED BY <1>3 DEF got, len

\* The bytes that come from a buffer that was cut before are of no call.
LEMMA BytesOfCalls ==
    ASSUME NEW o \in Writer, NEW n \in Nat, n <= Bytes(o.bufs)
    PROVE  LET gone == Gathered(o.bufs, n)
               own == BytesOf(o, n) IN
           /\ own \in Seq(Byte) /\ Len(own) = n
           /\ \A i \in 1 .. n : own[i] = NoCall \/ own[i] = gone[i]
           /\ \A c \in Call : OnWire(own, c) = IF c \in o.cut THEN 0 ELSE OnWire(gone, c)
           /\ o.cut = {} => OnWire(own, NoCall) = 0
<1> DEFINE gone == Gathered(o.bufs, n)
           own == BytesOf(o, n)
           cut == o.cut
<1>1. gone \in Seq(Call) /\ Len(gone) = n
  BY GatheredOf, WriterFields
<1>2. own = [i \in 1 .. n |-> IF gone[i] \in cut THEN NoCall ELSE gone[i]]
  BY DEF BytesOf
<1> HIDE DEF gone, own, cut
<1>3. DOMAIN gone = 1 .. n /\ \A i \in 1 .. n : gone[i] \in Call
  BY <1>1, CallSeq
<1>4. own \in Seq(Byte) /\ Len(own) = n /\ DOMAIN own = 1 .. n
  BY <1>2, <1>3 DEF Byte
<1>5. NoCall \notin Call
  BY DEF NoCall, Call
<1>6. \A i \in 1 .. n : own[i] = NoCall \/ own[i] = gone[i]
  BY <1>2
<1>7. ASSUME NEW c \in Call PROVE OnWire(own, c) = IF c \in cut THEN 0 ELSE OnWire(gone, c)
  <2>1. CASE c \in cut
    <3>1. {i \in DOMAIN own : own[i] = c} = {}
      BY <1>2, <1>4, <1>5, <2>1
    <3> QED BY <2>1, <3>1, FS_EmptySet DEF OnWire
  <2>2. CASE c \notin cut
    <3>1. {i \in DOMAIN own : own[i] = c} = {i \in DOMAIN gone : gone[i] = c}
      BY <1>2, <1>3, <1>4, <1>5, <2>2
    <3> QED BY <2>2, <3>1 DEF OnWire
  <2> QED BY <2>1, <2>2
<1>8. ASSUME cut = {} PROVE OnWire(own, NoCall) = 0
  <2>1. {i \in DOMAIN own : own[i] = NoCall} = {}
    BY <1>2, <1>3, <1>4, <1>5, <1>8
  <2> QED BY <2>1, FS_EmptySet DEF OnWire
<1> QED BY <1>4, <1>6, <1>7, <1>8 DEF gone, own, cut

--------------------------------------------------------------------------------
\* What is left of the writes after n bytes of them were sent

Size(bufs, n) == n - Bytes(SubSeq(bufs, 1, ConvertByteToBufferNumber(bufs, n) - 1))
Part(bufs, n) == Size(bufs, n) < bufs[ConvertByteToBufferNumber(bufs, n)].len
Done(bufs, n) == IF Part(bufs, n) THEN ConvertByteToBufferNumber(bufs, n) - 1
                 ELSE ConvertByteToBufferNumber(bufs, n)
Left(bufs, n) == SubSeq(bufs, Done(bufs, n) + 1, Len(bufs))
Rest(bufs, n) == IF Part(bufs, n) THEN [Left(bufs, n) EXCEPT ![1].len = @ - Size(bufs, n)] ELSE Left(bufs, n)

LEMMA SentRest ==
    ASSUME NEW bufs \in Seq(Buffer), NEW n \in 1 .. Bytes(bufs)
    PROVE  LET k == ConvertByteToBufferNumber(bufs, n)
               d == Done(bufs, n)
               rest == Rest(bufs, n) IN
           /\ k \in 1 .. Len(bufs) /\ d \in 0 .. Len(bufs)
           /\ Upto(bufs, k - 1) < n /\ n <= Upto(bufs, k)
           /\ d = (IF Part(bufs, n) THEN k - 1 ELSE k)
           /\ Part(bufs, n) <=> n < Upto(bufs, k)
           /\ rest \in Seq(Buffer) /\ Len(rest) = Len(bufs) - d
           /\ \A i \in 1 .. Len(rest) :
                 /\ d + i \in 1 .. Len(bufs) /\ rest[i].call = bufs[d + i].call
                 /\ rest[i].len = IF Part(bufs, n) /\ i = 1 THEN Upto(bufs, k) - n ELSE bufs[d + i].len
<1> DEFINE k == ConvertByteToBufferNumber(bufs, n)
           d == Done(bufs, n)
           left == Left(bufs, n)
           rest == Rest(bufs, n)
           size == Size(bufs, n)
           part == Part(bufs, n)
<1>0. Len(bufs) \in Nat /\ Bytes(bufs) \in Nat /\ n \in Nat
  BY BufferSeq, LensType
<1>1. k \in 1 .. Len(bufs) /\ Upto(bufs, k - 1) < n /\ n <= Upto(bufs, k)
  BY BufferOf
<1>2. size = n - Upto(bufs, k - 1) /\ (part <=> size < bufs[k].len) /\ d = IF part THEN k - 1 ELSE k
  BY DEF Size, Part, Done, Upto
<1>3. left = SubSeq(bufs, d + 1, Len(bufs))
      /\ rest = IF part THEN [left EXCEPT ![1].len = left[1].len - size] ELSE left
  BY DEF Left, Rest
<1> HIDE DEF k, d, left, rest, size, part
<1>4. /\ Upto(bufs, k - 1) \in Nat /\ Upto(bufs, k) = Upto(bufs, k - 1) + bufs[k].len
      /\ bufs[k].len \in 1 .. MaxLength /\ bufs[k].len \in Nat /\ MaxLength \in Nat
  BY <1>0, <1>1, UptoStep, BufferSeq, Sizes
<1>5. d \in 0 .. Len(bufs) /\ (part <=> n < Upto(bufs, k)) /\ (part => size \in 1 .. MaxLength /\ d + 1 = k)
  <2>1. d \in 0 .. Len(bufs) /\ (part => d + 1 = k)
    BY <1>0, <1>1, <1>2
  <2>2. part <=> n < Upto(bufs, k)
    <3>1. size < bufs[k].len <=> n < Upto(bufs, k)
      BY <1>0, <1>2, <1>4
    <3> QED BY <1>2, <3>1
  <2>3. part => size \in 1 .. MaxLength
    BY <1>0, <1>1, <1>2, <1>4
  <2> QED BY <2>1, <2>2, <2>3
<1>6. /\ left \in Seq(Buffer) /\ Len(left) = Len(bufs) - d
      /\ \A i \in 1 .. Len(left) : d + i \in 1 .. Len(bufs) /\ left[i] = bufs[d + i]
  <2>1. d + 1 \in 1 .. Len(bufs) + 1 /\ Len(bufs) \in 0 .. Len(bufs) /\ d + 1 <= Len(bufs) + 1
        /\ Len(bufs) - (d + 1) + 1 = Len(bufs) - d
    BY <1>0, <1>5
  <2>2. /\ left \in Seq(Buffer) /\ Len(left) = Len(bufs) - (d + 1) + 1
        /\ \A i \in 1 .. Len(bufs) - (d + 1) + 1 : left[i] = bufs[(d + 1) + i - 1]
    BY <1>3, <2>1, Slice
  <2>3. \A i \in 1 .. Len(bufs) - d : (d + 1) + i - 1 = d + i /\ d + i \in 1 .. Len(bufs)
    BY <1>0, <1>5
  <2> QED BY <2>1, <2>2, <2>3
<1>7. /\ rest \in Seq(Buffer) /\ Len(rest) = Len(bufs) - d
      /\ \A i \in 1 .. Len(rest) :
            /\ d + i \in 1 .. Len(bufs) /\ rest[i].call = bufs[d + i].call
            /\ rest[i].len = IF part /\ i = 1 THEN Upto(bufs, k) - n ELSE bufs[d + i].len
  <2>1. CASE ~part
    BY <1>3, <1>6, <2>1
  <2>2. CASE part
    <3> DEFINE b == [left[1] EXCEPT !.len = left[1].len - size]
    <3>1. 1 \in 1 .. Len(left) /\ left[1] = bufs[k]
      <4>1. 1 \in 1 .. Len(left)
        BY <1>0, <1>1, <1>5, <1>6, <2>2
      <4>2. left[1] = bufs[d + 1]
        BY <1>6, <4>1
      <4> QED BY <4>1, <4>2, <1>5, <2>2
    <3>2. left[1].len - size = Upto(bufs, k) - n /\ left[1].len - size \in 1 .. MaxLength
      <4>1. left[1].len - size = Upto(bufs, k) - n
        BY <1>0, <1>2, <1>4, <3>1
      <4>2. n < Upto(bufs, k) /\ size \in 1 .. MaxLength
        BY <1>5, <2>2
      <4>3. left[1].len = bufs[k].len
        BY <3>1
      <4>4. left[1].len - size >= 1
        BY <1>0, <1>4, <4>1, <4>2
      <4>5. left[1].len - size <= MaxLength /\ left[1].len - size \in Int
        BY <1>4, <4>2, <4>3
      <4> QED BY <1>4, <4>1, <4>4, <4>5
    <3>3. left[1] \in Buffer
      BY <3>1, <1>1, BufferSeq
    <3>4. b \in Buffer /\ b.call = left[1].call /\ b.len = Upto(bufs, k) - n
      <4> DEFINE len == left[1].len - size
      <4>1. len \in 1 .. MaxLength /\ len = Upto(bufs, k) - n
        BY <3>2
      <4> HIDE DEF len
      <4>2. [left[1] EXCEPT !.len = len] \in Buffer /\ [left[1] EXCEPT !.len = len].call = left[1].call
            /\ [left[1] EXCEPT !.len = len].len = len
        BY <3>3, <4>1 DEF Buffer
      <4> QED BY <4>1, <4>2 DEF len
    <3>5. rest = [left EXCEPT ![1] = b]
      BY <1>3, <2>2
    <3> HIDE DEF b
    <3>6. /\ rest \in Seq(Buffer) /\ Len(rest) = Len(left)
          /\ \A i \in 1 .. Len(left) : rest[i] = IF i = 1 THEN b ELSE left[i]
      BY <1>6, <3>1, <3>4, <3>5
    <3>7. ASSUME NEW i \in 1 .. Len(left)
          PROVE  /\ d + i \in 1 .. Len(bufs) /\ rest[i].call = bufs[d + i].call
                 /\ rest[i].len = IF i = 1 THEN Upto(bufs, k) - n ELSE bufs[d + i].len
      <4>1. CASE i = 1
        <5>1. rest[i] = b /\ d + i = k
          BY <3>6, <4>1, <1>5, <2>2
        <5> QED BY <5>1, <4>1, <3>1, <3>4, <1>1
      <4>2. CASE i # 1
        BY <4>2, <3>6, <1>6
      <4> QED BY <4>1, <4>2
    <3> QED BY <1>6, <2>2, <3>6, <3>7
  <2> QED BY <2>1, <2>2
<1> QED BY <1>1, <1>2, <1>5, <1>7 DEF k, d, left, rest, size, part

\* The same, told of the calls.
LEMMA SentShares ==
    ASSUME NEW bufs \in Seq(Buffer), NEW n \in 1 .. Bytes(bufs), Rising(bufs)
    PROVE  LET d == Done(bufs, n)
               rest == Rest(bufs, n)
               gone == Gathered(bufs, n) IN
           /\ \A i \in 1 .. d : OnWire(gone, bufs[i].call) = bufs[i].len
           /\ \A i \in 1 .. Len(rest) : OnWire(gone, rest[i].call) + rest[i].len = bufs[d + i].len
           /\ \A i \in 1 .. n, j \in 1 .. Len(rest) : gone[i] <= rest[j].call
           /\ rest # <<>> => n < Bytes(bufs)
           /\ Part(bufs, n) => /\ 1 \in 1 .. Len(rest) /\ rest[1].len < bufs[d + 1].len
                               /\ rest[1].call = bufs[ConvertByteToBufferNumber(bufs, n)].call
<1> DEFINE k == ConvertByteToBufferNumber(bufs, n)
           d == Done(bufs, n)
           rest == Rest(bufs, n)
           gone == Gathered(bufs, n)
           part == Part(bufs, n)
<1>0. Len(bufs) \in Nat /\ Bytes(bufs) \in Nat /\ n \in Nat /\ n <= Bytes(bufs)
  BY BufferSeq, LensType
<1>1. /\ k \in 1 .. Len(bufs) /\ d \in 0 .. Len(bufs)
      /\ Upto(bufs, k - 1) < n /\ n <= Upto(bufs, k)
      /\ d = (IF part THEN k - 1 ELSE k)
      /\ part <=> n < Upto(bufs, k)
      /\ rest \in Seq(Buffer) /\ Len(rest) = Len(bufs) - d
      /\ \A i \in 1 .. Len(rest) :
            /\ d + i \in 1 .. Len(bufs) /\ rest[i].call = bufs[d + i].call
            /\ rest[i].len = IF part /\ i = 1 THEN Upto(bufs, k) - n ELSE bufs[d + i].len
  BY SentRest
<1>2. \A j \in 1 .. Len(bufs) :
         OnWire(gone, bufs[j].call) = IF Upto(bufs, j) <= n THEN bufs[j].len
                                      ELSE IF Upto(bufs, j - 1) < n THEN n - Upto(bufs, j - 1)
                                      ELSE 0
  BY <1>0, GatheredShare
<1>3. \A i \in 1 .. n : \E m \in 1 .. Len(bufs) :
         gone[i] = bufs[m].call /\ Upto(bufs, m - 1) < i /\ i <= Upto(bufs, m)
  BY <1>0, GatheredOf
<1> HIDE DEF k, d, rest, gone, part
<1>4. /\ \A j \in 1 .. Len(bufs) : /\ j - 1 \in 0 .. Len(bufs) /\ j \in 0 .. Len(bufs)
                                   /\ Upto(bufs, j - 1) \in Nat /\ Upto(bufs, j) \in Nat
                                   /\ Upto(bufs, j) = Upto(bufs, j - 1) + bufs[j].len
                                   /\ bufs[j].len \in Nat /\ bufs[j].len >= 1
      /\ \A i, j \in 0 .. Len(bufs) : i < j => Upto(bufs, i) < Upto(bufs, j)
  <2>1. \A j \in 1 .. Len(bufs) : j - 1 \in 0 .. Len(bufs) /\ j \in 0 .. Len(bufs)
    BY <1>0
  <2>2. \A j \in 1 .. Len(bufs) : bufs[j].len \in Nat /\ bufs[j].len >= 1
    BY BufferSeq, Sizes
  <2> QED BY <2>1, <2>2, UptoStep
<1>5. ASSUME NEW i \in 1 .. d PROVE OnWire(gone, bufs[i].call) = bufs[i].len
  <2>1. i \in 1 .. Len(bufs) /\ i \in 0 .. Len(bufs)
    BY <1>0, <1>1
  <2>2. Upto(bufs, i) <= n
    <3>1. CASE i = k
      <4>1. ~part
        BY <1>0, <1>1, <3>1
      <4> QED BY <1>0, <1>1, <1>4, <3>1, <4>1
    <3>2. CASE i < k
      <4>1. i = k - 1 \/ i < k - 1
        BY <1>0, <1>1, <3>2
      <4>2. Upto(bufs, i) <= Upto(bufs, k - 1)
        <5>1. Upto(bufs, i) \in Nat /\ k - 1 \in 0 .. Len(bufs)
          BY <1>1, <1>4, <2>1
        <5>2. i < k - 1 => Upto(bufs, i) < Upto(bufs, k - 1)
          BY <1>4, <2>1, <5>1
        <5> QED BY <1>1, <1>4, <4>1, <5>1, <5>2
      <4> QED BY <1>0, <1>1, <1>4, <2>1, <4>2
    <3> QED BY <1>0, <1>1, <3>1, <3>2
  <2> QED BY <1>2, <2>1, <2>2
<1>6. ASSUME NEW i \in 1 .. Len(rest) PROVE OnWire(gone, rest[i].call) + rest[i].len = bufs[d + i].len
  <2> DEFINE j == d + i
  <2>1. j \in 1 .. Len(bufs) /\ rest[i].call = bufs[j].call /\ j >= k /\ (j = k <=> part /\ i = 1)
    <3>1. j \in 1 .. Len(bufs) /\ rest[i].call = bufs[j].call
      BY <1>1
    <3>2. d = (IF part THEN k - 1 ELSE k) /\ k \in Int /\ i \in Int /\ i >= 1
      BY <1>0, <1>1
    <3>3. j >= k /\ (j = k <=> part /\ i = 1)
      BY <3>2
    <3> QED BY <3>1, <3>3
  <2>2. rest[i].len = IF part /\ i = 1 THEN Upto(bufs, k) - n ELSE bufs[j].len
    BY <1>1
  <2> HIDE DEF j
  <2>3. CASE j = k
    <3>1. OnWire(gone, bufs[j].call) = n - Upto(bufs, k - 1)
      <4>1. n < Upto(bufs, k) /\ Upto(bufs, k - 1) < n
        BY <1>1, <2>1, <2>3
      <4>2. ~(Upto(bufs, k) <= n)
        BY <1>0, <1>1, <1>4, <4>1
      <4> QED BY <1>1, <1>2, <2>3, <4>1, <4>2
    <3> QED BY SMTT(30), <1>0, <1>1, <1>4, <2>1, <2>2, <2>3, <3>1 DEF j
  <2>4. CASE j > k
    <3>1. k \in 0 .. Len(bufs) /\ j \in 0 .. Len(bufs) /\ j - 1 \in 0 .. Len(bufs) /\ (k = j - 1 \/ k < j - 1)
      BY <1>0, <1>1, <2>1, <2>4
    <3>2. n <= Upto(bufs, j - 1)
      <4>1. k < j - 1 => Upto(bufs, k) < Upto(bufs, j - 1)
        BY <1>4, <3>1
      <4>2. Upto(bufs, k) \in Nat /\ Upto(bufs, j - 1) \in Nat /\ n <= Upto(bufs, k)
        BY <1>1, <1>4, <2>1
      <4> QED BY <1>0, <3>1, <4>1, <4>2
    <3>3. n < Upto(bufs, j)
      <4> DEFINE u == Upto(bufs, j)
                 v == Upto(bufs, j - 1)
                 l == bufs[j].len
      <4>1. u \in Nat /\ v \in Nat /\ l \in Nat /\ u = v + l /\ l >= 1
        BY <1>4, <2>1
      <4>2. n \in Nat /\ n <= v
        BY <1>0, <3>2
      <4> HIDE DEF u, v, l
      <4>3. n < u
        BY ONLY <4>1, <4>2
      <4> QED BY <4>3 DEF u
    <3>4. OnWire(gone, bufs[j].call) = 0
      BY <1>0, <1>2, <1>4, <2>1, <3>2, <3>3
    <3>5. rest[i].len = bufs[j].len
      BY <1>0, <1>1, <2>1, <2>2, <2>4
    <3> QED BY <2>1, <3>4, <3>5, <1>4 DEF j
  <2> QED BY <1>0, <1>1, <2>1, <2>3, <2>4
<1>7. ASSUME NEW i \in 1 .. n, NEW j \in 1 .. Len(rest) PROVE gone[i] <= rest[j].call
  <2>1. PICK m \in 1 .. Len(bufs) : gone[i] = bufs[m].call /\ Upto(bufs, m - 1) < i /\ i <= Upto(bufs, m)
    BY <1>3
  <2>2. Upto(bufs, m - 1) < Upto(bufs, k)
    BY <1>0, <1>1, <1>4, <2>1
  <2>3. m - 1 < k
    BY <1>1, <1>4, <2>2, UptoStep
  <2>4. d + j \in 1 .. Len(bufs) /\ rest[j].call = bufs[d + j].call /\ (m = d + j \/ m < d + j)
    <3>1. d + j \in 1 .. Len(bufs) /\ rest[j].call = bufs[d + j].call
      BY <1>1
    <3>2. d + j >= k
      BY <1>0, <1>1
    <3>3. m \in Int /\ k \in Int /\ d + j \in Int
      BY <1>0, <1>1
    <3>4. m <= d + j
      BY <2>3, <3>2, <3>3
    <3> QED BY <3>1, <3>3, <3>4
  <2>5. bufs[m].call \in Nat /\ bufs[d + j].call \in Nat
    BY <2>4, BufferSeq, Sizes DEF Call
  <2> QED BY <2>1, <2>4, <2>5 DEF Rising
<1>8. rest # <<>> => n < Bytes(bufs)
  <2> SUFFICES ASSUME rest # <<>> PROVE n < Bytes(bufs)
    OBVIOUS
  <2>1. Len(rest) # 0
    BY <1>1, EmptySeq
  <2>2. Upto(bufs, Len(bufs)) = Bytes(bufs)
    BY UptoStep
  <2>3. k \in 0 .. Len(bufs) /\ Len(bufs) \in 0 .. Len(bufs) /\ (k = Len(bufs) \/ k < Len(bufs))
    BY <1>0, <1>1
  <2>4. k = Len(bufs) => part
    BY <1>0, <1>1, <2>1
  <2> QED BY <1>0, <1>1, <1>4, <2>2, <2>3, <2>4
<1>9. part => 1 \in 1 .. Len(rest) /\ rest[1].len < bufs[d + 1].len /\ rest[1].call = bufs[k].call
  <2> SUFFICES ASSUME part PROVE 1 \in 1 .. Len(rest) /\ rest[1].len < bufs[d + 1].len /\ rest[1].call = bufs[k].call
    OBVIOUS
  <2>1. d + 1 = k /\ 1 \in 1 .. Len(rest)
    BY <1>0, <1>1
  <2>2. rest[1].call = bufs[k].call /\ rest[1].len = Upto(bufs, k) - n
    BY <1>1, <2>1
  <2>3. Upto(bufs, k) - n < bufs[k].len
    BY <1>0, <1>1, <1>4
  <2> QED BY <2>1, <2>2, <2>3
<1> QED BY <1>5, <1>6, <1>7, <1>8, <1>9 DEF k, d, rest, gone, part

OfWrites(cs, bufs) == \A i \in 1 .. Len(bufs) : bufs[i].call \in DOMAIN cs /\ cs[bufs[i].call].op = "write"
Behind(cs, ans, bufs) ==
    \A i \in DOMAIN ans, j \in 1 .. Len(bufs) : cs[ans[i].call].op = "write" => ans[i].call < bufs[j].call

\* The waiting writes, in the order of their calls.
LEMMA WaitingCalls ==
    ASSUME NEW cs, NEW o, WriterInv(cs, o)
    PROVE  LET all == Buffers(o) IN
           /\ all \in Seq(Buffer) /\ Len(all) = Len(o.bufs) + Len(o.pend)
           /\ \A i \in 1 .. Len(o.bufs) : i \in 1 .. Len(all) /\ all[i] = o.bufs[i]
           /\ \A i \in 1 .. Len(o.pend) : Len(o.bufs) + i \in 1 .. Len(all) /\ all[Len(o.bufs) + i] = o.pend[i]
           /\ Rising(all) /\ Rising(o.bufs)
           /\ OfWrites(cs, all) /\ Behind(cs, o.answers, all)
<1> DEFINE all == Buffers(o)
<1>0. o.bufs \in Seq(Buffer) /\ o.pend \in Seq(Buffer) /\ Len(o.bufs) \in Nat /\ Len(o.pend) \in Nat
  BY WriterFields, BufferSeq DEF WriterInv
<1>1. /\ all \in Seq(Buffer) /\ Len(all) = Len(o.bufs) + Len(o.pend)
      /\ \A i \in 1 .. Len(o.bufs) + Len(o.pend) :
            all[i] = IF i <= Len(o.bufs) THEN o.bufs[i] ELSE o.pend[i - Len(o.bufs)]
  BY <1>0, ConcatBuffers DEF Buffers
<1>2. InLine(cs, o.answers, Calls(all), "write")
  BY DEF WriterInv, Lines
<1> HIDE DEF all
<1>3. /\ Calls(all) \in Seq(Call) /\ DOMAIN Calls(all) = 1 .. Len(all)
      /\ \A i \in 1 .. Len(all) : Calls(all)[i] = all[i].call
  BY <1>1, CallsType, CallSeq
<1>4. Rising(all)
  BY <1>2, <1>3 DEF Rising, InLine
<1>5. OfWrites(cs, all)
  BY <1>2, <1>3 DEF OfWrites, InLine
<1>6. Behind(cs, o.answers, all)
  BY <1>2, <1>3 DEF Behind, InLine
<1>7. \A i \in 1 .. Len(o.bufs) : i \in 1 .. Len(all) /\ all[i] = o.bufs[i]
  <2> DEFINE s == o.bufs
             t == o.pend
  <2>1. /\ Len(s) \in Nat /\ Len(t) \in Nat /\ Len(all) = Len(s) + Len(t)
        /\ \A i \in 1 .. Len(s) + Len(t) : all[i] = IF i <= Len(s) THEN s[i] ELSE t[i - Len(s)]
    BY <1>0, <1>1
  <2> HIDE DEF s, t
  <2>2. \A i \in 1 .. Len(s) : i \in 1 .. Len(all) /\ all[i] = s[i]
    BY <2>1
  <2> QED BY <2>2 DEF s
<1>8. \A i \in 1 .. Len(o.pend) : Len(o.bufs) + i \in 1 .. Len(all) /\ all[Len(o.bufs) + i] = o.pend[i]
  <2> DEFINE s == o.bufs
             t == o.pend
  <2>1. /\ Len(s) \in Nat /\ Len(t) \in Nat /\ Len(all) = Len(s) + Len(t)
        /\ \A i \in 1 .. Len(s) + Len(t) : all[i] = IF i <= Len(s) THEN s[i] ELSE t[i - Len(s)]
    BY <1>0, <1>1
  <2> HIDE DEF s, t
  <2>2. ASSUME NEW i \in 1 .. Len(t) PROVE Len(s) + i \in 1 .. Len(all) /\ all[Len(s) + i] = t[i]
    <3>1. /\ Len(s) + i \in 1 .. Len(s) + Len(t) /\ ~(Len(s) + i <= Len(s))
          /\ (Len(s) + i) - Len(s) = i
      BY <2>1
    <3> QED BY <2>1, <3>1
  <2> QED BY <2>2 DEF s, t
<1>9. Rising(o.bufs)
  BY <1>4, <1>7 DEF Rising
<1> QED BY <1>1, <1>4, <1>5, <1>6, <1>7, <1>8, <1>9 DEF all

Cutting(o, n) == IF Part(o.bufs, n) THEN o.cut \cup {o.bufs[ConvertByteToBufferNumber(o.bufs, n)].call} ELSE o.cut

\* What waits after n bytes were sent, and what it was before.
LEMMA SentWaiting ==
    ASSUME NEW cs, NEW o, WriterInv(cs, o), NEW n \in 1 .. Bytes(o.bufs)
    PROVE  LET all == Buffers(o)
               d == Done(o.bufs, n)
               left == Rest(o.bufs, n) \o o.pend
               gone == Gathered(o.bufs, n) IN
           /\ left \in Seq(Buffer)
           /\ \A j \in 1 .. Len(left) : \E i \in 1 .. Len(all) :
                 /\ left[j].call = all[i].call
                 /\ OnWire(gone, left[j].call) + left[j].len = all[i].len
                 /\ left[j].call \in Cutting(o, n) <=> left[j].call \in o.cut \/ left[j].len < all[i].len
                 /\ \A g \in 1 .. n : gone[g] <= left[j].call
<1> DEFINE all == Buffers(o)
           bufs == o.bufs
           d == Done(bufs, n)
           rest == Rest(bufs, n)
           left == rest \o o.pend
           gone == Gathered(bufs, n)
           part == Part(bufs, n)
           k == ConvertByteToBufferNumber(bufs, n)
           cut == Cutting(o, n)
<1>0. bufs \in Seq(Buffer) /\ o.pend \in Seq(Buffer) /\ Len(bufs) \in Nat /\ Len(o.pend) \in Nat
      /\ n \in Nat /\ n <= Bytes(bufs)
  BY WriterFields, BufferSeq, LensType DEF WriterInv
<1>1. /\ all \in Seq(Buffer) /\ Len(all) = Len(bufs) + Len(o.pend)
      /\ \A i \in 1 .. Len(bufs) : i \in 1 .. Len(all) /\ all[i] = bufs[i]
      /\ \A i \in 1 .. Len(o.pend) : Len(bufs) + i \in 1 .. Len(all) /\ all[Len(bufs) + i] = o.pend[i]
      /\ Rising(all) /\ Rising(bufs)
  BY WaitingCalls
<1>2. /\ k \in 1 .. Len(bufs) /\ d \in 0 .. Len(bufs)
      /\ d = (IF part THEN k - 1 ELSE k)
      /\ rest \in Seq(Buffer) /\ Len(rest) = Len(bufs) - d
      /\ \A i \in 1 .. Len(rest) :
            /\ d + i \in 1 .. Len(bufs) /\ rest[i].call = bufs[d + i].call
            /\ ~(part /\ i = 1) => rest[i].len = bufs[d + i].len
  BY <1>0, SentRest
<1>3. /\ \A i \in 1 .. Len(rest) : OnWire(gone, rest[i].call) + rest[i].len = bufs[d + i].len
      /\ \A i \in 1 .. n, j \in 1 .. Len(rest) : gone[i] <= rest[j].call
      /\ part => 1 \in 1 .. Len(rest) /\ rest[1].len < bufs[d + 1].len /\ rest[1].call = bufs[k].call
  BY <1>0, <1>1, SentShares
<1>4. \A i \in 1 .. n : \E m \in 1 .. Len(bufs) : gone[i] = bufs[m].call
  BY <1>0, GatheredOf
<1>5. /\ left \in Seq(Buffer) /\ Len(left) = Len(rest) + Len(o.pend)
      /\ \A i \in 1 .. Len(rest) + Len(o.pend) : left[i] = IF i <= Len(rest) THEN rest[i] ELSE o.pend[i - Len(rest)]
  <2> HIDE DEF rest
  <2> QED BY <1>0, <1>2, ConcatBuffers
<1>6. cut = IF part THEN o.cut \cup {bufs[k].call} ELSE o.cut
  BY DEF Cutting
<1>7. \A i \in 1 .. Len(all) : all[i].call \in Nat /\ all[i].len \in Nat
  <2> HIDE DEF all
  <2>1. \A i \in 1 .. Len(all) : all[i].call \in Call /\ all[i].len \in 1 .. MaxLength
    BY <1>1, BufferSeq
  <2> QED BY <2>1, Sizes DEF Call
<1>8. \A c : (\A m \in 1 .. Len(bufs) : bufs[m].call # c) => OnWire(gone, c) = 0
  BY <1>0, GatheredNone
<1> HIDE DEF all, d, rest, left, gone, part, k, cut, bufs
<1>9. ASSUME NEW j \in 1 .. Len(left)
      PROVE  \E i \in 1 .. Len(all) :
                /\ left[j].call = all[i].call
                /\ OnWire(gone, left[j].call) + left[j].len = all[i].len
                /\ left[j].call \in cut <=> left[j].call \in o.cut \/ left[j].len < all[i].len
                /\ \A g \in 1 .. n : gone[g] <= left[j].call
  <2>0. Len(rest) \in Nat
    BY <1>0, <1>2
  <2>1. CASE j <= Len(rest)
    <3>1. j \in 1 .. Len(rest) /\ left[j] = rest[j]
      BY <1>0, <1>5, <2>0, <2>1
    <3> DEFINE i == d + j
    <3>2. i \in 1 .. Len(bufs) /\ i \in 1 .. Len(all) /\ rest[j].call = bufs[i].call /\ all[i] = bufs[i]
      BY <1>1, <1>2, <3>1
    <3>3. OnWire(gone, rest[j].call) + rest[j].len = all[i].len
      BY <1>3, <3>1, <3>2
    <3>4. \A g \in 1 .. n : gone[g] <= rest[j].call
      BY <1>3, <3>1
    <3>5. rest[j].call \in cut <=> rest[j].call \in o.cut \/ rest[j].len < all[i].len
      <4>1. CASE part /\ j = 1
        <5>1. rest[j].call = bufs[k].call /\ rest[j].len < bufs[d + 1].len /\ d + 1 = i
          BY <1>3, <4>1
        <5> QED BY <1>6, <3>2, <4>1, <5>1
      <4>2. CASE ~(part /\ j = 1)
        <5>1. rest[j].len = all[i].len /\ ~(rest[j].len < all[i].len)
          <6>1. rest[j].len = all[i].len
            BY <1>2, <3>1, <3>2, <4>2
          <6>2. all[i].len \in Nat
            BY <1>7, <3>2
          <6> QED BY <6>1, <6>2
        <5>2. part => rest[j].call # bufs[k].call
          <6> SUFFICES ASSUME part PROVE rest[j].call # bufs[k].call
            OBVIOUS
          <6>1. k < i
            BY <1>0, <1>2, <3>1, <4>2
          <6>2. bufs[k].call < bufs[i].call /\ bufs[k].call \in Nat /\ bufs[i].call \in Nat
            BY <1>1, <1>2, <1>7, <3>2, <6>1 DEF Rising
          <6> QED BY <3>2, <6>2
        <5> QED BY <1>6, <5>1, <5>2
      <4> QED BY <4>1, <4>2
    <3> HIDE DEF i
    <3> QED BY <3>1, <3>2, <3>3, <3>4, <3>5
  <2>2. CASE j > Len(rest)
    <3> DEFINE m == j - Len(rest)
               i == Len(bufs) + m
    <3>1. m \in 1 .. Len(o.pend) /\ left[j] = o.pend[m]
      BY <1>0, <1>5, <2>0, <2>2
    <3>2. i \in 1 .. Len(all) /\ all[i] = o.pend[m]
      BY <1>1, <3>1
    <3>3. \A h \in 1 .. Len(bufs) : h < i
      BY <1>0, <3>1
    <3> HIDE DEF i
    <3>4. \A h \in 1 .. Len(bufs) : bufs[h].call < all[i].call /\ bufs[h].call \in Nat /\ all[i].call \in Nat
      BY <1>1, <1>7, <3>2, <3>3 DEF Rising
    <3>5. OnWire(gone, all[i].call) = 0
      <4>1. \A h \in 1 .. Len(bufs) : bufs[h].call # all[i].call
        BY <3>4
      <4> QED BY <1>8, <4>1
    <3>6. all[i].call \in cut <=> all[i].call \in o.cut
      BY SMTT(30), <1>2, <1>6, <3>4
    <3>7. \A g \in 1 .. n : gone[g] <= all[i].call
      BY <1>4, <3>4
    <3>8. OnWire(gone, all[i].call) + all[i].len = all[i].len /\ ~(all[i].len < all[i].len)
      BY <1>7, <3>2, <3>5
    <3> QED BY <3>1, <3>2, <3>6, <3>7, <3>8
  <2> QED BY <2>0, <2>1, <2>2
<1> QED BY <1>5, <1>9 DEF all, d, rest, left, gone, part, k, cut, bufs

\* The calls of whole buffers are answered, and the rest waits.
LEMMA WriterSent ==
    ASSUME NEW cs, NEW o, WriterInv(cs, o), NEW n \in 1 .. Bytes(o.bufs), n <= o.room
    PROVE  LET p == Sent(o, n) IN
           /\ WriterInv(cs, p)
           /\ p.polls = o.polls /\ p.connectCb = o.connectCb /\ p.room = o.room - n
           /\ p.ready <=> p.bufs = <<>>
           /\ p.nospace <=> p.bufs # <<>>
           /\ p.bufs # <<>> => n < Bytes(o.bufs)
           /\ ToSet(Calls(o.answers)) \subseteq ToSet(Calls(p.answers))
<1> DEFINE all == Buffers(o)
           bufs == o.bufs
           d == Done(bufs, n)
           rest == Rest(bufs, n)
           left == rest \o o.pend
           gone == Gathered(bufs, n)
           own == BytesOf(o, n)
           more == InFull(SubSeq(bufs, 1, d))
           cut == Cutting(o, n)
           room == o.room - n
           sent == o.sent \o own
           answers == o.answers \o more
           p == Sent(o, n)
<1>0. /\ o \in Writer /\ bufs \in Seq(Buffer) /\ o.pend \in Seq(Buffer) /\ o.answers \in Seq(Answer)
      /\ o.sent \in Seq(Byte) /\ o.cut \subseteq Call /\ o.room \in 0 .. Space /\ o.room \in Nat
      /\ Len(bufs) \in Nat /\ n \in Nat /\ n <= Bytes(bufs)
  BY WriterFields, BufferSeq, LensType DEF WriterInv
<1>1. p = [o EXCEPT !.ready = rest = <<>>, !.bufs = rest, !.room = room, !.nospace = rest # <<>>,
                    !.sent = sent, !.answers = answers, !.cut = cut]
  BY DEF Sent, Cutting, Part, Size, Done, Left, Rest
<1>2. /\ d \in 0 .. Len(bufs) /\ rest \in Seq(Buffer) /\ Len(rest) = Len(bufs) - d
      /\ \A i \in 1 .. Len(rest) : rest[i].call = bufs[d + i].call
      /\ ConvertByteToBufferNumber(bufs, n) \in 1 .. Len(bufs)
      /\ d = (IF Part(bufs, n) THEN ConvertByteToBufferNumber(bufs, n) - 1 ELSE ConvertByteToBufferNumber(bufs, n))
  BY <1>0, SentRest
<1>3. /\ all \in Seq(Buffer) /\ Rising(all) /\ Rising(bufs)
      /\ \A i \in 1 .. Len(bufs) : i \in 1 .. Len(all) /\ all[i] = bufs[i]
      /\ \A i \in 1 .. Len(all) : all[i].call \in DOMAIN cs /\ cs[all[i].call].op = "write"
      /\ \A i \in DOMAIN o.answers, j \in 1 .. Len(all) :
            cs[o.answers[i].call].op = "write" => o.answers[i].call < all[j].call
      /\ DOMAIN all = 1 .. Len(all)
  <2>1. /\ all \in Seq(Buffer) /\ Rising(all) /\ Rising(bufs)
        /\ \A i \in 1 .. Len(bufs) : i \in 1 .. Len(all) /\ all[i] = bufs[i]
    BY WaitingCalls
  <2>2. OfWrites(cs, all) /\ Behind(cs, o.answers, all)
    BY WaitingCalls
  <2>3. DOMAIN all = 1 .. Len(all)
    BY <2>1, BufferSeq
  <2> QED BY <2>1, <2>2, <2>3 DEF OfWrites, Behind
<1>4. /\ \A i \in 1 .. d : OnWire(gone, bufs[i].call) = bufs[i].len
      /\ rest # <<>> => n < Bytes(bufs)
  BY <1>0, <1>3, SentShares
<1>5. /\ left \in Seq(Buffer)
      /\ \A j \in 1 .. Len(left) : \E i \in 1 .. Len(all) :
            /\ left[j].call = all[i].call
            /\ OnWire(gone, left[j].call) + left[j].len = all[i].len
            /\ left[j].call \in cut <=> left[j].call \in o.cut \/ left[j].len < all[i].len
            /\ \A g \in 1 .. n : gone[g] <= left[j].call
  BY SentWaiting
<1>6. /\ gone \in Seq(Call) /\ Len(gone) = n
      /\ \A i \in 1 .. n : \E m \in 1 .. Len(bufs) : gone[i] = bufs[m].call
  BY <1>0, GatheredOf
<1>7. \A i, j \in 1 .. n : i < j => gone[i] <= gone[j]
  BY <1>0, <1>3, GatheredOrder
<1>8. /\ own \in Seq(Byte) /\ Len(own) = n
      /\ \A i \in 1 .. n : own[i] = NoCall \/ own[i] = gone[i]
      /\ \A c \in Call : OnWire(own, c) = IF c \in o.cut THEN 0 ELSE OnWire(gone, c)
      /\ o.cut = {} => OnWire(own, NoCall) = 0
  BY <1>0, BytesOfCalls
<1>9. \A m \in 1 .. Len(bufs) : OnWire(gone, bufs[m].call) <= bufs[m].len
  BY <1>0, <1>3, GatheredMost
<1>10. \A c : (\A m \in 1 .. Len(bufs) : bufs[m].call # c) => OnWire(gone, c) = 0
  BY <1>0, GatheredNone
<1>11. /\ more \in Seq(Answer) /\ Len(more) = d
       /\ \A i \in 1 .. d : more[i].call = bufs[i].call /\ more[i].n = bufs[i].len
       /\ Leads(more, Calls(bufs), Calls(rest))
  <2> HIDE DEF rest, d
  <2> QED BY <1>0, <1>2, FullLead
<1>12. \A c : OnWire(sent, c) = OnWire(o.sent, c) + OnWire(own, c) /\ OnWire(o.sent, c) \in Nat /\ OnWire(own, c) \in Nat
  <2> HIDE DEF own
  <2> QED BY <1>0, <1>8, OnWireConcat, OnWireType
<1>13. cut = IF Part(bufs, n) THEN o.cut \cup {bufs[ConvertByteToBufferNumber(bufs, n)].call} ELSE o.cut
  BY DEF Cutting
<1>14. \A i \in 1 .. Len(all) : all[i].call \in Nat /\ all[i].len \in Nat
  <2> HIDE DEF all
  <2>1. \A i \in 1 .. Len(all) : all[i].call \in Call /\ all[i].len \in 1 .. MaxLength
    BY <1>3, BufferSeq
  <2> QED BY <2>1, Sizes DEF Call
<1>15. /\ \A i, j \in DOMAIN o.sent : i < j /\ o.sent[j] # NoCall => o.sent[i] <= o.sent[j]
       /\ \A i \in DOMAIN o.sent : o.sent[i] \in DOMAIN cs \cup {NoCall}
       /\ \A i \in DOMAIN o.sent, j \in 1 .. Len(all) : o.sent[i] <= all[j].call
       /\ \A j \in 1 .. Len(all) : Owing(cs, o, all[j])
       /\ \A i \in DOMAIN o.answers : Written(cs, o, o.answers[i])
       /\ \A c \in DOMAIN cs \ {NoCall} : OnWire(o.sent, c) <= cs[c].len
       /\ o.cut = {} => OnWire(o.sent, NoCall) = 0
       /\ o.cut \subseteq DOMAIN cs
  BY <1>3 DEF WriterInv, Wire
<1>16. /\ Len(o.sent) \in Nat /\ DOMAIN o.sent = 1 .. Len(o.sent)
       /\ DOMAIN sent = 1 .. Len(o.sent) + n /\ sent \in Seq(Byte)
       /\ \A i \in DOMAIN sent : \/ i \in DOMAIN o.sent /\ sent[i] = o.sent[i]
                                 \/ i - Len(o.sent) \in 1 .. n /\ sent[i] = own[i - Len(o.sent)]
  <2> DEFINE s == o.sent
  <2>1. s \in Seq(Byte) /\ Len(s) \in Nat /\ DOMAIN s = 1 .. Len(s)
    BY <1>0, LenProperties
  <2> HIDE DEF s, own
  <2>2. /\ s \o own \in Seq(Byte) /\ Len(s \o own) = Len(s) + n
        /\ \A i \in 1 .. Len(s) + n : (s \o own)[i] = IF i <= Len(s) THEN s[i] ELSE own[i - Len(s)]
    BY <1>8, <2>1, ConcatProperties
  <2>3. DOMAIN (s \o own) = 1 .. Len(s) + n
    BY <2>2, LenProperties
  <2>4. \A i \in DOMAIN (s \o own) : \/ i \in DOMAIN s /\ (s \o own)[i] = s[i]
                                     \/ i - Len(s) \in 1 .. n /\ (s \o own)[i] = own[i - Len(s)]
    BY <1>0, <2>1, <2>2, <2>3
  <2> QED BY <2>1, <2>2, <2>3, <2>4 DEF s
<1>17. answers \in Seq(Answer) /\ room \in 0 .. Space /\ cut \subseteq Call
  <2>1. answers \in Seq(Answer)
    BY <1>0, <1>11, ConcatAnswers
  <2>2. room \in 0 .. Space
    BY <1>0, Sizes
  <2>3. cut \subseteq Call
    BY <1>0, <1>2, <1>13, BufferSeq
  <2> QED BY <2>1, <2>2, <2>3
<1> HIDE DEF all, d, rest, left, gone, own, more, cut, room, sent, answers, p
<1>18. /\ p \in Writer /\ p.bufs = rest /\ p.pend = o.pend /\ p.polls = o.polls /\ p.connectCb = o.connectCb
       /\ p.room = room /\ p.sent = sent /\ p.answers = answers /\ p.cut = cut
       /\ p.ready <=> rest = <<>>
       /\ p.nospace <=> rest # <<>>
  <2>1. (rest = <<>>) \in BOOLEAN /\ (rest # <<>>) \in BOOLEAN
    OBVIOUS
  <2> HIDE DEF bufs
  <2> QED BY <1>0, <1>1, <1>2, <1>16, <1>17, <2>1 DEF Writer
<1>19. Buffers(p) = left
  BY <1>18 DEF Buffers, left
<1>20. Lines(cs, p.answers, Calls(left), p.polls, p.connectCb, "write", "pollWrite", "connect")
  <2>1. Leads(more, Calls(all), Calls(left))
    BY <1>0, <1>2, <1>11, RestLine DEF all, left, Buffers
  <2>2. Calls(all) \in Seq(Call) /\ Calls(left) \in Seq(Call)
    BY <1>3, <1>5, CallsType
  <2>3. Lines(cs, o.answers, Calls(all), o.polls, o.connectCb, "write", "pollWrite", "connect")
    BY DEF WriterInv, all
  <2>4. Lines(cs, o.answers \o more, Calls(left), o.polls, o.connectCb, "write", "pollWrite", "connect")
    BY <1>0, <1>11, <2>1, <2>2, <2>3, LinesBuffers
  <2> QED BY <1>18, <2>4 DEF answers
<1>21. NoCall = 0 /\ NoCall \notin Call /\ \A m \in 1 .. Len(bufs) : bufs[m].call \in Call /\ bufs[m].call \in Nat
  BY <1>0, BufferSeq, Sizes DEF NoCall, Call
<1>22. \A i, j \in DOMAIN sent : i < j /\ sent[j] # NoCall => sent[i] <= sent[j]
  <2> SUFFICES ASSUME NEW i \in DOMAIN sent, NEW j \in DOMAIN sent, i < j, sent[j] # NoCall PROVE sent[i] <= sent[j]
    OBVIOUS
  <2>1. CASE j \in DOMAIN o.sent /\ sent[j] = o.sent[j]
    <3>1. i \in DOMAIN o.sent /\ sent[i] = o.sent[i]
      BY <1>16, <2>1
    <3> QED BY <1>15, <2>1, <3>1
  <2>2. CASE j - Len(o.sent) \in 1 .. n /\ sent[j] = own[j - Len(o.sent)]
    <3>0. own[j - Len(o.sent)] = gone[j - Len(o.sent)]
      BY <1>8, <2>2
    <3>4. PICK m \in 1 .. Len(bufs) : gone[j - Len(o.sent)] = bufs[m].call
      BY <1>6, <2>2
    <3>1. CASE i \in DOMAIN o.sent /\ sent[i] = o.sent[i]
      <4>2. o.sent[i] <= all[m].call /\ all[m] = bufs[m]
        BY <1>3, <1>15, <3>1
      <4> QED BY <2>2, <3>0, <3>1, <3>4, <4>2
    <3>2. CASE i - Len(o.sent) \in 1 .. n /\ sent[i] = own[i - Len(o.sent)]
      <4>1. i - Len(o.sent) < j - Len(o.sent)
        BY <1>16
      <4>2. CASE sent[i] = NoCall
        BY <1>21, <2>2, <3>0, <3>4, <4>2
      <4>3. CASE sent[i] = gone[i - Len(o.sent)]
        BY <1>7, <2>2, <3>0, <3>2, <4>1, <4>3
      <4> QED BY <1>8, <3>2, <4>2, <4>3
    <3> QED BY <1>16, <3>1, <3>2
  <2> QED BY <1>16, <2>1, <2>2
<1>23. \A i \in DOMAIN sent : sent[i] \in DOMAIN cs \cup {NoCall}
  <2> SUFFICES ASSUME NEW i \in DOMAIN sent PROVE sent[i] \in DOMAIN cs \cup {NoCall}
    OBVIOUS
  <2>1. CASE i \in DOMAIN o.sent /\ sent[i] = o.sent[i]
    BY <1>15, <2>1
  <2>2. CASE i - Len(o.sent) \in 1 .. n /\ sent[i] = own[i - Len(o.sent)]
    <3>1. PICK m \in 1 .. Len(bufs) : gone[i - Len(o.sent)] = bufs[m].call
      BY <1>6, <2>2
    <3>2. bufs[m].call \in DOMAIN cs
      BY <1>3
    <3> QED BY <1>8, <2>2, <3>1, <3>2
  <2> QED BY <1>16, <2>1, <2>2
<1>24. \A i \in DOMAIN sent, j \in 1 .. Len(left) : sent[i] <= left[j].call
  <2> SUFFICES ASSUME NEW i \in DOMAIN sent, NEW j \in 1 .. Len(left) PROVE sent[i] <= left[j].call
    OBVIOUS
  <2>1. CASE i \in DOMAIN o.sent /\ sent[i] = o.sent[i]
    BY <1>5, <1>15, <2>1
  <2>2. CASE i - Len(o.sent) \in 1 .. n /\ sent[i] = own[i - Len(o.sent)]
    <3>1. gone[i - Len(o.sent)] <= left[j].call
      BY <1>5, <2>2
    <3>2. left[j].call \in Nat
      BY <1>5, BufferSeq, Sizes DEF Call
    <3> QED BY <1>8, <1>21, <2>2, <3>1, <3>2
  <2> QED BY <1>16, <2>1, <2>2
<1>25. ASSUME NEW j \in 1 .. Len(left) PROVE Owing(cs, p, left[j])
  <2>1. PICK i \in 1 .. Len(all) :
            /\ left[j].call = all[i].call
            /\ OnWire(gone, left[j].call) + left[j].len = all[i].len
            /\ left[j].call \in cut <=> left[j].call \in o.cut \/ left[j].len < all[i].len
    BY <1>5
  <2> SUFFICES ASSUME left[j].call \notin cut
               PROVE  OnWire(sent, left[j].call) = 0 /\ left[j].len = cs[left[j].call].len
    BY <1>18 DEF Owing
  <2> DEFINE c == left[j].call
             a == OnWire(o.sent, c)
             g == OnWire(gone, c)
             l == left[j].len
             m == all[i].len
             t == cs[c].len
  <2>2. c \notin o.cut /\ a = 0 /\ m = t
    BY <1>15, <2>1 DEF Owing
  <2>3. c \in Call /\ OnWire(own, c) = g
    BY <1>5, <1>8, <2>2, BufferSeq
  <2>4. m \in Nat /\ l \in Nat /\ ~(l < m) /\ g + l = m /\ g \in Nat
    <3>1. m \in Nat
      BY <1>14
    <3>2. l \in Nat
      BY <1>5, BufferSeq, Sizes
    <3>3. ~(l < m) /\ g + l = m
      BY <2>1
    <3>4. g \in Nat
      BY <1>12, <2>3
    <3> QED BY <3>1, <3>2, <3>3, <3>4
  <2>5. OnWire(sent, c) = a + g
    BY <1>12, <2>3
  <2> HIDE DEF a, c, g, l, m, t
  <2>6. g = 0 /\ l = m
    BY <2>4
  <2>7. OnWire(sent, c) = 0 /\ l = t
    BY <2>2, <2>5, <2>6
  <2> QED BY <2>7 DEF c, l, t
<1>26. ASSUME NEW i \in DOMAIN answers PROVE Written(cs, p, answers[i])
  <2>0. DOMAIN o.answers = 1 .. Len(o.answers)
    BY <1>0, AnswerSeq
  <2> DEFINE k == ConvertByteToBufferNumber(bufs, n)
  <2>4. ASSUME NEW c, c \notin cut PROVE c \notin o.cut
    BY <1>13, <2>4
  <2>1. CASE i \in 1 .. Len(o.answers) /\ answers[i] = o.answers[i]
    <3> DEFINE x == o.answers[i]
    <3> SUFFICES ASSUME cs[x.call].op = "write", x.n >= 0, x.call \notin cut
                 PROVE  OnWire(sent, x.call) = cs[x.call].len /\ x.n = cs[x.call].len
      BY <1>18, <2>1 DEF Written
    <3>1. x.call \notin o.cut /\ OnWire(o.sent, x.call) = cs[x.call].len /\ x.n = cs[x.call].len
      BY <1>15, <2>0, <2>1, <2>4 DEF Written
    <3>2. \A m \in 1 .. Len(bufs) : x.call < bufs[m].call
      BY <1>3, <2>0, <2>1
    <3>3. x.call \in Call
      BY <1>0, <2>1, AnswerSeq
    <3>4. \A m \in 1 .. Len(bufs) : bufs[m].call # x.call
      <4>1. x.call \in Nat
        BY <3>3, Sizes DEF Call
      <4> QED BY <1>21, <3>2, <4>1
    <3>5. OnWire(gone, x.call) = 0
      BY <1>10, <3>4
    <3>6. OnWire(sent, x.call) = OnWire(o.sent, x.call)
      BY <1>12, <1>8, <3>1, <3>3, <3>5
    <3> QED BY <3>1, <3>6
  <2>2. CASE i - Len(o.answers) \in 1 .. Len(more) /\ answers[i] = more[i - Len(o.answers)]
    <3> DEFINE j == i - Len(o.answers)
    <3>1. j \in 1 .. d /\ answers[i].call = bufs[j].call /\ answers[i].n = bufs[j].len
      BY <1>11, <2>2
    <3> HIDE DEF j
    <3>2. j \in 1 .. Len(bufs) /\ j \in 1 .. Len(all) /\ all[j] = bufs[j]
      <4>1. d \in 0 .. Len(bufs) /\ Len(bufs) \in Nat
        BY <1>0, <1>2
      <4>2. \A m \in 1 .. Len(bufs) : m \in 1 .. Len(all) /\ all[m] = bufs[m]
        BY <1>3
      <4> HIDE DEF bufs
      <4>3. j \in 1 .. Len(bufs)
        BY <3>1, <4>1
      <4> QED BY <4>2, <4>3
    <3> DEFINE c == bufs[j].call
               a == OnWire(o.sent, c)
               l == bufs[j].len
               t == cs[c].len
    <3>3. c \notin cut => c \notin o.cut /\ a = 0 /\ l = t
      BY <1>15, <2>4, <3>2 DEF Owing
    <3>4. c \notin cut => OnWire(sent, c) = a + l /\ l \in Nat
      <4>1. OnWire(gone, c) = l /\ c \in Call /\ l \in Nat
        BY <1>4, <1>14, <1>21, <3>1, <3>2
      <4>2. c \notin cut => OnWire(own, c) = l
        BY <1>8, <3>3, <4>1
      <4>3. OnWire(sent, c) = a + OnWire(own, c)
        BY <1>12
      <4> HIDE DEF a, c, l
      <4> QED BY <4>1, <4>2, <4>3
    <3> HIDE DEF a, c, l, t
    <3>5. c \notin cut => OnWire(sent, c) = t /\ l = t
      BY <3>3, <3>4
    <3> QED BY <1>18, <3>1, <3>5 DEF Written, c, l, t
  <2> QED BY <1>0, <1>11, <2>1, <2>2, ConcatAnswers DEF answers
<1>27. ASSUME NEW c \in DOMAIN cs \ {NoCall} PROVE OnWire(sent, c) <= cs[c].len
  <2>0. OnWire(o.sent, c) <= cs[c].len
    BY <1>15
  <2>1. CASE \A m \in 1 .. Len(bufs) : bufs[m].call # c
    <3>1. OnWire(gone, c) = 0
      BY <1>10, <2>1
    <3>2. \A i \in 1 .. n : own[i] # c
      BY <1>6, <1>8, <2>1
    <3>3. {i \in DOMAIN own : own[i] = c} = {}
      BY <1>8, <3>2, LenProperties
    <3>4. OnWire(own, c) = 0
      BY <3>3, FS_EmptySet DEF OnWire
    <3> QED BY <1>12, <2>0, <3>4
  <2>2. CASE c \in o.cut
    BY <1>0, <1>12, <1>8, <2>0, <2>2
  <2>3. ASSUME NEW m \in 1 .. Len(bufs), bufs[m].call = c, c \notin o.cut PROVE OnWire(sent, c) <= cs[c].len
    <3>1. OnWire(o.sent, c) = 0 /\ bufs[m].len = cs[c].len
      BY <1>3, <1>15, <2>3 DEF Owing
    <3>2. OnWire(own, c) <= bufs[m].len /\ bufs[m].len \in Nat
      BY <1>3, <1>14, <1>8, <1>9, <1>21, <2>3
    <3> QED BY <1>12, <3>1, <3>2
  <2> QED BY <2>1, <2>2, <2>3
<1>28. cut = {} => OnWire(sent, NoCall) = 0
  <2> SUFFICES ASSUME cut = {} PROVE OnWire(sent, NoCall) = 0
    OBVIOUS
  <2>1. o.cut = {}
    BY <1>13
  <2> QED BY <1>12, <1>15, <1>8, <2>1
<1>29. cut \subseteq DOMAIN cs
  BY <1>2, <1>3, <1>13, <1>15
<1>30. Wire(cs, p)
  <2>1. DOMAIN left = 1 .. Len(left)
    BY <1>5, BufferSeq
  <2> QED BY <1>18, <1>19, <1>22, <1>23, <1>24, <1>25, <1>26, <1>29, <1>27, <1>28, <2>1 DEF Wire
<1>31. WriterInv(cs, p)
  BY <1>18, <1>19, <1>20, <1>30 DEF WriterInv
<1>32. ToSet(Calls(o.answers)) \subseteq ToSet(Calls(p.answers))
  BY <1>0, <1>11, <1>18, AnswersStay DEF answers
<1> QED BY <1>4, <1>18, <1>31, <1>32 DEF p, room

--------------------------------------------------------------------------------
\* The other steps of the writing half

\* Nothing is sent, and the answers that are new are failures or to others than writes.
LEMMA WireKept ==
    ASSUME NEW cs, NEW o \in Writer, Wire(cs, o), NEW p \in Writer, p.sent = o.sent, p.cut = o.cut,
           \A j \in 1 .. Len(Buffers(p)) : \E i \in 1 .. Len(Buffers(o)) : Buffers(p)[j] = Buffers(o)[i],
           \A i \in DOMAIN p.answers : \/ i \in DOMAIN o.answers /\ p.answers[i] = o.answers[i]
                                       \/ p.answers[i].n = Failed
                                       \/ cs[p.answers[i].call].op # "write"
    PROVE  Wire(cs, p)
<1> DEFINE old == Buffers(o)
           new == Buffers(p)
<1>1. DOMAIN old = 1 .. Len(old) /\ DOMAIN new = 1 .. Len(new)
  BY WriterFields, ConcatBuffers, BufferSeq DEF Buffers
<1>2. \A j \in 1 .. Len(new) : \E i \in 1 .. Len(old) : new[j] = old[i]
  OBVIOUS
<1>3. /\ \A i, j \in DOMAIN o.sent : i < j /\ o.sent[j] # NoCall => o.sent[i] <= o.sent[j]
      /\ \A i \in DOMAIN o.sent : o.sent[i] \in DOMAIN cs \cup {NoCall}
      /\ \A i \in DOMAIN o.sent, j \in 1 .. Len(old) : o.sent[i] <= old[j].call
      /\ \A j \in 1 .. Len(old) : Owing(cs, o, old[j])
      /\ \A i \in DOMAIN o.answers : Written(cs, o, o.answers[i])
      /\ \A c \in DOMAIN cs \ {NoCall} : OnWire(o.sent, c) <= cs[c].len
      /\ o.cut = {} => OnWire(o.sent, NoCall) = 0
      /\ o.cut \subseteq DOMAIN cs
  BY <1>1 DEF Wire
<1> HIDE DEF old, new
<1>4. \A i \in DOMAIN o.sent, j \in 1 .. Len(new) : o.sent[i] <= new[j].call
  BY <1>2, <1>3
<1>5. \A j \in 1 .. Len(new) : Owing(cs, p, new[j])
  BY <1>2, <1>3 DEF Owing
<1>6. ASSUME NEW i \in DOMAIN p.answers PROVE Written(cs, p, p.answers[i])
  <2>1. CASE i \in DOMAIN o.answers /\ p.answers[i] = o.answers[i]
    BY <1>3, <2>1 DEF Written
  <2>2. CASE p.answers[i].n = Failed
    BY <2>2, Sizes DEF Written
  <2>3. CASE cs[p.answers[i].call].op # "write"
    BY <2>3 DEF Written
  <2> QED BY <2>1, <2>2, <2>3
<1> QED BY <1>1, <1>3, <1>4, <1>5, <1>6 DEF Wire, new

Flagged(o, up, full, room) == [o EXCEPT !.ready = up, !.nospace = full, !.room = room]

LEMMA WriterFlagged ==
    ASSUME NEW cs, NEW o, WriterInv(cs, o), NEW up \in BOOLEAN, NEW full \in BOOLEAN, NEW room \in 0 .. Space
    PROVE  LET p == Flagged(o, up, full, room) IN
           /\ WriterInv(cs, p) /\ p.ready = up /\ p.nospace = full /\ p.room = room
           /\ p.bufs = o.bufs /\ p.pend = o.pend /\ p.polls = o.polls /\ p.connectCb = o.connectCb
           /\ p.answers = o.answers /\ p.cut = o.cut
<1> DEFINE p == Flagged(o, up, full, room)
<1>1. o \in Writer
  BY DEF WriterInv
<1>2. /\ p \in Writer /\ p.ready = up /\ p.nospace = full /\ p.room = room
      /\ p.bufs = o.bufs /\ p.pend = o.pend /\ p.polls = o.polls /\ p.connectCb = o.connectCb
      /\ p.answers = o.answers /\ p.cut = o.cut /\ p.sent = o.sent
  BY <1>1 DEF Writer, Flagged
<1> HIDE DEF p
<1>3. Buffers(p) = Buffers(o)
  BY <1>2 DEF Buffers
<1>4. Wire(cs, p)
  <2>1. Wire(cs, o)
    BY DEF WriterInv
  <2> QED BY <1>1, <1>2, <1>3, <2>1, WireKept
<1>5. WriterInv(cs, p)
  BY <1>2, <1>3, <1>4 DEF WriterInv
<1> QED BY <1>2, <1>5 DEF p

LEMMA WriterFilled ==
    ASSUME NEW cs, NEW o, WriterInv(cs, o)
    PROVE  LET p == FillBufferAndCallback(o) IN
           /\ WriterInv(cs, p) /\ p.polls = o.polls /\ p.connectCb = o.connectCb /\ p.room = o.room
           /\ p.ready = o.ready /\ p.nospace = o.nospace /\ p.answers = o.answers
           /\ Buffers(p) = Buffers(o) /\ (p.bufs = <<>> => p.pend = <<>>)
<1> DEFINE p == FillBufferAndCallback(o)
<1>0. o \in Writer /\ o.bufs \in Seq(Buffer) /\ o.pend \in Seq(Buffer)
  BY WriterFields DEF WriterInv
<1>1. CASE o.bufs # <<>>
  BY <1>1 DEF FillBufferAndCallback
<1>2. CASE o.bufs = <<>>
  <2>1. p = [o EXCEPT !.bufs = o.pend, !.pend = <<>>]
    BY <1>2 DEF FillBufferAndCallback
  <2>2. /\ p \in Writer /\ p.bufs = o.pend /\ p.pend = <<>>
        /\ p.polls = o.polls /\ p.ready = o.ready /\ p.connectCb = o.connectCb
        /\ p.room = o.room /\ p.nospace = o.nospace /\ p.answers = o.answers
        /\ p.sent = o.sent /\ p.cut = o.cut
    BY <1>0, <2>1, EmptySeq DEF Writer
  <2> HIDE DEF p
  <2>3. Buffers(p) = Buffers(o)
    BY <1>0, <1>2, <2>2, ConcatEmptySeq DEF Buffers
  <2>4. Wire(cs, p)
    <3>1. Wire(cs, o)
      BY DEF WriterInv
    <3> QED BY <1>0, <2>2, <2>3, <3>1, WireKept
  <2>5. WriterInv(cs, p)
    BY <2>2, <2>3, <2>4 DEF WriterInv
  <2> QED BY <2>2, <2>3, <2>5 DEF p
<1> QED BY <1>1, <1>2

LEMMA WriterFailed ==
    ASSUME NEW cs, NEW o, WriterInv(cs, o)
    PROVE  LET p == FailAll(o, Failed) IN
           /\ WriterInv(cs, p) /\ p.polls = o.polls /\ p.connectCb = o.connectCb /\ p.room = o.room
           /\ p.ready = o.ready /\ p.nospace = o.nospace /\ p.bufs = <<>> /\ p.pend = o.pend
           /\ ToSet(Calls(o.answers)) \subseteq ToSet(Calls(p.answers))
<1> DEFINE p == FailAll(o, Failed)
           more == Answered(o.bufs, Failed)
<1>0. /\ o \in Writer /\ o.bufs \in Seq(Buffer) /\ o.pend \in Seq(Buffer) /\ o.answers \in Seq(Answer)
      /\ Failed \in Failed .. MaxLength
  BY WriterFields, Sizes DEF WriterInv
<1>1. /\ more \in Seq(Answer) /\ \A i \in 1 .. Len(more) : more[i].n = Failed
      /\ Leads(more, Calls(o.bufs), Calls(<<>>))
  BY <1>0, AnsweredType, AllLead, NoBuffers
<1>2. o.answers \o more \in Seq(Answer)
  BY <1>0, <1>1, ConcatAnswers
<1>3. p = [o EXCEPT !.bufs = <<>>, !.answers = o.answers \o more]
  BY DEF FailAll
<1> HIDE DEF more, p
<1>4. /\ p \in Writer /\ p.bufs = <<>> /\ p.pend = o.pend /\ p.answers = o.answers \o more
      /\ p.polls = o.polls /\ p.connectCb = o.connectCb /\ p.room = o.room
      /\ p.ready = o.ready /\ p.nospace = o.nospace /\ p.sent = o.sent /\ p.cut = o.cut
  BY <1>0, <1>2, <1>3, NoBuffers DEF Writer
<1>5. Buffers(p) = o.pend
  BY <1>0, <1>4, ConcatEmptySeq DEF Buffers
<1>6. Lines(cs, p.answers, Calls(Buffers(p)), p.polls, p.connectCb, "write", "pollWrite", "connect")
  <2> DEFINE none == <<>>
             line == Calls(o.bufs \o o.pend)
             left == Calls(none \o o.pend)
  <2>1. none \in Seq(Buffer) /\ Leads(more, Calls(o.bufs), Calls(none)) /\ none \o o.pend = o.pend
    BY <1>0, <1>1, NoBuffers, ConcatEmptySeq
  <2> HIDE DEF none
  <2>2. Leads(more, line, left) /\ line \in Seq(Call) /\ left \in Seq(Call)
    BY <1>0, <1>1, <2>1, RestLine, ConcatBuffers
  <2>3. Lines(cs, o.answers, line, o.polls, o.connectCb, "write", "pollWrite", "connect")
    BY DEF WriterInv, Buffers
  <2>4. left = Calls(Buffers(p))
    BY <1>5, <2>1
  <2> HIDE DEF line, left
  <2>5. Lines(cs, o.answers \o more, left, o.polls, o.connectCb, "write", "pollWrite", "connect")
    BY <1>0, <1>1, <2>2, <2>3, LinesBuffers
  <2> QED BY <1>4, <2>4, <2>5
<1>7. Wire(cs, p)
  <2>1. \A j \in 1 .. Len(Buffers(p)) : \E i \in 1 .. Len(Buffers(o)) : Buffers(p)[j] = Buffers(o)[i]
    <3> DEFINE t == o.pend
               all == Buffers(o)
               k == Len(o.bufs)
    <3>1. \A i \in 1 .. Len(t) : k + i \in 1 .. Len(all) /\ all[k + i] = t[i]
      BY WaitingCalls
    <3> HIDE DEF t, all, k
    <3>2. \A j \in 1 .. Len(t) : \E i \in 1 .. Len(all) : t[j] = all[i]
      BY <3>1
    <3> QED BY <1>5, <3>2 DEF t, all
  <2>2. \A i \in DOMAIN p.answers : \/ i \in DOMAIN o.answers /\ p.answers[i] = o.answers[i]
                                    \/ p.answers[i].n = Failed
    <3>1. \A i \in DOMAIN p.answers : \/ i \in 1 .. Len(o.answers) /\ p.answers[i] = o.answers[i]
                                      \/ i - Len(o.answers) \in 1 .. Len(more) /\ p.answers[i] = more[i - Len(o.answers)]
      BY <1>0, <1>1, <1>4, ConcatAnswers
    <3>2. DOMAIN o.answers = 1 .. Len(o.answers)
      BY <1>0, AnswerSeq
    <3> QED BY <1>1, <3>1, <3>2
  <2>3. Wire(cs, o)
    BY DEF WriterInv
  <2> QED BY <1>0, <1>4, <2>1, <2>2, <2>3, WireKept
<1>8. WriterInv(cs, p)
  BY <1>4, <1>6, <1>7 DEF WriterInv
<1>9. ToSet(Calls(o.answers)) \subseteq ToSet(Calls(p.answers))
  BY <1>0, <1>1, <1>4, AnswersStay
<1> QED BY <1>4, <1>8, <1>9 DEF p

LEMMA WriterPolled ==
    ASSUME NEW cs, NEW o, WriterInv(cs, o)
    PROVE  LET p == DoPoll(o) IN
           /\ WriterInv(cs, p) /\ p.polls = <<>>
           /\ p.ready = o.ready /\ p.bufs = o.bufs /\ p.pend = o.pend /\ p.connectCb = o.connectCb
           /\ p.room = o.room /\ p.nospace = o.nospace
           /\ ToSet(Calls(o.answers)) \subseteq ToSet(Calls(p.answers))
<1> DEFINE p == DoPoll(o)
           more == Polled(o.polls, 0)
<1>0. o \in Writer /\ o.answers \in Seq(Answer) /\ o.polls \in Seq(Call) /\ 0 \in Failed .. MaxLength
  BY WriterFields, Sizes DEF WriterInv
<1>1. more \in Seq(Answer) /\ Leads(more, o.polls, <<>>)
  BY <1>0, PolledType, PollsLead
<1>2. o.answers \o more \in Seq(Answer)
  BY <1>0, <1>1, ConcatAnswers
<1>3. p = [o EXCEPT !.polls = <<>>, !.answers = o.answers \o more]
  BY DEF DoPoll
<1> HIDE DEF more, p
<1>4. /\ p \in Writer /\ p.polls = <<>> /\ p.answers = o.answers \o more
      /\ p.ready = o.ready /\ p.bufs = o.bufs /\ p.pend = o.pend /\ p.connectCb = o.connectCb
      /\ p.room = o.room /\ p.nospace = o.nospace /\ p.sent = o.sent /\ p.cut = o.cut
  BY <1>0, <1>2, <1>3, EmptySeq DEF Writer
<1>5. Buffers(p) = Buffers(o)
  BY <1>4 DEF Buffers
<1>6. /\ Lines(cs, p.answers, Calls(Buffers(p)), p.polls, p.connectCb, "write", "pollWrite", "connect")
      /\ Kinds(cs, more, {"pollWrite"})
  <2>1. Lines(cs, o.answers, Calls(Buffers(o)), o.polls, o.connectCb, "write", "pollWrite", "connect")
    BY DEF WriterInv
  <2>2. /\ Lines(cs, o.answers \o more, Calls(Buffers(o)), <<>>, o.connectCb, "write", "pollWrite", "connect")
        /\ Kinds(cs, more, {"pollWrite"})
    BY <1>0, <1>1, <2>1, LinesPolls
  <2> QED BY <1>4, <1>5, <2>2
<1>7. Wire(cs, p)
  <2>1. \A i \in DOMAIN p.answers : \/ i \in DOMAIN o.answers /\ p.answers[i] = o.answers[i]
                                    \/ cs[p.answers[i].call].op # "write"
    <3>1. \A i \in DOMAIN p.answers : \/ i \in 1 .. Len(o.answers) /\ p.answers[i] = o.answers[i]
                                      \/ i - Len(o.answers) \in 1 .. Len(more) /\ p.answers[i] = more[i - Len(o.answers)]
      BY <1>0, <1>1, <1>4, ConcatAnswers
    <3>2. DOMAIN o.answers = 1 .. Len(o.answers) /\ DOMAIN more = 1 .. Len(more)
      BY <1>0, <1>1, AnswerSeq
    <3>3. \A i \in 1 .. Len(more) : cs[more[i].call].op # "write"
      BY <1>6, <3>2 DEF Kinds
    <3> QED BY <3>1, <3>2, <3>3
  <2>2. Wire(cs, o)
    BY DEF WriterInv
  <2> QED BY <1>0, <1>4, <1>5, <2>1, <2>2, WireKept
<1>8. WriterInv(cs, p)
  BY <1>4, <1>6, <1>7 DEF WriterInv
<1>9. ToSet(Calls(o.answers)) \subseteq ToSet(Calls(p.answers))
  BY <1>0, <1>1, <1>4, AnswersStay
<1> QED BY <1>4, <1>8, <1>9 DEF p

\* The writer's DoExecute.
LEMMA WriterDoWrite ==
    ASSUME NEW cs, NEW o, WriterInv(cs, o), NEW p \in DoWrite(o)
    PROVE  /\ WriterInv(cs, p) /\ p.polls = o.polls /\ p.connectCb = o.connectCb /\ WriteNoted(r.end, p)
           /\ Buffers(o) = <<>> => Buffers(p) = <<>> /\ p.room = o.room
           /\ ToSet(Calls(o.answers)) \subseteq ToSet(Calls(p.answers))
<1> DEFINE f == FillBufferAndCallback(o)
<1>1. /\ WriterInv(cs, f) /\ f.polls = o.polls /\ f.connectCb = o.connectCb /\ f.room = o.room
      /\ f.answers = o.answers /\ Buffers(f) = Buffers(o)
  BY WriterFilled
<1>2. p \in IF f.bufs = <<>> THEN {[f EXCEPT !.ready = TRUE]}
            ELSE {IF n = Again THEN [f EXCEPT !.ready = FALSE, !.nospace = TRUE]
                  ELSE IF n = Failed THEN FailAll([f EXCEPT !.ready = TRUE], n)
                  ELSE Sent(f, n) : n \in Writev(f)}
  BY DEF DoWrite
<1> HIDE DEF f
<1>3. f \in Writer /\ f.bufs \in Seq(Buffer) /\ f.pend \in Seq(Buffer) /\ f.room \in 0 .. Space /\ f.nospace \in BOOLEAN
  BY <1>1, WriterFields DEF WriterInv
<1>4. Buffers(o) = <<>> => f.bufs = <<>> /\ f.pend = <<>>
  BY <1>1, <1>3, BothEmpty DEF Buffers
<1>5. ASSUME NEW up \in BOOLEAN, NEW q, q = [f EXCEPT !.ready = up]
      PROVE  /\ WriterInv(cs, q) /\ q.ready = up /\ q.nospace = f.nospace /\ q.room = f.room
             /\ q.bufs = f.bufs /\ q.pend = f.pend /\ q.polls = f.polls /\ q.connectCb = f.connectCb
             /\ q.answers = f.answers
  <2> DEFINE g == Flagged(f, up, f.nospace, f.room)
  <2>1. q = g
    BY <1>3, <1>5 DEF Writer, Flagged
  <2>2. /\ WriterInv(cs, g) /\ g.ready = up /\ g.nospace = f.nospace /\ g.room = f.room
        /\ g.bufs = f.bufs /\ g.pend = f.pend /\ g.polls = f.polls /\ g.connectCb = f.connectCb
        /\ g.answers = f.answers
    BY <1>1, <1>3, WriterFlagged
  <2> QED BY <2>1, <2>2
<1>6. CASE f.bufs = <<>>
  <2>1. p = [f EXCEPT !.ready = TRUE]
    BY <1>2, <1>6
  <2>2. /\ WriterInv(cs, p) /\ p.ready = TRUE /\ p.room = f.room /\ p.bufs = f.bufs /\ p.pend = f.pend
        /\ p.polls = f.polls /\ p.connectCb = f.connectCb /\ p.answers = f.answers
    BY <1>5, <2>1
  <2>3. WriteNoted(r.end, p)
    BY <1>6, <2>2 DEF WriteNoted
  <2>4. Buffers(p) = Buffers(f)
    BY <2>2 DEF Buffers
  <2> QED BY <1>1, <2>2, <2>3, <2>4
<1>7. CASE f.bufs # <<>>
  <2>1. PICK n \in Writev(f) : p = IF n = Again THEN [f EXCEPT !.ready = FALSE, !.nospace = TRUE]
                                   ELSE IF n = Failed THEN FailAll([f EXCEPT !.ready = TRUE], n)
                                   ELSE Sent(f, n)
    BY <1>2, <1>7
  <2>2. \/ n = Failed
        \/ n = Again /\ f.room = 0 /\ r.end # "reset"
        \/ n = Least(f.room, Bytes(f.bufs)) /\ f.room > 0 /\ r.end # "reset"
    BY <1>3 DEF Writev
  <2>3. Bytes(f.bufs) \in Nat /\ Bytes(f.bufs) > 0
    <3>1. Len(f.bufs) # 0 /\ Len(f.bufs) \in Nat
      BY <1>3, <1>7, BufferSeq, EmptySeq
    <3>2. Upto(f.bufs, 0) < Upto(f.bufs, Len(f.bufs))
      BY <1>3, <3>1, UptoStep
    <3> QED BY <1>3, <3>2, UptoStep, LensType
  <2>4. Buffers(o) # <<>>
    BY <1>4, <1>7
  <2>5. CASE n = Failed
    <3> DEFINE up == [f EXCEPT !.ready = TRUE]
    <3>1. p = FailAll(up, Failed)
      BY <2>1, <2>5, Sizes
    <3>2. WriterInv(cs, up) /\ up.ready = TRUE /\ up.polls = f.polls /\ up.connectCb = f.connectCb /\ up.answers = f.answers
      BY <1>5
    <3> HIDE DEF up
    <3>3. /\ WriterInv(cs, p) /\ p.polls = up.polls /\ p.connectCb = up.connectCb /\ p.ready = up.ready
          /\ p.bufs = <<>> /\ ToSet(Calls(up.answers)) \subseteq ToSet(Calls(p.answers))
      BY <3>1, <3>2, WriterFailed
    <3>4. WriteNoted(r.end, p)
      BY <3>2, <3>3 DEF WriteNoted
    <3> QED BY <1>1, <2>4, <3>2, <3>3, <3>4
  <2>6. CASE n = Again /\ f.room = 0 /\ r.end # "reset"
    <3> DEFINE g == Flagged(f, FALSE, TRUE, f.room)
    <3>1. p = g
      <4>1. p = [f EXCEPT !.ready = FALSE, !.nospace = TRUE]
        BY <2>1, <2>6
      <4> QED BY <4>1, <1>3 DEF Writer, Flagged
    <3>2. /\ WriterInv(cs, g) /\ g.nospace = TRUE /\ g.room = f.room
          /\ g.polls = f.polls /\ g.connectCb = f.connectCb /\ g.answers = f.answers
      <4> DEFINE down == FALSE
                 full == TRUE
      <4>1. down \in BOOLEAN /\ full \in BOOLEAN /\ g = Flagged(f, down, full, f.room)
        OBVIOUS
      <4> HIDE DEF g, down, full
      <4>2. /\ WriterInv(cs, g) /\ g.nospace = full /\ g.room = f.room
            /\ g.polls = f.polls /\ g.connectCb = f.connectCb /\ g.answers = f.answers
        BY <1>1, <1>3, <4>1, WriterFlagged
      <4> QED BY <4>2 DEF full
    <3> HIDE DEF g
    <3>3. WriteNoted(r.end, p)
      BY <2>6, <3>1, <3>2 DEF WriteNoted
    <3> QED BY <1>1, <2>4, <3>1, <3>2, <3>3
  <2>7. CASE n = Least(f.room, Bytes(f.bufs)) /\ f.room > 0 /\ r.end # "reset"
    <3>1. f.room \in Nat
      BY <1>3, Sizes
    <3>2. n \in 1 .. Bytes(f.bufs) /\ n <= f.room /\ (n < Bytes(f.bufs) => n = f.room)
      BY <2>3, <2>7, <3>1 DEF Least
    <3>3. p = Sent(f, n)
      BY <2>1, <3>2, Sizes
    <3>4. /\ WriterInv(cs, p) /\ p.polls = f.polls /\ p.connectCb = f.connectCb /\ p.room = f.room - n
          /\ p.ready <=> p.bufs = <<>>
          /\ p.nospace <=> p.bufs # <<>>
          /\ p.bufs # <<>> => n < Bytes(f.bufs)
          /\ ToSet(Calls(f.answers)) \subseteq ToSet(Calls(p.answers))
      BY <1>1, <3>2, <3>3, WriterSent
    <3>5. p.bufs # <<>> => p.room = 0
      BY <3>1, <3>2, <3>4
    <3>6. WriteNoted(r.end, p)
      BY <2>7, <3>4, <3>5 DEF WriteNoted
    <3> QED BY <1>1, <2>4, <3>4, <3>6
  <2> QED BY <2>2, <2>5, <2>6, <2>7
<1> QED BY <1>6, <1>7

\* The answer to a connect.
AnswerConnect(o, n) ==
    [o EXCEPT !.connectCb = NoCall, !.answers = Append(@, [call |-> o.connectCb, n |-> n])]

LEMMA WriterAnswered ==
    ASSUME NEW cs, NEW o, WriterInv(cs, o), o.connectCb # NoCall, NEW n \in Failed .. MaxLength
    PROVE  LET p == AnswerConnect(o, n) IN
           /\ WriterInv(cs, p) /\ p.connectCb = NoCall /\ p.ready = o.ready /\ p.nospace = o.nospace
           /\ p.room = o.room /\ p.bufs = o.bufs /\ p.pend = o.pend /\ p.polls = o.polls
           /\ ToSet(Calls(o.answers)) \subseteq ToSet(Calls(p.answers))
<1> DEFINE cb == o.connectCb
           x == [call |-> cb, n |-> n]
           more == <<x>>
           p == AnswerConnect(o, n)
<1>0. o \in Writer /\ o.answers \in Seq(Answer) /\ cb \in Call
  BY WriterFields DEF WriterInv
<1>1. x \in Answer /\ x.call = cb /\ x.n = n
  BY <1>0 DEF Answer
<1> HIDE DEF x
<1>2. more \in Seq(Answer) /\ Len(more) = 1 /\ more[1] = x
  BY <1>1
<1>3. p = [o EXCEPT !.connectCb = NoCall, !.answers = o.answers \o more]
  <2>1. Append(o.answers, x) = o.answers \o more
    BY <1>0, <1>1, AppendIsConcat
  <2> QED BY <2>1 DEF AnswerConnect, x
<1>4. o.answers \o more \in Seq(Answer)
  BY <1>0, <1>2, ConcatAnswers
<1> HIDE DEF p, more
<1>5. /\ p \in Writer /\ p.connectCb = NoCall /\ p.answers = o.answers \o more
      /\ p.ready = o.ready /\ p.nospace = o.nospace /\ p.room = o.room
      /\ p.bufs = o.bufs /\ p.pend = o.pend /\ p.polls = o.polls /\ p.sent = o.sent /\ p.cut = o.cut
  BY <1>0, <1>3, <1>4 DEF Writer
<1>6. Buffers(p) = Buffers(o)
  BY <1>5 DEF Buffers
<1>7. /\ Lines(cs, p.answers, Calls(Buffers(p)), p.polls, p.connectCb, "write", "pollWrite", "connect")
      /\ cs[cb].op = "connect"
  <2>1. Lines(cs, o.answers, Calls(Buffers(o)), o.polls, cb, "write", "pollWrite", "connect")
    BY DEF WriterInv
  <2> HIDE DEF cb
  <2>2. /\ Lines(cs, o.answers \o <<x>>, Calls(Buffers(o)), o.polls, NoCall, "write", "pollWrite", "connect")
        /\ cs[cb].op = "connect"
    BY <1>0, <1>1, <2>1, LinesWaiting
  <2> QED BY <1>5, <1>6, <2>2 DEF more
<1>8. Wire(cs, p)
  <2>1. \A i \in DOMAIN p.answers : \/ i \in DOMAIN o.answers /\ p.answers[i] = o.answers[i]
                                    \/ cs[p.answers[i].call].op # "write"
    <3>1. \A i \in DOMAIN p.answers : \/ i \in 1 .. Len(o.answers) /\ p.answers[i] = o.answers[i]
                                      \/ i - Len(o.answers) \in 1 .. Len(more) /\ p.answers[i] = more[i - Len(o.answers)]
      BY <1>0, <1>2, <1>5, ConcatAnswers
    <3>2. DOMAIN o.answers = 1 .. Len(o.answers)
      BY <1>0, AnswerSeq
    <3>3. \A i \in 1 .. Len(more) : cs[more[i].call].op # "write"
      BY <1>1, <1>2, <1>7
    <3> QED BY <3>1, <3>2, <3>3
  <2>2. Wire(cs, o)
    BY DEF WriterInv
  <2> QED BY <1>0, <1>5, <1>6, <2>1, <2>2, WireKept
<1>9. WriterInv(cs, p)
  BY <1>5, <1>7, <1>8 DEF WriterInv
<1>10. ToSet(Calls(o.answers)) \subseteq ToSet(Calls(p.answers))
  BY <1>0, <1>2, <1>5, AnswersStay
<1> QED BY <1>5, <1>9, <1>10 DEF p, x

LEMMA WriterConnected ==
    ASSUME NEW cs, NEW o, WriterInv(cs, o)
    PROVE  LET p == HandleConnect(o) IN
           /\ WriterInv(cs, p) /\ p.connectCb = NoCall /\ p.ready = o.ready /\ p.nospace = o.nospace
           /\ p.room = o.room /\ p.bufs = o.bufs /\ p.pend = o.pend /\ p.polls = o.polls
           /\ ToSet(Calls(o.answers)) \subseteq ToSet(Calls(p.answers))
<1>1. CASE o.connectCb = NoCall
  BY <1>1 DEF HandleConnect
<1>2. CASE o.connectCb # NoCall
  <2> DEFINE n == IF ConnectError THEN Failed ELSE 0
  <2>1. n \in Failed .. MaxLength
    BY Sizes
  <2>2. HandleConnect(o) = AnswerConnect(o, n)
    BY <1>2 DEF HandleConnect, AnswerConnect
  <2> HIDE DEF n
  <2> QED BY <1>2, <2>1, <2>2, WriterAnswered
<1> QED BY <1>1, <1>2

CancelWriter(o) ==
    [CancelAllIo(o) EXCEPT !.polls = <<>>, !.connectCb = NoCall,
                           !.answers = @ \o Polled(o.polls, Failed) \o Dropped(o.connectCb)]

LEMMA WriterCancelled ==
    ASSUME NEW cs, NEW o, WriterInv(cs, o)
    PROVE  LET p == CancelWriter(o) IN
           /\ WriterInv(cs, p) /\ Buffers(p) = <<>> /\ p.bufs = <<>> /\ p.polls = <<>> /\ p.connectCb = NoCall
           /\ p.ready = o.ready /\ p.room = o.room /\ p.nospace = o.nospace
           /\ \A k \in DOMAIN cs : cs[k].op \in {"write", "pollWrite", "connect"} => k \in ToSet(Calls(p.answers))
<1> DEFINE all == o.answers \o Answered(o.bufs, Failed) \o Answered(o.pend, Failed)
                      \o Polled(o.polls, Failed) \o Dropped(o.connectCb)
           p == CancelWriter(o)
<1>0. /\ o \in Writer /\ o.answers \in Seq(Answer) /\ o.bufs \in Seq(Buffer) /\ o.pend \in Seq(Buffer)
      /\ o.polls \in Seq(Call) /\ o.connectCb \in Call \cup {NoCall}
  BY WriterFields DEF WriterInv
<1>1. /\ Lines(cs, all, <<>>, <<>>, NoCall, "write", "pollWrite", "connect")
      /\ Grown(o.answers, all)
  <2>1. Lines(cs, o.answers, Calls(o.bufs \o o.pend), o.polls, o.connectCb, "write", "pollWrite", "connect")
    BY DEF WriterInv, Buffers
  <2> HIDE DEF all
  <2>2. LET every == o.answers \o Answered(o.bufs, Failed) \o Answered(o.pend, Failed)
                          \o Polled(o.polls, Failed) \o Dropped(o.connectCb) IN
        /\ Lines(cs, every, <<>>, <<>>, NoCall, "write", "pollWrite", "connect")
        /\ Grown(o.answers, every)
    BY <1>0, <2>1, LinesDropped
  <2> QED BY <2>2 DEF all
<1>2. p = [o EXCEPT !.bufs = <<>>, !.pend = <<>>, !.polls = <<>>, !.connectCb = NoCall, !.answers = all]
  BY <1>0 DEF CancelWriter, CancelAllIo, FailAll, Writer
<1> HIDE DEF p, all
<1>3. /\ all \in Seq(Answer)
      /\ \A i \in DOMAIN all : (i \in DOMAIN o.answers /\ all[i] = o.answers[i]) \/ all[i].n = Failed
  BY <1>0, <1>1, GrownFacts
<1>4. /\ p \in Writer /\ p.bufs = <<>> /\ p.pend = <<>> /\ p.polls = <<>> /\ p.connectCb = NoCall
      /\ p.answers = all /\ p.ready = o.ready /\ p.room = o.room /\ p.nospace = o.nospace
      /\ p.sent = o.sent /\ p.cut = o.cut
  BY <1>0, <1>2, <1>3, EmptySeq DEF Writer
<1>5. Buffers(p) = <<>> /\ Calls(<<>>) = <<>> /\ Len(<<>>) = 0
  BY <1>4, NoBuffers, ConcatEmptySeq DEF Buffers
<1>6. Wire(cs, p)
  <2>1. \A j \in 1 .. Len(Buffers(p)) : \E i \in 1 .. Len(Buffers(o)) : Buffers(p)[j] = Buffers(o)[i]
    <3>1. 1 .. Len(Buffers(p)) = {}
      BY <1>5
    <3> QED BY <3>1
  <2>2. Wire(cs, o)
    BY DEF WriterInv
  <2> QED BY <1>0, <1>3, <1>4, <2>1, <2>2, WireKept
<1>7. WriterInv(cs, p)
  BY <1>1, <1>4, <1>5, <1>6 DEF WriterInv
<1>8. \A k \in DOMAIN cs : cs[k].op \in {"write", "pollWrite", "connect"} => k \in ToSet(Calls(p.answers))
  BY <1>1, <1>3, <1>4, LinesEmpty
<1> QED BY <1>4, <1>5, <1>7, <1>8 DEF p

\* What is on the wire has nothing to do with a call that is new.
LEMMA WireCalled ==
    ASSUME NEW cs \in Seq(Operation), NEW o, WriterInv(cs, o), NEW x \in Operation
    PROVE  Wire(Append(cs, x), o)
<1> DEFINE new == Append(cs, x)
           all == Buffers(o)
<1>1. DOMAIN cs \subseteq DOMAIN new /\ new \in Seq(Operation) /\ \A k \in DOMAIN cs : new[k] = cs[k]
  BY OlderCalls
<1>2. DOMAIN all = 1 .. Len(all) /\ \A j \in 1 .. Len(all) : all[j].call \in DOMAIN cs
  <2>1. all \in Seq(Buffer) /\ OfWrites(cs, all)
    BY WaitingCalls
  <2> HIDE DEF all
  <2> QED BY <2>1, BufferSeq DEF OfWrites
<1>3. \A i \in DOMAIN o.answers : o.answers[i].call \in DOMAIN cs
  BY DEF WriterInv, Lines, Kinds
<1>4. /\ \A i, j \in DOMAIN o.sent : i < j /\ o.sent[j] # NoCall => o.sent[i] <= o.sent[j]
      /\ \A i \in DOMAIN o.sent : o.sent[i] \in DOMAIN cs \cup {NoCall}
      /\ \A i \in DOMAIN o.sent, j \in DOMAIN all : o.sent[i] <= all[j].call
      /\ \A j \in DOMAIN all : Owing(cs, o, all[j])
      /\ \A i \in DOMAIN o.answers : Written(cs, o, o.answers[i])
      /\ \A c \in DOMAIN cs \ {NoCall} : OnWire(o.sent, c) <= cs[c].len
      /\ o.cut = {} => OnWire(o.sent, NoCall) = 0
      /\ o.cut \subseteq DOMAIN cs
  BY DEF WriterInv, Wire
<1> HIDE DEF new, all
<1>5. \A j \in DOMAIN all : Owing(new, o, all[j])
  BY <1>1, <1>2, <1>4 DEF Owing
<1>6. \A i \in DOMAIN o.answers : Written(new, o, o.answers[i])
  BY <1>1, <1>3, <1>4 DEF Written
<1>7. ASSUME NEW c \in DOMAIN new \ {NoCall} PROVE OnWire(o.sent, c) <= new[c].len
  <2>1. CASE c \in DOMAIN cs
    BY <1>1, <1>4, <2>1
  <2>2. CASE c \notin DOMAIN cs
    <3>1. {i \in DOMAIN o.sent : o.sent[i] = c} = {}
      BY <1>4, <2>2
    <3>2. OnWire(o.sent, c) = 0
      BY <3>1, FS_EmptySet DEF OnWire
    <3>3. new[c] \in Operation
      BY <1>1, ElementOfSeq, LenProperties
    <3>4. new[c].len \in Nat
      BY <3>3, Sizes DEF Operation
    <3> QED BY <3>2, <3>4
  <2> QED BY <2>1, <2>2
<1>8. Wire(new, o)
  BY <1>1, <1>4, <1>5, <1>6, <1>7 DEF Wire, all
<1> QED BY <1>8 DEF new

\* A write that is new owes everything.
LEMMA WireOwing ==
    ASSUME NEW cs \in Seq(Operation), NEW o, WriterInv(cs, o), NEW x \in Operation, x.len > 0,
           Len(cs) < MaxCalls, NEW p,
           LET b == [call |-> Len(cs) + 1, len |-> x.len] IN Buffers(p) = Append(Buffers(o), b),
           p.sent = o.sent, p.cut = o.cut, p.answers = o.answers
    PROVE  Wire(Append(cs, x), p)
<1> DEFINE new == Append(cs, x)
           call == Len(cs) + 1
           b == [call |-> call, len |-> x.len]
           all == Buffers(o)
           more == Buffers(p)
<1>1. /\ new[call] = x /\ call \in Nat /\ call \notin DOMAIN cs /\ \A k \in DOMAIN cs : k <= call
      /\ call \in Call /\ DOMAIN cs = 1 .. Len(cs) /\ Len(cs) \in Nat
  BY OlderCalls
<1>2. b \in Buffer /\ b.call = call /\ b.len = x.len
  BY <1>1, Sizes DEF Buffer, Operation
<1>3. more = Append(all, b) /\ all \in Seq(Buffer)
  BY WaitingCalls
<1>4. /\ \A i, j \in DOMAIN o.sent : i < j /\ o.sent[j] # NoCall => o.sent[i] <= o.sent[j]
      /\ \A i \in DOMAIN o.sent : o.sent[i] \in DOMAIN new \cup {NoCall}
      /\ \A i \in DOMAIN o.sent, j \in DOMAIN all : o.sent[i] <= all[j].call
      /\ \A j \in DOMAIN all : Owing(new, o, all[j])
      /\ \A i \in DOMAIN o.answers : Written(new, o, o.answers[i])
      /\ \A c \in DOMAIN new \ {NoCall} : OnWire(o.sent, c) <= new[c].len
      /\ o.cut = {} => OnWire(o.sent, NoCall) = 0
      /\ o.cut \subseteq DOMAIN new
  BY WireCalled DEF Wire
<1>5. (\A i \in DOMAIN o.sent : o.sent[i] \in DOMAIN cs \cup {NoCall}) /\ o.cut \subseteq DOMAIN cs
  BY DEF WriterInv, Wire
<1>6. OnWire(o.sent, call) = 0
  <2>1. {i \in DOMAIN o.sent : o.sent[i] = call} = {}
    BY <1>1, <1>5 DEF NoCall
  <2> QED BY <2>1, FS_EmptySet DEF OnWire
<1> HIDE DEF new, call, b, all, more
<1>7. /\ Len(all) \in Nat /\ DOMAIN all = 1 .. Len(all) /\ DOMAIN more = 1 .. Len(all) + 1
      /\ \A j \in 1 .. Len(all) : more[j] = all[j]
      /\ more[Len(all) + 1] = b
  <2>1. /\ Len(all) \in Nat /\ DOMAIN all = 1 .. Len(all) /\ Len(Append(all, b)) = Len(all) + 1
        /\ Append(all, b) \in Seq(Buffer)
        /\ \A j \in 1 .. Len(all) : Append(all, b)[j] = all[j]
        /\ Append(all, b)[Len(all) + 1] = b
    BY <1>2, <1>3, BufferSeq, AppendProperties
  <2>2. DOMAIN Append(all, b) = 1 .. Len(Append(all, b))
    BY <2>1, BufferSeq
  <2> QED BY <1>3, <2>1, <2>2
<1>8. Owing(new, p, b)
  <2>1. x.len \in Nat
    BY Sizes DEF Operation
  <2>2. OnWire(p.sent, b.call) = 0 /\ new[b.call].len = x.len /\ b.call \notin p.cut
    BY <1>1, <1>2, <1>5, <1>6
  <2> QED BY <1>2, <2>1, <2>2 DEF Owing
<1>9. \A j \in 1 .. Len(all) : Owing(new, p, more[j])
  BY <1>4, <1>7 DEF Owing
<1>10. \A j \in DOMAIN more : j \in 1 .. Len(all) \/ j = Len(all) + 1
  BY <1>7
<1>11. \A j \in DOMAIN more : Owing(new, p, more[j])
  BY <1>7, <1>8, <1>9, <1>10
<1>12. \A i \in DOMAIN o.sent, j \in DOMAIN more : o.sent[i] <= more[j].call
  <2>1. \A i \in DOMAIN o.sent : o.sent[i] <= call
    BY <1>1, <1>5 DEF NoCall
  <2>2. ASSUME NEW i \in DOMAIN o.sent, NEW j \in 1 .. Len(all) PROVE o.sent[i] <= more[j].call
    BY <1>4, <1>7
  <2> QED BY <1>2, <1>7, <1>10, <2>1, <2>2
<1>13. \A i \in DOMAIN p.answers : Written(new, p, p.answers[i])
  BY <1>4 DEF Written
<1>14. Wire(new, p)
  BY <1>4, <1>11, <1>12, <1>13 DEF Wire, more
<1> QED BY <1>14 DEF new

Connecting(o, c) == [o EXCEPT !.connectCb = c]

LEMMA WriterCalled ==
    ASSUME NEW cs \in Seq(Operation), NEW o, WriterInv(cs, o), NEW x \in Operation, Len(cs) < MaxCalls,
           NEW call, call = Len(cs) + 1
    PROVE  LET new == Append(cs, x)
               write == AddPendingTask(o, call, x.len)
               poll == Polling(o, call)
               connect == Connecting(o, call) IN
           /\ x.op = "write" /\ x.len > 0 =>
                 /\ WriterInv(new, write) /\ write.bufs = o.bufs /\ write.ready = o.ready
                 /\ write.polls = o.polls /\ write.connectCb = o.connectCb
                 /\ write.room = o.room /\ write.nospace = o.nospace /\ write.answers = o.answers
           /\ x.op = "pollWrite" =>
                 /\ WriterInv(new, poll) /\ poll.bufs = o.bufs /\ poll.pend = o.pend /\ poll.ready = o.ready
                 /\ poll.connectCb = o.connectCb
                 /\ poll.room = o.room /\ poll.nospace = o.nospace /\ poll.answers = o.answers
           /\ x.op = "connect" /\ o.connectCb = NoCall =>
                 /\ WriterInv(new, connect) /\ connect.bufs = o.bufs /\ connect.pend = o.pend
                 /\ connect.polls = o.polls /\ connect.ready = o.ready /\ connect.connectCb = call
                 /\ connect.room = o.room /\ connect.nospace = o.nospace /\ connect.answers = o.answers
           /\ x.op \notin {"write", "pollWrite", "connect"} => WriterInv(new, o)
<1> DEFINE new == Append(cs, x)
<1>0. /\ o \in Writer /\ o.answers \in Seq(Answer) /\ o.bufs \in Seq(Buffer) /\ o.pend \in Seq(Buffer)
      /\ o.polls \in Seq(Call) /\ o.connectCb \in Call \cup {NoCall} /\ Waiting(o.connectCb) \in Seq(Call)
      /\ Calls(Buffers(o)) \in Seq(Call) /\ call \in Call
  <2>1. /\ o \in Writer /\ o.answers \in Seq(Answer) /\ o.bufs \in Seq(Buffer) /\ o.pend \in Seq(Buffer)
        /\ o.polls \in Seq(Call) /\ o.connectCb \in Call \cup {NoCall} /\ Waiting(o.connectCb) \in Seq(Call)
    BY WriterFields DEF WriterInv
  <2> QED BY <2>1, ConcatBuffers, OlderCalls DEF Buffers
<1>1. Lines(cs, o.answers, Calls(Buffers(o)), o.polls, o.connectCb, "write", "pollWrite", "connect")
  BY DEF WriterInv
<1>2. /\ x.op = "write" => Lines(new, o.answers, Append(Calls(Buffers(o)), call), o.polls, o.connectCb,
                                 "write", "pollWrite", "connect")
      /\ x.op = "pollWrite" => Lines(new, o.answers, Calls(Buffers(o)), Append(o.polls, call), o.connectCb,
                                     "write", "pollWrite", "connect")
      /\ x.op = "connect" /\ o.connectCb = NoCall =>
            Lines(new, o.answers, Calls(Buffers(o)), o.polls, call, "write", "pollWrite", "connect")
      /\ x.op \notin {"write", "pollWrite", "connect"} =>
            Lines(new, o.answers, Calls(Buffers(o)), o.polls, o.connectCb, "write", "pollWrite", "connect")
  BY <1>0, <1>1, LinesCall
<1>3. Wire(new, o)
  BY WireCalled
<1>4. ASSUME NEW p \in Writer, p.bufs = o.bufs, p.pend = o.pend, p.sent = o.sent, p.cut = o.cut, p.answers = o.answers
      PROVE  Buffers(p) = Buffers(o) /\ Wire(new, p)
  <2>1. Buffers(p) = Buffers(o)
    BY <1>4 DEF Buffers
  <2>2. /\ \A j \in 1 .. Len(Buffers(p)) : \E i \in 1 .. Len(Buffers(o)) : Buffers(p)[j] = Buffers(o)[i]
        /\ \A i \in DOMAIN p.answers : i \in DOMAIN o.answers /\ p.answers[i] = o.answers[i]
    BY <1>4, <2>1
  <2> HIDE DEF new
  <2> QED BY <1>0, <1>3, <1>4, <2>1, <2>2, WireKept
<1>5. ASSUME x.op = "write", x.len > 0
      PROVE  LET write == AddPendingTask(o, call, x.len) IN
             /\ WriterInv(new, write) /\ write.bufs = o.bufs /\ write.ready = o.ready
             /\ write.polls = o.polls /\ write.connectCb = o.connectCb
             /\ write.room = o.room /\ write.nospace = o.nospace /\ write.answers = o.answers
  <2> DEFINE b == [call |-> call, len |-> x.len]
             write == AddPendingTask(o, call, x.len)
  <2>1. b \in Buffer /\ b.call = call
    BY <1>0, <1>5, Sizes DEF Buffer, Operation
  <2>2. write = [o EXCEPT !.pend = Append(o.pend, b)]
    BY DEF AddPendingTask
  <2> HIDE DEF b, write
  <2>3. Append(o.pend, b) \in Seq(Buffer)
    BY <1>0, <2>1, AppendBuffer
  <2>4. /\ write \in Writer /\ write.pend = Append(o.pend, b) /\ write.bufs = o.bufs /\ write.ready = o.ready
        /\ write.polls = o.polls /\ write.connectCb = o.connectCb /\ write.room = o.room
        /\ write.nospace = o.nospace /\ write.answers = o.answers /\ write.sent = o.sent /\ write.cut = o.cut
    BY <1>0, <2>2, <2>3 DEF Writer
  <2>5. Buffers(write) = Append(Buffers(o), b) /\ Calls(Buffers(write)) = Append(Calls(Buffers(o)), call)
    <3> DEFINE s == o.bufs
               t == o.pend
    <3>1. s \in Seq(Buffer) /\ t \in Seq(Buffer)
      BY <1>0
    <3>2. Buffers(write) = s \o Append(t, b) /\ Buffers(o) = s \o t
      BY <2>4 DEF Buffers
    <3> HIDE DEF s, t
    <3>3. s \o Append(t, b) = Append(s \o t, b) /\ Calls(s \o Append(t, b)) = Append(Calls(s \o t), b.call)
      BY <2>1, <3>1, AppendBuffer
    <3> QED BY <2>1, <3>2, <3>3
  <2>6. Wire(new, write)
    <3>1. LET bb == [call |-> Len(cs) + 1, len |-> x.len] IN Buffers(write) = Append(Buffers(o), bb)
      BY <2>5 DEF b
    <3> QED BY <1>5, <2>4, <3>1, WireOwing
  <2>7. WriterInv(new, write)
    <3> HIDE DEF new
    <3> QED BY <1>2, <1>5, <2>4, <2>5, <2>6 DEF WriterInv
  <2> QED BY <2>4, <2>7 DEF write
<1> HIDE DEF new
<1>6. ASSUME x.op = "pollWrite"
      PROVE  LET poll == Polling(o, call) IN
             /\ WriterInv(new, poll) /\ poll.bufs = o.bufs /\ poll.pend = o.pend /\ poll.ready = o.ready
             /\ poll.connectCb = o.connectCb
             /\ poll.room = o.room /\ poll.nospace = o.nospace /\ poll.answers = o.answers
  <2> DEFINE poll == Polling(o, call)
  <2>1. Append(o.polls, call) \in Seq(Call)
    BY <1>0, AppendProperties
  <2>2. /\ poll \in Writer /\ poll.bufs = o.bufs /\ poll.pend = o.pend /\ poll.ready = o.ready
        /\ poll.connectCb = o.connectCb /\ poll.room = o.room /\ poll.nospace = o.nospace
        /\ poll.answers = o.answers /\ poll.sent = o.sent /\ poll.cut = o.cut
        /\ poll.polls = Append(o.polls, call)
    BY <1>0, <2>1 DEF Writer, Polling
  <2> HIDE DEF poll
  <2>3. Buffers(poll) = Buffers(o) /\ Wire(new, poll)
    BY <1>4, <2>2
  <2>4. WriterInv(new, poll)
    BY <1>2, <1>6, <2>2, <2>3 DEF WriterInv
  <2> QED BY <2>2, <2>4 DEF poll
<1>7. ASSUME x.op = "connect", o.connectCb = NoCall
      PROVE  LET connect == Connecting(o, call) IN
             /\ WriterInv(new, connect) /\ connect.bufs = o.bufs /\ connect.pend = o.pend
             /\ connect.polls = o.polls /\ connect.ready = o.ready /\ connect.connectCb = call
             /\ connect.room = o.room /\ connect.nospace = o.nospace /\ connect.answers = o.answers
  <2> DEFINE connect == Connecting(o, call)
  <2>1. /\ connect \in Writer /\ connect.bufs = o.bufs /\ connect.pend = o.pend
        /\ connect.polls = o.polls /\ connect.ready = o.ready /\ connect.connectCb = call
        /\ connect.room = o.room /\ connect.nospace = o.nospace /\ connect.answers = o.answers
        /\ connect.sent = o.sent /\ connect.cut = o.cut
    BY <1>0 DEF Writer, Connecting
  <2> HIDE DEF connect
  <2>2. Buffers(connect) = Buffers(o) /\ Wire(new, connect)
    BY <1>4, <2>1
  <2>3. WriterInv(new, connect)
    BY <1>2, <1>7, <2>1, <2>2 DEF WriterInv
  <2> QED BY <2>1, <2>3 DEF connect
<1>8. ASSUME x.op \notin {"write", "pollWrite", "connect"} PROVE WriterInv(new, o)
  BY <1>0, <1>2, <1>3, <1>8 DEF WriterInv
<1> QED BY <1>5, <1>6, <1>7, <1>8 DEF new

--------------------------------------------------------------------------------
\* The inductive invariant

Idle(o) == Buffers(o) = <<>> /\ o.polls = <<>>

Loop ==
    /\ status \in {"Io", "Accept", "Connect"} /\ conn \in {"none", "syn", "up", "refused", "listening"}
    /\ edge \in BOOLEAN
    /\ drains \in 0 .. MaxDrains /\ cancelled \in 0 .. Len(calls)
    /\ calls \in Seq(Operation) /\ Len(calls) <= MaxCalls
    /\ r.arrived <= MaxIn

Phase ==
    /\ status = "Accept" <=> conn = "listening"
    /\ conn # "up" => Idle(r) /\ Idle(w) /\ w.room = Space /\ r.end = "open"
    /\ status = "Connect" => w.room = Space
    /\ conn \notin {"up", "listening"} => r.avail = 0
    /\ r.acceptCb # NoCall => conn = "listening"
    /\ w.connectCb # NoCall => status = "Connect"

Noted ==
    /\ ~edge /\ conn = "up" => ReadNoted(r) /\ WriteNoted(r.end, w) /\ w.connectCb = NoCall
    /\ ~edge /\ conn = "listening" => r.avail = 0 \/ r.aborted > 0 \/ (r.ready /\ r.acceptCb = NoCall)
    /\ ~edge /\ conn = "refused" => w.connectCb = NoCall
    /\ r.polls # <<>> => ~r.ready

Dismissed == 1 .. cancelled \subseteq ToSet(Calls(r.answers)) \cup ToSet(Calls(w.answers))

ChannelInv ==
    /\ Loop
    /\ ReaderInv(calls, r)
    /\ WriterInv(calls, w)
    /\ Phase
    /\ Noted
    /\ Dismissed

LEMMA InvInit == Init => ChannelInv
<1> SUFFICES ASSUME Init PROVE ChannelInv
  OBVIOUS
<1>0. <<>> \in Seq(Buffer) /\ <<>> \in Seq(Call) /\ <<>> \in Seq(Answer) /\ <<>> \in Seq(Operation)
      /\ Len(<<>>) = 0 /\ DOMAIN <<>> = {}
  BY EmptySeq
<1>1. /\ r \in Reader /\ Buffers(r) = <<>> /\ r.answers = <<>> /\ r.polls = <<>> /\ r.acceptCb = NoCall
      /\ r.arrived = 0 /\ r.avail = 0 /\ r.aborted = 0 /\ r.end = "open"
  BY <1>0 DEF Init, Reader, Buffers
<1>2. /\ w \in Writer /\ Buffers(w) = <<>> /\ w.answers = <<>> /\ w.polls = <<>> /\ w.connectCb = NoCall
      /\ w.sent = <<>> /\ w.cut = {} /\ w.room = Space
  BY <1>0, Sizes DEF Init, Writer, Buffers
<1>3. calls = <<>> /\ status = "Io" /\ conn \in {"none", "up"} /\ edge = TRUE /\ cancelled = 0 /\ drains = 0
  BY DEF Init
<1>4. Calls(<<>>) = <<>> /\ Waiting(NoCall) = <<>>
  BY NoBuffers DEF Waiting
<1>5. ASSUME NEW op PROVE InLine(<<>>, <<>>, <<>>, op)
  BY <1>0 DEF InLine
<1>6. ASSUME NEW a, NEW b, NEW c PROVE Lines(<<>>, <<>>, <<>>, <<>>, NoCall, a, b, c)
  BY <1>0, <1>4, <1>5 DEF Lines, Kinds
<1>7. ReaderInv(calls, r)
  <2>1. Taken(<<>>) = 0
    <3> DEFINE none == <<>>
    <3>1. none \in Seq(Answer) /\ Len(none) = 0
      BY <1>0
    <3> HIDE DEF none
    <3>3. \A i \in 1 .. Len(none) : none[i].n <= 0
      BY <3>1
    <3>2. Taken(none) = 0
      BY <3>1, <3>3, TakenNone
    <3> QED BY <3>2 DEF none
  <2>2. Ended(calls, r)
    BY <1>0, <1>1 DEF Ended
  <2> QED BY <1>1, <1>3, <1>4, <1>6, <2>1, <2>2 DEF ReaderInv
<1>8. WriterInv(calls, w)
  <2>1. \A c : OnWire(<<>>, c) = 0
    <3>1. \A c : {i \in DOMAIN <<>> : <<>>[i] = c} = {}
      OBVIOUS
    <3> QED BY <3>1, FS_EmptySet DEF OnWire
  <2>2. Wire(calls, w)
    BY <1>0, <1>2, <1>3, <2>1 DEF Wire
  <2> QED BY <1>2, <1>3, <1>4, <1>6, <2>2 DEF WriterInv
<1>9. Loop
  BY <1>0, <1>1, <1>3, Sizes DEF Loop
<1>10. Phase
  BY <1>1, <1>2, <1>3 DEF Phase, Idle
<1>11. Noted
  BY <1>1, <1>3 DEF Noted
<1>12. Dismissed
  BY <1>3 DEF Dismissed
<1> QED BY <1>7, <1>8, <1>9, <1>10, <1>11, <1>12 DEF ChannelInv

\* Who was answered stays answered.
LEMMA DismissedKept ==
    ASSUME Dismissed, cancelled' = cancelled,
           ToSet(Calls(r.answers)) \subseteq ToSet(Calls(r'.answers)),
           ToSet(Calls(w.answers)) \subseteq ToSet(Calls(w'.answers))
    PROVE  Dismissed'
BY DEF Dismissed

LEMMA CallingFacts ==
    ASSUME ChannelInv, NEW op \in {"read", "write", "pollRead", "pollWrite", "accept", "connect"},
           NEW len \in 0 .. MaxLength, Calling(op, len)
    PROVE  LET x == [op |-> op, len |-> len] IN
           /\ x \in Operation /\ x.op = op /\ x.len = len
           /\ calls \in Seq(Operation) /\ calls' = Append(calls, x) /\ Len(calls) < MaxCalls
           /\ calls' \in Seq(Operation) /\ Len(calls') <= MaxCalls
           /\ cancelled' = cancelled /\ cancelled' \in 0 .. Len(calls')
           /\ edge' = edge /\ drains' = drains
<1> DEFINE x == [op |-> op, len |-> len]
<1>1. x \in Operation /\ x.op = op /\ x.len = len
  BY DEF Operation
<1>2. calls \in Seq(Operation) /\ cancelled \in 0 .. Len(calls)
  BY DEF ChannelInv, Loop
<1>3. calls' = Append(calls, x) /\ Len(calls) < MaxCalls /\ cancelled' = cancelled /\ edge' = edge /\ drains' = drains
  BY DEF Calling
<1> HIDE DEF x
<1>4. Len(calls) \in Nat /\ Append(calls, x) \in Seq(Operation) /\ Len(Append(calls, x)) = Len(calls) + 1
  BY <1>1, <1>2, OlderCalls
<1>5. Len(calls') <= MaxCalls /\ cancelled' \in 0 .. Len(calls')
  BY <1>2, <1>3, <1>4, Sizes
<1> QED BY <1>1, <1>2, <1>3, <1>4, <1>5 DEF x

\* What an event makes of the reading half.
LEMMA EventReader ==
    ASSUME ChannelInv, NEW p \in IF Readable THEN HandleRead(r) ELSE {r}
    PROVE  /\ ReaderInv(calls, p) /\ p.end = r.end /\ p.arrived = r.arrived
           /\ ToSet(Calls(r.answers)) \subseteq ToSet(Calls(p.answers))
           /\ conn = "up" => ReadNoted(p)
           /\ conn = "listening" => p.avail = 0 \/ p.aborted > 0 \/ (p.ready /\ p.acceptCb = NoCall)
           /\ conn # "up" => Idle(p) /\ (conn # "listening" => p.avail = 0)
           /\ p.acceptCb # NoCall => conn = "listening"
           /\ p.polls # <<>> => ~p.ready
<1>0. ReaderInv(calls, r) /\ Phase /\ Noted
  BY DEF ChannelInv
<1>1. r \in Reader /\ r.avail \in Nat
  BY <1>0, ReaderFields DEF ReaderInv
<1>2. CASE ~Readable
  <2>1. p = r /\ conn \notin {"none", "refused"} /\ r.avail = 0 /\ r.end = "open"
    BY <1>1, <1>2 DEF Readable
  <2>2. ReadNoted(p)
    BY <2>1 DEF ReadNoted
  <2>3. conn # "up" => Idle(p)
    BY <1>0, <2>1 DEF Phase
  <2>4. (p.acceptCb # NoCall => conn = "listening") /\ (p.polls # <<>> => ~p.ready)
    BY <1>0, <2>1 DEF Phase, Noted
  <2> QED BY <1>0, <2>1, <2>2, <2>3, <2>4
<1>3. CASE Readable /\ status = "Accept"
  <2>1. p \in HandleAccept(r)
    BY <1>3 DEF HandleRead
  <2>2. conn = "listening"
    BY <1>0, <1>3 DEF Phase
  <2>3. /\ ReaderInv(calls, p) /\ SameButAccepts(r, p)
        /\ p.avail = 0 \/ p.aborted > 0 \/ (p.ready /\ p.acceptCb = NoCall)
        /\ ToSet(Calls(r.answers)) \subseteq ToSet(Calls(p.answers))
    BY <1>0, <2>1, ReaderHandleAccept
  <2>4. Idle(r)
    BY <1>0, <2>2 DEF Phase
  <2>5. Idle(p) /\ p.polls = <<>>
    BY <2>3, <2>4 DEF Idle, SameButAccepts, Buffers
  <2> QED BY <2>2, <2>3, <2>5 DEF SameButAccepts
<1>4. CASE Readable /\ status # "Accept"
  <2> DEFINE f == DoPoll(r)
  <2>1. p \in DoRead(f)
    BY <1>4 DEF HandleRead
  <2>2. conn # "listening"
    BY <1>0, <1>4 DEF Phase
  <2>3. /\ ReaderInv(calls, f) /\ f.polls = <<>> /\ f.bufs = r.bufs /\ f.pend = r.pend
        /\ f.acceptCb = r.acceptCb /\ f.avail = r.avail /\ f.arrived = r.arrived /\ f.end = r.end
        /\ ToSet(Calls(r.answers)) \subseteq ToSet(Calls(f.answers))
    BY <1>0, ReaderPolled
  <2> HIDE DEF f
  <2>4. /\ ReaderInv(calls, p) /\ SameButReads(f, p) /\ ReadNoted(p)
        /\ Buffers(f) = <<>> => Buffers(p) = <<>> /\ p.avail = f.avail
        /\ ToSet(Calls(f.answers)) \subseteq ToSet(Calls(p.answers))
    BY <2>1, <2>3, ReaderDoRead
  <2>5. /\ p.polls = <<>> /\ p.acceptCb = r.acceptCb /\ p.arrived = r.arrived /\ p.end = r.end
    BY <2>3, <2>4 DEF SameButReads
  <2>6. Buffers(f) = Buffers(r)
    BY <2>3 DEF Buffers
  <2>7. conn # "up" => Idle(p) /\ p.avail = 0
    BY <1>0, <2>2, <2>3, <2>4, <2>5, <2>6 DEF Phase, Idle
  <2>8. p.acceptCb # NoCall => conn = "listening"
    BY <1>0, <2>5 DEF Phase
  <2> QED BY <2>2, <2>3, <2>4, <2>5, <2>7, <2>8
<1> QED BY <1>2, <1>3, <1>4

\* What an event makes of the writing half.
LEMMA EventWriter ==
    ASSUME ChannelInv, NEW q \in IF Writeable THEN HandleWrite(w) ELSE {Asked(w)}
    PROVE  /\ WriterInv(calls, q)
           /\ ToSet(Calls(w.answers)) \subseteq ToSet(Calls(q.answers))
           /\ conn = "up" => WriteNoted(r.end, q) /\ q.connectCb = NoCall
           /\ Writeable => q.connectCb = NoCall
           /\ ~Writeable => q.connectCb = w.connectCb /\ q.room = w.room
           /\ conn # "up" => Idle(q) /\ q.room = Space
<1>0. WriterInv(calls, w) /\ Phase /\ Noted
  BY DEF ChannelInv
<1>1. w \in Writer /\ w.room \in 0 .. Space /\ w.room \in Nat /\ w.nospace \in BOOLEAN /\ w.ready \in BOOLEAN
  BY <1>0, WriterFields DEF WriterInv
<1>2. CASE ~Writeable
  <2> DEFINE full == w.nospace \/ (conn = "up" /\ w.room = 0)
             g == Flagged(w, w.ready, full, w.room)
  <2>1. q = g
    BY <1>1, <1>2 DEF Asked, Writer, Flagged
  <2>2. full \in BOOLEAN
    OBVIOUS
  <2>3. conn = "up" => w.room = 0 /\ r.end # "reset" /\ full
    BY <1>1, <1>2 DEF Writeable
  <2> HIDE DEF full
  <2>4. /\ WriterInv(calls, g) /\ g.ready = w.ready /\ g.nospace = full /\ g.room = w.room
        /\ g.bufs = w.bufs /\ g.pend = w.pend /\ g.polls = w.polls /\ g.connectCb = w.connectCb
        /\ g.answers = w.answers
    BY <1>0, <1>1, <2>2, WriterFlagged
  <2> HIDE DEF g
  <2>5. conn = "up" => WriteNoted(r.end, q)
    BY <2>1, <2>3, <2>4 DEF WriteNoted
  <2>6. conn = "up" => q.connectCb = NoCall
    <3>1. conn = "up" => w.room # Space
      BY <2>3, Sizes
    <3> QED BY <1>0, <2>1, <2>4, <3>1 DEF Phase
  <2>7. conn # "up" => Idle(q) /\ q.room = Space
    BY <1>0, <2>1, <2>4 DEF Phase, Idle, Buffers
  <2> QED BY <1>2, <2>1, <2>4, <2>5, <2>6, <2>7
<1>3. ASSUME NEW g, WriterInv(calls, g), g.connectCb = NoCall, g.room = w.room, g.bufs = w.bufs, g.pend = w.pend,
             ToSet(Calls(w.answers)) \subseteq ToSet(Calls(g.answers)),
             q \in DoWrite(DoPoll(g)), Writeable
      PROVE  /\ WriterInv(calls, q)
             /\ ToSet(Calls(w.answers)) \subseteq ToSet(Calls(q.answers))
             /\ conn = "up" => WriteNoted(r.end, q) /\ q.connectCb = NoCall
             /\ Writeable => q.connectCb = NoCall
             /\ ~Writeable => q.connectCb = w.connectCb /\ q.room = w.room
             /\ conn # "up" => Idle(q) /\ q.room = Space
  <2> DEFINE f == DoPoll(g)
  <2>1. /\ WriterInv(calls, f) /\ f.polls = <<>> /\ f.bufs = g.bufs /\ f.pend = g.pend
        /\ f.connectCb = g.connectCb /\ f.room = g.room
        /\ ToSet(Calls(g.answers)) \subseteq ToSet(Calls(f.answers))
    BY <1>3, WriterPolled
  <2>2. q \in DoWrite(f)
    BY <1>3
  <2> HIDE DEF f
  <2>3. /\ WriterInv(calls, q) /\ q.polls = f.polls /\ q.connectCb = f.connectCb /\ WriteNoted(r.end, q)
        /\ Buffers(f) = <<>> => Buffers(q) = <<>> /\ q.room = f.room
        /\ ToSet(Calls(f.answers)) \subseteq ToSet(Calls(q.answers))
    BY <2>1, <2>2, WriterDoWrite
  <2>4. Buffers(f) = Buffers(w)
    BY <1>3, <2>1 DEF Buffers
  <2>5. conn # "up" => Idle(q) /\ q.room = Space
    BY <1>0, <1>3, <2>1, <2>3, <2>4 DEF Phase, Idle
  <2> QED BY <1>3, <2>1, <2>3, <2>5
<1>4. CASE Writeable /\ status # "Connect"
  <2>1. q \in DoWrite(DoPoll(w)) /\ w.connectCb = NoCall
    BY <1>0, <1>4 DEF HandleWrite, Phase
  <2> QED BY <1>0, <1>3, <1>4, <2>1
<1>5. CASE Writeable /\ status = "Connect"
  <2> DEFINE g == HandleConnect(w)
  <2>1. /\ WriterInv(calls, g) /\ g.connectCb = NoCall /\ g.ready = w.ready /\ g.nospace = w.nospace
        /\ g.room = w.room /\ g.bufs = w.bufs /\ g.pend = w.pend /\ g.polls = w.polls
        /\ ToSet(Calls(w.answers)) \subseteq ToSet(Calls(g.answers))
    BY <1>0, WriterConnected
  <2>2. CASE ConnectError
    <3>1. q = g /\ conn = "refused"
      BY <1>5, <2>2 DEF HandleWrite, ConnectError
    <3> HIDE DEF g
    <3>2. Idle(q) /\ q.room = Space
      BY <1>0, <2>1, <3>1 DEF Phase, Idle, Buffers
    <3> QED BY <1>5, <2>1, <3>1, <3>2
  <2>3. CASE ~ConnectError
    <3>1. q \in DoWrite(DoPoll(g))
      BY <1>5, <2>3 DEF HandleWrite
    <3> HIDE DEF g
    <3> QED BY <1>3, <1>5, <2>1, <3>1
  <2> QED BY <2>2, <2>3
<1> QED BY <1>2, <1>4, <1>5

LEMMA InvOnEvent == ChannelInv /\ OnEvent => ChannelInv'
<1> SUFFICES ASSUME ChannelInv, OnEvent PROVE ChannelInv'
  OBVIOUS
<1>1. /\ edge' = FALSE /\ conn' = conn /\ calls' = calls /\ cancelled' = cancelled /\ drains' = drains
      /\ r' \in (IF Readable THEN HandleRead(r) ELSE {r})
      /\ w' \in (IF Writeable THEN HandleWrite(w) ELSE {Asked(w)})
      /\ status' = IF Writeable /\ status = "Connect" THEN "Io" ELSE status
  BY DEF OnEvent
<1>2. Loop /\ Phase /\ Noted /\ Dismissed
  BY DEF ChannelInv
<1>3. /\ ReaderInv(calls, r') /\ r'.end = r.end /\ r'.arrived = r.arrived
      /\ ToSet(Calls(r.answers)) \subseteq ToSet(Calls(r'.answers))
      /\ conn = "up" => ReadNoted(r')
      /\ conn = "listening" => r'.avail = 0 \/ r'.aborted > 0 \/ (r'.ready /\ r'.acceptCb = NoCall)
      /\ conn # "up" => Idle(r') /\ (conn # "listening" => r'.avail = 0)
      /\ r'.acceptCb # NoCall => conn = "listening"
      /\ r'.polls # <<>> => ~r'.ready
  BY <1>1, EventReader
<1>4. /\ WriterInv(calls, w')
      /\ ToSet(Calls(w.answers)) \subseteq ToSet(Calls(w'.answers))
      /\ conn = "up" => WriteNoted(r.end, w') /\ w'.connectCb = NoCall
      /\ Writeable => w'.connectCb = NoCall
      /\ ~Writeable => w'.connectCb = w.connectCb /\ w'.room = w.room
      /\ conn # "up" => Idle(w') /\ w'.room = Space
  BY <1>1, EventWriter
<1>5. conn = "refused" => Writeable
  BY DEF Writeable
<1> HIDE DEF OnEvent
<1>6. Loop'
  BY <1>1, <1>2, <1>3 DEF Loop
<1>7. Phase'
  BY <1>1, <1>2, <1>3, <1>4 DEF Phase
<1>8. Noted'
  BY <1>1, <1>3, <1>4, <1>5 DEF Noted
<1>9. Dismissed'
  BY <1>1, <1>2, <1>3, <1>4, DismissedKept
<1> QED BY <1>1, <1>3, <1>4, <1>6, <1>7, <1>8, <1>9 DEF ChannelInv

LEMMA InvTryRead ==
    ASSUME ChannelInv, NEW len \in 1 .. MaxLength, TryRead(len)
    PROVE  ChannelInv'
<1> DEFINE x == [op |-> "read", len |-> len]
           o == AddPendingTask(r, NewCall, len)
<1>1. /\ conn = "up" /\ status = "Io" /\ Calling("read", len)
      /\ r' \in (IF r.ready THEN DoRead(o) ELSE {o})
      /\ status' = status /\ w' = w /\ conn' = conn
  BY DEF TryRead, Connected
<1>2. Loop /\ ReaderInv(calls, r) /\ WriterInv(calls, w) /\ Phase /\ Noted /\ Dismissed
  BY DEF ChannelInv
<1>3. /\ x \in Operation /\ x.op = "read" /\ x.len = len /\ len > 0 /\ len \in 0 .. MaxLength
      /\ calls \in Seq(Operation) /\ calls' = Append(calls, x) /\ Len(calls) < MaxCalls
      /\ calls' \in Seq(Operation) /\ Len(calls') <= MaxCalls
      /\ cancelled' = cancelled /\ cancelled' \in 0 .. Len(calls')
      /\ edge' = edge /\ drains' = drains
  <2>1. len > 0 /\ len \in 0 .. MaxLength
    BY Sizes
  <2> QED BY <1>1, <2>1, CallingFacts
<1>0. NewCall = Len(calls) + 1
  BY DEF NewCall
<1> HIDE DEF x
<1>4. /\ ReaderInv(calls', o) /\ SameButReads(r, o) /\ o.bufs = r.bufs /\ o.ready = r.ready
      /\ o.avail = r.avail /\ o.short = r.short /\ o.answers = r.answers
  BY <1>0, <1>2, <1>3, ReaderCalled
<1> HIDE DEF o
<1>5. WriterInv(calls', w')
  BY <1>0, <1>1, <1>2, <1>3, WriterCalled
<1>6. /\ ReaderInv(calls', r') /\ SameButReads(r, r')
      /\ ToSet(Calls(r.answers)) \subseteq ToSet(Calls(r'.answers))
      /\ ~edge => ReadNoted(r')
      /\ r'.polls # <<>> => ~r'.ready
  <2>1. CASE r.ready
    <3>1. /\ ReaderInv(calls', r') /\ SameButReads(o, r') /\ ReadNoted(r')
          /\ ToSet(Calls(o.answers)) \subseteq ToSet(Calls(r'.answers))
      BY <1>1, <1>4, <2>1, ReaderDoRead
    <3>2. r.polls = <<>>
      BY <1>2, <2>1 DEF Noted
    <3> QED BY <1>4, <3>1, <3>2 DEF SameButReads
  <2>2. CASE ~r.ready
    <3>1. r' = o
      BY <1>1, <2>2
    <3>2. ~edge => ReadNoted(r)
      BY <1>1, <1>2 DEF Noted
    <3>3. ~edge => ReadNoted(o)
      BY <1>4, <3>2 DEF ReadNoted, SameButReads
    <3> QED BY <1>4, <2>2, <3>1, <3>3 DEF SameButReads
  <2> QED BY <2>1, <2>2
<1>7. Loop'
  BY <1>1, <1>2, <1>3, <1>6 DEF Loop, SameButReads
<1>8. Phase'
  BY <1>1, <1>2, <1>6 DEF Phase, SameButReads
<1>9. Noted'
  BY <1>1, <1>2, <1>3, <1>6 DEF Noted, SameButReads
<1>10. Dismissed'
  BY <1>1, <1>2, <1>3, <1>6, DismissedKept
<1> QED BY <1>5, <1>6, <1>7, <1>8, <1>9, <1>10 DEF ChannelInv

LEMMA InvTryWrite ==
    ASSUME ChannelInv, NEW len \in 1 .. MaxLength, TryWrite(len)
    PROVE  ChannelInv'
<1> DEFINE x == [op |-> "write", len |-> len]
           o == AddPendingTask(w, NewCall, len)
<1>1. /\ conn = "up" /\ status = "Io" /\ Calling("write", len)
      /\ w' \in (IF w.ready THEN DoWrite(o) ELSE {o})
      /\ status' = status /\ r' = r /\ conn' = conn
  BY DEF TryWrite, Connected
<1>2. Loop /\ ReaderInv(calls, r) /\ WriterInv(calls, w) /\ Phase /\ Noted /\ Dismissed
  BY DEF ChannelInv
<1>3. /\ x \in Operation /\ x.op = "write" /\ x.len = len /\ len > 0 /\ len \in 0 .. MaxLength
      /\ calls \in Seq(Operation) /\ calls' = Append(calls, x) /\ Len(calls) < MaxCalls
      /\ calls' \in Seq(Operation) /\ Len(calls') <= MaxCalls
      /\ cancelled' = cancelled /\ cancelled' \in 0 .. Len(calls')
      /\ edge' = edge /\ drains' = drains
  <2>1. len > 0 /\ len \in 0 .. MaxLength
    BY Sizes
  <2> QED BY <1>1, <2>1, CallingFacts
<1>0. NewCall = Len(calls) + 1
  BY DEF NewCall
<1> HIDE DEF x
<1>4. /\ WriterInv(calls', o) /\ o.bufs = w.bufs /\ o.ready = w.ready /\ o.polls = w.polls
      /\ o.connectCb = w.connectCb /\ o.room = w.room /\ o.nospace = w.nospace /\ o.answers = w.answers
  BY <1>0, <1>2, <1>3, WriterCalled
<1> HIDE DEF o
<1>5. ReaderInv(calls', r')
  BY <1>0, <1>1, <1>2, <1>3, ReaderCalled
<1>6. /\ WriterInv(calls', w') /\ w'.connectCb = w.connectCb
      /\ ToSet(Calls(w.answers)) \subseteq ToSet(Calls(w'.answers))
      /\ ~edge => WriteNoted(r.end, w')
  <2>1. CASE w.ready
    <3>1. /\ WriterInv(calls', w') /\ w'.connectCb = o.connectCb /\ WriteNoted(r.end, w')
          /\ ToSet(Calls(o.answers)) \subseteq ToSet(Calls(w'.answers))
      BY <1>1, <1>4, <2>1, WriterDoWrite
    <3> QED BY <1>4, <3>1
  <2>2. CASE ~w.ready
    <3>1. w' = o
      BY <1>1, <2>2
    <3>2. ~edge => WriteNoted(r.end, w)
      BY <1>1, <1>2 DEF Noted
    <3>3. ~edge => WriteNoted(r.end, o)
      BY <1>4, <3>2 DEF WriteNoted
    <3> QED BY <1>4, <3>1, <3>3
  <2> QED BY <2>1, <2>2
<1>7. Loop'
  BY <1>1, <1>2, <1>3 DEF Loop
<1>8. Phase'
  BY <1>1, <1>2, <1>6 DEF Phase
<1>9. Noted'
  BY <1>1, <1>2, <1>3, <1>6 DEF Noted
<1>10. Dismissed'
  BY <1>1, <1>2, <1>3, <1>6, DismissedKept
<1> QED BY <1>5, <1>6, <1>7, <1>8, <1>9, <1>10 DEF ChannelInv

LEMMA InvTryPollRead == ChannelInv /\ TryPollRead => ChannelInv'
<1> SUFFICES ASSUME ChannelInv, TryPollRead PROVE ChannelInv'
  OBVIOUS
<1> DEFINE x == [op |-> "pollRead", len |-> 0]
           o == Polling(r, NewCall)
<1>1. /\ conn = "up" /\ status = "Io" /\ Calling("pollRead", 0)
      /\ r' = IF r.ready THEN DoPoll(o) ELSE o
      /\ status' = status /\ w' = w /\ conn' = conn
  BY DEF TryPollRead, Connected, Polling
<1>2. Loop /\ ReaderInv(calls, r) /\ WriterInv(calls, w) /\ Phase /\ Noted /\ Dismissed
  BY DEF ChannelInv
<1>3. /\ x \in Operation /\ x.op = "pollRead" /\ x.len = 0
      /\ calls \in Seq(Operation) /\ calls' = Append(calls, x) /\ Len(calls) < MaxCalls
      /\ calls' \in Seq(Operation) /\ Len(calls') <= MaxCalls
      /\ cancelled' = cancelled /\ cancelled' \in 0 .. Len(calls')
      /\ edge' = edge /\ drains' = drains
  <2>1. 0 \in 0 .. MaxLength
    BY Sizes
  <2> QED BY <1>1, <2>1, CallingFacts
<1>0. NewCall = Len(calls) + 1
  BY DEF NewCall
<1> HIDE DEF x
<1>4. /\ ReaderInv(calls', o) /\ o.bufs = r.bufs /\ o.pend = r.pend /\ o.ready = r.ready
      /\ o.avail = r.avail /\ o.short = r.short /\ o.answers = r.answers
      /\ o.acceptCb = r.acceptCb /\ o.arrived = r.arrived /\ o.end = r.end /\ o.aborted = r.aborted
  BY <1>0, <1>2, <1>3, ReaderCalled
<1> HIDE DEF o
<1>5. WriterInv(calls', w')
  BY <1>0, <1>1, <1>2, <1>3, WriterCalled
<1>6. /\ ReaderInv(calls', r') /\ r'.bufs = r.bufs /\ r'.pend = r.pend /\ r'.ready = r.ready
      /\ r'.avail = r.avail /\ r'.short = r.short
      /\ r'.acceptCb = r.acceptCb /\ r'.arrived = r.arrived /\ r'.end = r.end
      /\ ToSet(Calls(r.answers)) \subseteq ToSet(Calls(r'.answers))
      /\ r'.polls # <<>> => ~r'.ready
  <2>1. CASE r.ready
    <3>1. r' = DoPoll(o)
      BY <1>1, <2>1
    <3>2. /\ ReaderInv(calls', r') /\ r'.bufs = o.bufs /\ r'.pend = o.pend /\ r'.ready = o.ready
          /\ r'.avail = o.avail /\ r'.short = o.short /\ r'.polls = <<>>
          /\ r'.acceptCb = o.acceptCb /\ r'.arrived = o.arrived /\ r'.end = o.end
          /\ ToSet(Calls(o.answers)) \subseteq ToSet(Calls(r'.answers))
      BY <1>4, <3>1, ReaderPolled
    <3> QED BY <1>4, <3>2
  <2>2. CASE ~r.ready
    <3>1. r' = o
      BY <1>1, <2>2
    <3> QED BY <1>4, <2>2, <3>1
  <2> QED BY <2>1, <2>2
<1>7. Loop'
  BY <1>1, <1>2, <1>3, <1>6 DEF Loop
<1>8. Phase'
  BY <1>1, <1>2, <1>6 DEF Phase
<1>9. Noted'
  <2>1. ReadNoted(r) => ReadNoted(r')
    BY <1>6 DEF ReadNoted
  <2> QED BY <1>1, <1>2, <1>3, <1>6, <2>1 DEF Noted
<1>10. Dismissed'
  BY <1>1, <1>2, <1>3, <1>6, DismissedKept
<1> QED BY <1>5, <1>6, <1>7, <1>8, <1>9, <1>10 DEF ChannelInv

LEMMA InvTryPollWrite == ChannelInv /\ TryPollWrite => ChannelInv'
<1> SUFFICES ASSUME ChannelInv, TryPollWrite PROVE ChannelInv'
  OBVIOUS
<1> DEFINE x == [op |-> "pollWrite", len |-> 0]
           o == Polling(w, NewCall)
<1>1. /\ conn = "up" /\ status = "Io" /\ Calling("pollWrite", 0)
      /\ w' = IF w.ready THEN DoPoll(o) ELSE o
      /\ status' = status /\ r' = r /\ conn' = conn
  BY DEF TryPollWrite, Connected, Polling
<1>2. Loop /\ ReaderInv(calls, r) /\ WriterInv(calls, w) /\ Phase /\ Noted /\ Dismissed
  BY DEF ChannelInv
<1>3. /\ x \in Operation /\ x.op = "pollWrite" /\ x.len = 0
      /\ calls \in Seq(Operation) /\ calls' = Append(calls, x) /\ Len(calls) < MaxCalls
      /\ calls' \in Seq(Operation) /\ Len(calls') <= MaxCalls
      /\ cancelled' = cancelled /\ cancelled' \in 0 .. Len(calls')
      /\ edge' = edge /\ drains' = drains
  <2>1. 0 \in 0 .. MaxLength
    BY Sizes
  <2> QED BY <1>1, <2>1, CallingFacts
<1>0. NewCall = Len(calls) + 1
  BY DEF NewCall
<1> HIDE DEF x
<1>4. /\ WriterInv(calls', o) /\ o.bufs = w.bufs /\ o.pend = w.pend /\ o.ready = w.ready
      /\ o.connectCb = w.connectCb /\ o.room = w.room /\ o.nospace = w.nospace /\ o.answers = w.answers
  BY <1>0, <1>2, <1>3, WriterCalled
<1> HIDE DEF o
<1>5. ReaderInv(calls', r')
  BY <1>0, <1>1, <1>2, <1>3, ReaderCalled
<1>6. /\ WriterInv(calls', w') /\ w'.bufs = w.bufs /\ w'.pend = w.pend /\ w'.ready = w.ready
      /\ w'.connectCb = w.connectCb /\ w'.room = w.room /\ w'.nospace = w.nospace
      /\ ToSet(Calls(w.answers)) \subseteq ToSet(Calls(w'.answers))
  <2>1. CASE w.ready
    <3>1. w' = DoPoll(o)
      BY <1>1, <2>1
    <3>2. /\ WriterInv(calls', w') /\ w'.bufs = o.bufs /\ w'.pend = o.pend /\ w'.ready = o.ready
          /\ w'.connectCb = o.connectCb /\ w'.room = o.room /\ w'.nospace = o.nospace
          /\ ToSet(Calls(o.answers)) \subseteq ToSet(Calls(w'.answers))
      BY <1>4, <3>1, WriterPolled
    <3> QED BY <1>4, <3>2
  <2>2. CASE ~w.ready
    <3>1. w' = o
      BY <1>1, <2>2
    <3> QED BY <1>4, <3>1
  <2> QED BY <2>1, <2>2
<1>7. Loop'
  BY <1>1, <1>2, <1>3 DEF Loop
<1>8. Phase'
  BY <1>1, <1>2, <1>6 DEF Phase
<1>9. Noted'
  <2>1. WriteNoted(r.end, w) => WriteNoted(r.end, w')
    BY <1>6 DEF WriteNoted
  <2> QED BY <1>1, <1>2, <1>3, <1>6, <2>1 DEF Noted
<1>10. Dismissed'
  BY <1>1, <1>2, <1>3, <1>6, DismissedKept
<1> QED BY <1>5, <1>6, <1>7, <1>8, <1>9, <1>10 DEF ChannelInv

LEMMA InvTryAccept == ChannelInv /\ TryAccept => ChannelInv'
<1> SUFFICES ASSUME ChannelInv, TryAccept PROVE ChannelInv'
  OBVIOUS
<1> DEFINE x == [op |-> "accept", len |-> 0]
           o == Accepting(r, NewCall)
<1>1. /\ conn = "listening" /\ r.acceptCb = NoCall /\ Calling("accept", 0)
      /\ r' \in (IF r.ready THEN DoAccept(o) ELSE {o})
      /\ status' = status /\ w' = w /\ conn' = conn
  BY DEF TryAccept, Accepting
<1>2. Loop /\ ReaderInv(calls, r) /\ WriterInv(calls, w) /\ Phase /\ Noted /\ Dismissed
  BY DEF ChannelInv
<1>3. /\ x \in Operation /\ x.op = "accept" /\ x.len = 0
      /\ calls \in Seq(Operation) /\ calls' = Append(calls, x) /\ Len(calls) < MaxCalls
      /\ calls' \in Seq(Operation) /\ Len(calls') <= MaxCalls
      /\ cancelled' = cancelled /\ cancelled' \in 0 .. Len(calls')
      /\ edge' = edge /\ drains' = drains
  <2>1. 0 \in 0 .. MaxLength
    BY Sizes
  <2> QED BY <1>1, <2>1, CallingFacts
<1>0. NewCall = Len(calls) + 1 /\ NewCall # NoCall
  <2>1. Len(calls) + 1 # 0
    BY <1>3, OlderCalls
  <2> QED BY <2>1 DEF NewCall, NoCall
<1> HIDE DEF x
<1>4. /\ ReaderInv(calls', o) /\ SameButAccepts(r, o) /\ o.ready = r.ready
      /\ o.acceptCb = NewCall /\ o.avail = r.avail /\ o.aborted = r.aborted /\ o.answers = r.answers
  BY <1>0, <1>1, <1>2, <1>3, ReaderCalled
<1> HIDE DEF o
<1>5. WriterInv(calls', w')
  BY <1>0, <1>1, <1>2, <1>3, WriterCalled
<1>6. /\ ReaderInv(calls', r') /\ SameButAccepts(r, r')
      /\ ToSet(Calls(r.answers)) \subseteq ToSet(Calls(r'.answers))
      /\ ~edge => r'.avail = 0 \/ r'.aborted > 0 \/ (r'.ready /\ r'.acceptCb = NoCall)
  <2>1. CASE r.ready
    <3>1. /\ ReaderInv(calls', r') /\ SameButAccepts(o, r')
          /\ r'.avail = 0 \/ r'.aborted > 0 \/ (r'.ready /\ r'.acceptCb = NoCall)
          /\ ToSet(Calls(o.answers)) \subseteq ToSet(Calls(r'.answers))
      BY <1>0, <1>1, <1>4, <2>1, ReaderDoAccept
    <3> QED BY <1>4, <3>1 DEF SameButAccepts
  <2>2. CASE ~r.ready
    <3>1. r' = o
      BY <1>1, <2>2
    <3>2. ~edge => r.avail = 0 \/ r.aborted > 0
      BY <1>1, <1>2, <2>2 DEF Noted
    <3> QED BY <1>4, <3>1, <3>2
  <2> QED BY <2>1, <2>2
<1>7. Idle(r') /\ r'.polls = <<>>
  <2>1. Idle(r)
    BY <1>1, <1>2 DEF Phase
  <2> QED BY <1>6, <2>1 DEF SameButAccepts, Idle, Buffers
<1>8. Loop'
  BY <1>1, <1>2, <1>3, <1>6 DEF Loop, SameButAccepts
<1>9. Phase'
  BY <1>1, <1>2, <1>6, <1>7 DEF Phase, SameButAccepts
<1>10. Noted'
  BY <1>1, <1>3, <1>6, <1>7 DEF Noted
<1>11. Dismissed'
  BY <1>1, <1>2, <1>3, <1>6, DismissedKept
<1> QED BY <1>5, <1>6, <1>8, <1>9, <1>10, <1>11 DEF ChannelInv

LEMMA InvTryConnect == ChannelInv /\ TryConnect => ChannelInv'
<1> SUFFICES ASSUME ChannelInv, TryConnect PROVE ChannelInv'
  OBVIOUS
<1> DEFINE x == [op |-> "connect", len |-> 0]
           o == Connecting(w, NewCall)
           p == AnswerConnect(o, Failed)
<1>1. /\ conn \in {"none", "refused"} /\ status # "Accept" /\ w.connectCb = NoCall /\ Calling("connect", 0)
      /\ \/ status' = "Connect" /\ conn' = "syn" /\ w' = o
         \/ status' = "Io" /\ conn' = "none" /\ w' = p
      /\ r' = r
  <2>1. /\ conn \in {"none", "refused"} /\ status # "Accept" /\ w.connectCb = NoCall /\ Calling("connect", 0)
        /\ \/ status' = "Connect" /\ conn' = "syn" /\ w' = o
           \/ /\ status' = "Io" /\ conn' = "none"
              /\ w' = [w EXCEPT !.answers = Append(@, [call |-> NewCall, n |-> Failed])]
        /\ r' = r
    BY DEF TryConnect, Connecting
  <2>2. w \in Writer
    BY DEF ChannelInv, WriterInv
  <2>3. w.connectCb = NoCall => p = [w EXCEPT !.answers = Append(@, [call |-> NewCall, n |-> Failed])]
    BY <2>2 DEF AnswerConnect, Connecting, Writer
  <2> HIDE DEF p, o
  <2> QED BY <2>1, <2>3
<1>2. Loop /\ ReaderInv(calls, r) /\ WriterInv(calls, w) /\ Phase /\ Noted /\ Dismissed
  BY DEF ChannelInv
<1>3. /\ x \in Operation /\ x.op = "connect" /\ x.len = 0
      /\ calls \in Seq(Operation) /\ calls' = Append(calls, x) /\ Len(calls) < MaxCalls
      /\ calls' \in Seq(Operation) /\ Len(calls') <= MaxCalls
      /\ cancelled' = cancelled /\ cancelled' \in 0 .. Len(calls')
      /\ edge' = edge /\ drains' = drains
  <2>1. 0 \in 0 .. MaxLength
    BY Sizes
  <2> QED BY <1>1, <2>1, CallingFacts
<1>0. NewCall = Len(calls) + 1 /\ NewCall # NoCall
  <2>1. Len(calls) + 1 # 0
    BY <1>3, OlderCalls
  <2> QED BY <2>1 DEF NewCall, NoCall
<1> HIDE DEF x
<1>4. /\ WriterInv(calls', o) /\ o.bufs = w.bufs /\ o.pend = w.pend /\ o.polls = w.polls
      /\ o.room = w.room /\ o.answers = w.answers /\ o.connectCb = NewCall
  BY <1>0, <1>1, <1>2, <1>3, WriterCalled
<1>5. /\ WriterInv(calls', p) /\ p.bufs = w.bufs /\ p.pend = w.pend /\ p.polls = w.polls
      /\ p.room = w.room /\ p.connectCb = NoCall
      /\ ToSet(Calls(w.answers)) \subseteq ToSet(Calls(p.answers))
  <2> HIDE DEF o
  <2>1. Failed \in Failed .. MaxLength
    BY Sizes
  <2> QED BY <1>0, <1>4, <2>1, WriterAnswered
<1> HIDE DEF o, p
<1>6. ReaderInv(calls', r')
  BY <1>0, <1>1, <1>2, <1>3, ReaderCalled
<1>7. /\ WriterInv(calls', w') /\ w'.bufs = w.bufs /\ w'.pend = w.pend /\ w'.polls = w.polls /\ w'.room = w.room
      /\ w'.connectCb # NoCall => status' = "Connect"
      /\ ToSet(Calls(w.answers)) \subseteq ToSet(Calls(w'.answers))
      /\ conn' \in {"syn", "none"} /\ status' \in {"Connect", "Io"}
  BY <1>1, <1>4, <1>5
<1>8. Idle(w') /\ w'.room = Space /\ Idle(r) /\ r.end = "open" /\ r.avail = 0 /\ r.acceptCb = NoCall /\ r.polls = <<>>
  <2>1. Idle(w) /\ w.room = Space /\ Idle(r) /\ r.end = "open" /\ r.avail = 0 /\ r.acceptCb = NoCall
    BY <1>1, <1>2 DEF Phase
  <2> QED BY <1>7, <2>1 DEF Idle, Buffers
<1>9. Loop'
  BY <1>1, <1>2, <1>3, <1>7 DEF Loop
<1>10. Phase'
  BY <1>1, <1>7, <1>8 DEF Phase
<1>11. Noted'
  BY <1>1, <1>7, <1>8 DEF Noted
<1>12. Dismissed'
  BY <1>1, <1>2, <1>3, <1>7, DismissedKept
<1> QED BY <1>6, <1>7, <1>9, <1>10, <1>11, <1>12 DEF ChannelInv

LEMMA InvListen == ChannelInv /\ Listen => ChannelInv'
<1> SUFFICES ASSUME ChannelInv, Listen PROVE ChannelInv'
  OBVIOUS
<1>1. /\ conn = "none" /\ status = "Io" /\ conn' = "listening" /\ status' = "Accept"
      /\ r' = r /\ w' = w /\ edge' = edge /\ calls' = calls /\ cancelled' = cancelled /\ drains' = drains
  BY DEF Listen
<1>2. Loop /\ ReaderInv(calls, r) /\ WriterInv(calls, w) /\ Phase /\ Noted /\ Dismissed
  BY DEF ChannelInv
<1>3. Loop'
  BY <1>1, <1>2 DEF Loop
<1>4. Phase'
  BY <1>1, <1>2 DEF Phase
<1>5. Noted'
  BY <1>1, <1>2 DEF Noted, Phase
<1>6. Dismissed'
  BY <1>1, <1>2 DEF Dismissed
<1> QED BY <1>1, <1>2, <1>3, <1>4, <1>5, <1>6 DEF ChannelInv

LEMMA InvCancel == ChannelInv /\ Cancel => ChannelInv'
<1> SUFFICES ASSUME ChannelInv, Cancel PROVE ChannelInv'
  OBVIOUS
<1>1. /\ cancelled' = Len(calls) /\ r' = CancelReader(r) /\ w' = CancelWriter(w)
      /\ status' = status /\ conn' = conn /\ edge' = edge /\ calls' = calls /\ drains' = drains
  BY DEF Cancel, CancelReader, CancelWriter
<1>2. Loop /\ ReaderInv(calls, r) /\ WriterInv(calls, w) /\ Phase /\ Noted
  BY DEF ChannelInv
<1>3. /\ ReaderInv(calls, r') /\ Buffers(r') = <<>> /\ r'.bufs = <<>> /\ r'.polls = <<>> /\ r'.acceptCb = NoCall
      /\ r'.ready = r.ready /\ r'.avail = r.avail /\ r'.short = r.short
      /\ r'.arrived = r.arrived /\ r'.end = r.end /\ r'.aborted = r.aborted
      /\ \A k \in DOMAIN calls : calls[k].op \in {"read", "pollRead", "accept"} => k \in ToSet(Calls(r'.answers))
  BY <1>1, <1>2, ReaderCancelled
<1>4. /\ WriterInv(calls, w') /\ Buffers(w') = <<>> /\ w'.bufs = <<>> /\ w'.polls = <<>> /\ w'.connectCb = NoCall
      /\ w'.ready = w.ready /\ w'.room = w.room /\ w'.nospace = w.nospace
      /\ \A k \in DOMAIN calls : calls[k].op \in {"write", "pollWrite", "connect"} => k \in ToSet(Calls(w'.answers))
  BY <1>1, <1>2, WriterCancelled
<1>5. Len(calls) \in Nat /\ DOMAIN calls = 1 .. Len(calls)
      /\ \A k \in DOMAIN calls : calls[k].op \in {"read", "pollRead", "accept", "write", "pollWrite", "connect"}
  <2>1. calls \in Seq(Operation)
    BY <1>2 DEF Loop
  <2>2. \A k \in DOMAIN calls : calls[k] \in Operation
    BY <2>1, ElementOfSeq, LenProperties
  <2> QED BY <2>1, <2>2, LenProperties DEF Operation
<1>6. Loop'
  BY <1>1, <1>2, <1>3, <1>5 DEF Loop
<1>7. Phase'
  BY <1>1, <1>2, <1>3, <1>4 DEF Phase, Idle
<1>8. Noted'
  <2>1. ReadNoted(r) => ReadNoted(r')
    BY <1>3 DEF ReadNoted
  <2>2. WriteNoted(r.end, w) => WriteNoted(r'.end, w')
    BY <1>3, <1>4 DEF WriteNoted
  <2> QED BY <1>1, <1>2, <1>3, <1>4, <2>1, <2>2 DEF Noted
<1>9. Dismissed'
  BY <1>1, <1>3, <1>4, <1>5 DEF Dismissed
<1> QED BY <1>1, <1>3, <1>4, <1>6, <1>7, <1>8, <1>9 DEF ChannelInv

LEMMA InvArrive == ChannelInv /\ Arrive => ChannelInv'
<1> SUFFICES ASSUME ChannelInv, Arrive PROVE ChannelInv'
  OBVIOUS
<1>1. /\ conn \in {"up", "listening"} /\ r.end = "open" /\ r.arrived < MaxIn
      /\ r' = [r EXCEPT !.avail = @ + 1, !.arrived = @ + 1] /\ edge' = TRUE
      /\ status' = status /\ w' = w /\ conn' = conn /\ calls' = calls /\ cancelled' = cancelled /\ drains' = drains
  BY DEF Arrive
<1>2. Loop /\ ReaderInv(calls, r) /\ WriterInv(calls, w) /\ Phase /\ Noted /\ Dismissed
  BY DEF ChannelInv
<1>3. /\ ReaderInv(calls, r')
      /\ r'.acceptCb = r.acceptCb /\ r'.ready = r.ready /\ r'.arrived = r.arrived + 1
      /\ r'.bufs = r.bufs /\ r'.pend = r.pend /\ r'.polls = r.polls /\ r'.end = r.end
      /\ r'.answers = r.answers
  BY <1>1, <1>2, ReaderArrived
<1>4. r'.arrived <= MaxIn
  <2>1. r.arrived \in Nat
    BY <1>2, ReaderFields DEF ReaderInv
  <2> QED BY <1>1, <1>3, <2>1, Sizes
<1>5. Loop'
  BY <1>1, <1>2, <1>4 DEF Loop
<1>6. Phase'
  BY <1>1, <1>2, <1>3 DEF Phase, Idle, Buffers
<1>7. Noted'
  BY <1>1, <1>2, <1>3 DEF Noted
<1>8. Dismissed'
  BY <1>1, <1>2, <1>3 DEF Dismissed
<1> QED BY <1>1, <1>2, <1>3, <1>5, <1>6, <1>7, <1>8 DEF ChannelInv

LEMMA InvPeerEnds ==
    ASSUME ChannelInv, NEW how \in {"closed", "reset"}, PeerEnds(how)
    PROVE  ChannelInv'
<1>1. /\ conn = "up" /\ r' = Ending(r, how) /\ edge' = TRUE
      /\ status' = status /\ w' = w /\ conn' = conn /\ calls' = calls /\ cancelled' = cancelled /\ drains' = drains
  BY DEF PeerEnds, Ending
<1>2. Loop /\ ReaderInv(calls, r) /\ WriterInv(calls, w) /\ Phase /\ Noted /\ Dismissed
  BY DEF ChannelInv
<1>3. /\ ReaderInv(calls, r') /\ r'.acceptCb = r.acceptCb /\ r'.ready = r.ready /\ r'.arrived = r.arrived
      /\ r'.bufs = r.bufs /\ r'.pend = r.pend /\ r'.polls = r.polls
      /\ r'.answers = r.answers
  BY <1>1, <1>2, ReaderEnded
<1>4. Loop'
  BY <1>1, <1>2, <1>3 DEF Loop
<1>5. Phase'
  BY <1>1, <1>2, <1>3 DEF Phase
<1>6. Noted'
  BY <1>1, <1>2, <1>3 DEF Noted
<1>7. Dismissed'
  BY <1>1, <1>2, <1>3 DEF Dismissed
<1> QED BY <1>1, <1>2, <1>3, <1>4, <1>5, <1>6, <1>7 DEF ChannelInv

LEMMA InvConnects ==
    ASSUME ChannelInv, NEW outcome \in {"up", "refused"}, Connects(outcome)
    PROVE  ChannelInv'
<1>1. /\ conn = "syn" /\ conn' = outcome /\ edge' = TRUE
      /\ status' = status /\ r' = r /\ w' = w /\ calls' = calls /\ cancelled' = cancelled /\ drains' = drains
  BY DEF Connects
<1>2. Loop /\ ReaderInv(calls, r) /\ WriterInv(calls, w) /\ Phase /\ Noted /\ Dismissed
  BY DEF ChannelInv
<1>3. Loop'
  BY <1>1, <1>2 DEF Loop
<1>4. Phase'
  BY <1>1, <1>2 DEF Phase
<1>5. Noted'
  BY <1>1, <1>2 DEF Noted
<1>6. Dismissed'
  BY <1>1, <1>2 DEF Dismissed
<1> QED BY <1>1, <1>2, <1>3, <1>4, <1>5, <1>6 DEF ChannelInv

LEMMA InvDrain == ChannelInv /\ Drain => ChannelInv'
<1> SUFFICES ASSUME ChannelInv, Drain PROVE ChannelInv'
  OBVIOUS
<1> DEFINE none == FALSE
           all == Space
           p == Flagged(w, w.ready, none, all)
<1>1. /\ conn = "up" /\ drains < MaxDrains /\ drains' = drains + 1
      /\ w' = [w EXCEPT !.room = Space, !.nospace = FALSE] /\ edge' = (edge \/ w.nospace)
      /\ status' = status /\ r' = r /\ conn' = conn /\ calls' = calls /\ cancelled' = cancelled
  BY DEF Drain
<1>2. Loop /\ ReaderInv(calls, r) /\ WriterInv(calls, w) /\ Phase /\ Noted /\ Dismissed
  BY DEF ChannelInv
<1>3. w \in Writer /\ w.ready \in BOOLEAN /\ none \in BOOLEAN /\ all \in 0 .. Space /\ all = Space /\ w.nospace \in BOOLEAN
  BY <1>2, WriterFields, Sizes DEF WriterInv
<1>4. w' = p /\ p = Flagged(w, w.ready, none, all)
  BY <1>1, <1>3 DEF Writer, Flagged
<1> HIDE DEF none, all, p
<1>5. /\ WriterInv(calls, p) /\ p.ready = w.ready /\ p.nospace = none /\ p.room = all
      /\ p.bufs = w.bufs /\ p.pend = w.pend /\ p.polls = w.polls /\ p.connectCb = w.connectCb
      /\ p.answers = w.answers
  BY <1>2, <1>3, <1>4, WriterFlagged
<1>6. Loop'
  <2>1. drains' \in 0 .. MaxDrains
    BY <1>1, <1>2, Sizes DEF Loop
  <2> QED BY <1>1, <1>2, <2>1 DEF Loop
<1>7. Phase'
  BY <1>1, <1>2, <1>3, <1>4, <1>5 DEF Phase
<1>8. Noted'
  <2>1. ~edge' => ~edge /\ ~w.nospace
    BY <1>1
  <2>2. ~w.nospace /\ WriteNoted(r.end, w) => WriteNoted(r.end, p)
    BY <1>5 DEF WriteNoted
  <2> QED BY <1>1, <1>2, <1>4, <1>5, <2>1, <2>2 DEF Noted
<1>9. Dismissed'
  BY <1>1, <1>2, <1>4, <1>5 DEF Dismissed
<1> QED BY <1>1, <1>2, <1>4, <1>5, <1>6, <1>7, <1>8, <1>9 DEF ChannelInv

LEMMA InvStutter == ChannelInv /\ UNCHANGED vars => ChannelInv'
<1> SUFFICES ASSUME ChannelInv, UNCHANGED vars PROVE ChannelInv'
  OBVIOUS
<1>1. /\ status' = status /\ r' = r /\ w' = w /\ conn' = conn /\ edge' = edge /\ calls' = calls
      /\ cancelled' = cancelled /\ drains' = drains
  BY DEF vars
<1> QED BY <1>1 DEF ChannelInv, Loop, Phase, Noted, Dismissed

LEMMA InvNext == ChannelInv /\ [Next]_vars => ChannelInv'
<1> SUFFICES ASSUME ChannelInv, [Next]_vars PROVE ChannelInv'
  OBVIOUS
<1>1. CASE OnEvent
  BY <1>1, InvOnEvent
<1>2. ASSUME NEW len \in 1 .. MaxLength, TryRead(len) PROVE ChannelInv'
  BY <1>2, InvTryRead
<1>3. ASSUME NEW len \in 1 .. MaxLength, TryWrite(len) PROVE ChannelInv'
  BY <1>3, InvTryWrite
<1>4. CASE TryPollRead
  BY <1>4, InvTryPollRead
<1>5. CASE TryPollWrite
  BY <1>5, InvTryPollWrite
<1>6. CASE TryAccept
  BY <1>6, InvTryAccept
<1>7. CASE TryConnect
  BY <1>7, InvTryConnect
<1>8. CASE Listen
  BY <1>8, InvListen
<1>9. CASE Cancel
  BY <1>9, InvCancel
<1>10. CASE Arrive
  BY <1>10, InvArrive
<1>11. CASE Drain
  BY <1>11, InvDrain
<1>12. ASSUME NEW how \in {"closed", "reset"}, PeerEnds(how) PROVE ChannelInv'
  BY <1>12, InvPeerEnds
<1>13. ASSUME NEW outcome \in {"up", "refused"}, Connects(outcome) PROVE ChannelInv'
  BY <1>13, InvConnects
<1>14. CASE UNCHANGED vars
  BY <1>14, InvStutter
<1> QED BY <1>1, <1>2, <1>3, <1>4, <1>5, <1>6, <1>7, <1>8, <1>9, <1>10, <1>11, <1>12, <1>13, <1>14 DEF Next

--------------------------------------------------------------------------------
\* What the invariant says of the calls

LEMMA Joined ==
    ASSUME NEW s \in Seq(Call), NEW t \in Seq(Call), IsInjective(s), IsInjective(t),
           ToSet(s) \cap ToSet(t) = {}
    PROVE  /\ s \o t \in Seq(Call) /\ IsInjective(s \o t)
           /\ ToSet(s \o t) = ToSet(s) \cup ToSet(t)
<1> DEFINE all == s \o t
<1>1. /\ all \in Seq(Call) /\ Len(s) \in Nat /\ Len(t) \in Nat
      /\ DOMAIN s = 1 .. Len(s) /\ DOMAIN t = 1 .. Len(t) /\ DOMAIN all = 1 .. Len(s) + Len(t)
      /\ \A i \in 1 .. Len(s) + Len(t) : all[i] = IF i <= Len(s) THEN s[i] ELSE t[i - Len(s)]
  BY LenProperties, ConcatProperties
<1> HIDE DEF all
<1>2. \A i \in 1 .. Len(s) : i \in DOMAIN all /\ all[i] = s[i]
  BY <1>1
<1>3. ASSUME NEW i \in 1 .. Len(t) PROVE Len(s) + i \in DOMAIN all /\ all[Len(s) + i] = t[i]
  <2>1. Len(s) + i \in 1 .. Len(s) + Len(t) /\ ~(Len(s) + i <= Len(s)) /\ (Len(s) + i) - Len(s) = i
    BY <1>1
  <2> QED BY <1>1, <2>1
<1>4. ASSUME NEW i \in DOMAIN all
      PROVE  \/ i \in 1 .. Len(s) /\ all[i] = s[i]
             \/ i - Len(s) \in 1 .. Len(t) /\ all[i] = t[i - Len(s)] /\ i > Len(s)
  BY <1>1
<1>5. ToSet(all) = ToSet(s) \cup ToSet(t)
  <2>1. ASSUME NEW i \in DOMAIN all PROVE all[i] \in ToSet(s) \cup ToSet(t)
    BY <1>1, <1>4 DEF ToSet
  <2>2. ASSUME NEW i \in DOMAIN s PROVE s[i] \in ToSet(all)
    BY <1>1, <1>2 DEF ToSet
  <2>3. ASSUME NEW i \in DOMAIN t PROVE t[i] \in ToSet(all)
    BY <1>1, <1>3 DEF ToSet
  <2> QED BY <2>1, <2>2, <2>3 DEF ToSet
<1>6. IsInjective(all)
  <2> SUFFICES ASSUME NEW i \in DOMAIN all, NEW j \in DOMAIN all, all[i] = all[j] PROVE i = j
    BY DEF IsInjective
  <2>0. \A x \in DOMAIN s, y \in DOMAIN t : s[x] # t[y]
    BY DEF ToSet
  <2>1. CASE i \in 1 .. Len(s) /\ j \in 1 .. Len(s)
    BY <1>1, <1>2, <2>1 DEF IsInjective
  <2>2. CASE i - Len(s) \in 1 .. Len(t) /\ all[i] = t[i - Len(s)] /\ j - Len(s) \in 1 .. Len(t) /\ all[j] = t[j - Len(s)]
    <3>1. i - Len(s) = j - Len(s)
      BY <1>1, <2>2 DEF IsInjective
    <3> QED BY <1>1, <3>1
  <2>3. CASE i \in 1 .. Len(s) /\ all[i] = s[i] /\ j - Len(s) \in 1 .. Len(t) /\ all[j] = t[j - Len(s)]
    BY <1>1, <2>0, <2>3
  <2>4. CASE j \in 1 .. Len(s) /\ all[j] = s[j] /\ i - Len(s) \in 1 .. Len(t) /\ all[i] = t[i - Len(s)]
    BY <1>1, <2>0, <2>4
  <2> QED BY <1>4, <2>1, <2>2, <2>3, <2>4
<1> QED BY <1>1, <1>5, <1>6 DEF all

\* The calls of one operation that wait.
OfKind(cs, op) == {k \in DOMAIN cs : cs[k].op = op}

LEMMA LineDistinct ==
    ASSUME NEW cs \in Seq(Operation), NEW ans, NEW line \in Seq(Call), NEW op, InLine(cs, ans, line, op)
    PROVE  /\ IsInjective(line)
           /\ ToSet(line) \subseteq OfKind(cs, op)
<1>1. /\ \A i \in DOMAIN line : line[i] \in DOMAIN cs /\ cs[line[i]].op = op
      /\ \A i, j \in DOMAIN line : i < j => line[i] < line[j]
  BY DEF InLine
<1>2. \A i \in DOMAIN line : i \in Nat /\ line[i] \in Nat
  BY CallSeq
<1>3. \A i, j \in DOMAIN line : line[i] = line[j] => i = j
  BY <1>1, <1>2
<1> QED BY <1>1, <1>3 DEF IsInjective, ToSet, OfKind

\* The calls of a half of the channel: each waits in one place or was answered, once.
Placed(cs, held, done, ops) ==
    /\ held \in Seq(Call) /\ done \in Seq(Call)
    /\ IsInjective(held) /\ IsInjective(done)
    /\ ToSet(held) \cap ToSet(done) = {}
    /\ ToSet(held) \cup ToSet(done) = {k \in DOMAIN cs : cs[k].op \in ops}

LEMMA HalfDistinct ==
    ASSUME NEW cs \in Seq(Operation), NEW ans \in Seq(Answer), NEW line \in Seq(Call), NEW polls \in Seq(Call),
           NEW cb, Waiting(cb) \in Seq(Call), NEW a, NEW b, NEW c, a # b, a # c, b # c,
           Lines(cs, ans, line, polls, cb, a, b, c)
    PROVE  Placed(cs, line \o polls \o Waiting(cb), Calls(ans), {a, b, c})
<1> DEFINE last == Waiting(cb)
           held == line \o polls \o last
           done == Calls(ans)
<1>1. InLine(cs, ans, line, a) /\ InLine(cs, ans, polls, b) /\ InLine(cs, ans, last, c) /\ Kinds(cs, ans, {a, b, c})
  BY DEF Lines
<1>2. last \in Seq(Call)
  OBVIOUS
<1> HIDE DEF last
<1>3. /\ IsInjective(line) /\ ToSet(line) \subseteq OfKind(cs, a)
      /\ IsInjective(polls) /\ ToSet(polls) \subseteq OfKind(cs, b)
      /\ IsInjective(last) /\ ToSet(last) \subseteq OfKind(cs, c)
  <2>1. IsInjective(line) /\ ToSet(line) \subseteq OfKind(cs, a)
    BY <1>1, LineDistinct
  <2>2. IsInjective(polls) /\ ToSet(polls) \subseteq OfKind(cs, b)
    BY <1>1, LineDistinct
  <2>3. IsInjective(last) /\ ToSet(last) \subseteq OfKind(cs, c)
    BY <1>1, <1>2, LineDistinct
  <2> QED BY <2>1, <2>2, <2>3
<1>4. /\ line \o polls \in Seq(Call) /\ IsInjective(line \o polls)
      /\ ToSet(line \o polls) = ToSet(line) \cup ToSet(polls)
  <2>1. ToSet(line) \cap ToSet(polls) = {}
    BY <1>3 DEF OfKind
  <2> QED BY <1>3, <2>1, Joined
<1>5. /\ held \in Seq(Call) /\ IsInjective(held)
      /\ ToSet(held) = ToSet(line) \cup ToSet(polls) \cup ToSet(last)
  <2> DEFINE two == line \o polls
  <2>1. ToSet(two) \cap ToSet(last) = {}
    BY <1>3, <1>4 DEF OfKind
  <2>2. two \in Seq(Call) /\ IsInjective(two) /\ ToSet(two) = ToSet(line) \cup ToSet(polls)
    BY <1>4
  <2> HIDE DEF two
  <2>3. /\ two \o last \in Seq(Call) /\ IsInjective(two \o last)
        /\ ToSet(two \o last) = ToSet(two) \cup ToSet(last)
    BY <1>2, <1>3, <2>1, <2>2, Joined
  <2> QED BY <2>2, <2>3 DEF two
<1> HIDE DEF held
<1>6. /\ Len(ans) \in Nat /\ DOMAIN ans = 1 .. Len(ans)
      /\ \A i \in 1 .. Len(ans) : ans[i].call \in Call /\ ans[i].call \in Nat
  <2>1. Call \subseteq Nat
    BY DEF Call
  <2> QED BY <2>1, AnswerSeq
<1>7. done \in Seq(Call) /\ DOMAIN done = 1 .. Len(ans) /\ \A i \in 1 .. Len(ans) : done[i] = ans[i].call
  <2>1. done = [i \in 1 .. Len(ans) |-> ans[i].call]
    BY <1>6 DEF Calls
  <2> QED BY <1>6, <2>1
<1> HIDE DEF done
<1>8. \A i \in 1 .. Len(ans) : ans[i].call \in DOMAIN cs /\ cs[ans[i].call].op \in {a, b, c}
  BY <1>1, <1>6 DEF Kinds
<1>9. \A i, j \in 1 .. Len(ans) :
         i < j /\ cs[ans[i].call].op = cs[ans[j].call].op => ans[i].call < ans[j].call
  BY <1>1, <1>6, <1>8 DEF InLine
<1>10. IsInjective(done)
  <2>1. \A i, j \in 1 .. Len(ans) : ans[i].call = ans[j].call => i = j
    BY SMTT(30), <1>6, <1>9
  <2> QED BY <1>7, <2>1 DEF IsInjective
<1>11. ASSUME NEW s \in Seq(Call), NEW op, InLine(cs, ans, s, op) PROVE ToSet(s) \cap ToSet(done) = {}
  <2> SUFFICES ASSUME NEW i \in DOMAIN s, NEW j \in DOMAIN done, s[i] = done[j] PROVE FALSE
    BY DEF ToSet
  <2>1. j \in DOMAIN ans /\ done[j] = ans[j].call /\ ans[j].call \in Nat
    BY <1>6, <1>7
  <2>2. cs[s[i]].op = op /\ (cs[ans[j].call].op = op => ans[j].call < s[i])
    BY <1>11, <2>1 DEF InLine
  <2> QED BY <2>1, <2>2
<1>12. ToSet(held) \cap ToSet(done) = {}
  <2>1. ToSet(line) \cap ToSet(done) = {} /\ ToSet(polls) \cap ToSet(done) = {} /\ ToSet(last) \cap ToSet(done) = {}
    BY <1>1, <1>2, <1>11
  <2> QED BY <1>5, <2>1
<1>13. ToSet(done) \subseteq {k \in DOMAIN cs : cs[k].op \in {a, b, c}}
  BY <1>7, <1>8 DEF ToSet
<1>14. ASSUME NEW s, NEW op, InLine(cs, ans, s, op), NEW k \in DOMAIN cs, cs[k].op = op
       PROVE  k \in ToSet(s) \cup ToSet(done)
  <2>1. (\E i \in DOMAIN s : s[i] = k) \/ (\E i \in DOMAIN ans : ans[i].call = k)
    BY <1>14 DEF InLine
  <2>2. (\E i \in DOMAIN ans : ans[i].call = k) => k \in ToSet(done)
    BY <1>6, <1>7 DEF ToSet
  <2> QED BY <2>1, <2>2 DEF ToSet
<1>15. \A k \in DOMAIN cs : cs[k].op \in {a, b, c} => k \in ToSet(held) \cup ToSet(done)
  BY <1>1, <1>5, <1>14
<1>16. ToSet(held) \cup ToSet(done) = {k \in DOMAIN cs : cs[k].op \in {a, b, c}}
  BY <1>3, <1>5, <1>13, <1>15 DEF OfKind
<1>17. Placed(cs, held, done, {a, b, c})
  BY <1>5, <1>7, <1>10, <1>12, <1>16 DEF Placed
<1> QED BY <1>17 DEF held, last, done

LEMMA CallsConcat ==
    ASSUME NEW s \in Seq(Answer), NEW t \in Seq(Answer)
    PROVE  Calls(s \o t) = Calls(s) \o Calls(t)
<1> DEFINE cl(q) == [i \in 1 .. Len(q) |-> q[i].call]
<1>1. ASSUME NEW q \in Seq(Answer)
      PROVE  /\ Calls(q) \in Seq(Call) /\ Len(Calls(q)) = Len(q)
             /\ \A i \in 1 .. Len(q) : Calls(q)[i] = q[i].call
  <2>1. Calls(q) = [i \in 1 .. Len(q) |-> q[i].call]
    BY AnswerSeq DEF Calls
  <2> QED BY <2>1, AnswerSeq
<1>2. s \o t \in Seq(Answer) /\ Len(s \o t) = Len(s) + Len(t) /\ Len(s) \in Nat /\ Len(t) \in Nat
      /\ \A i \in 1 .. Len(s) + Len(t) : (s \o t)[i] = IF i <= Len(s) THEN s[i] ELSE t[i - Len(s)]
  BY ConcatProperties, AnswerSeq
<1> DEFINE a == Calls(s)
           b == Calls(t)
           all == s \o t
<1>3. /\ a \in Seq(Call) /\ b \in Seq(Call) /\ Len(a) = Len(s) /\ Len(b) = Len(t)
      /\ \A i \in 1 .. Len(s) : a[i] = s[i].call
      /\ \A i \in 1 .. Len(t) : b[i] = t[i].call
  BY <1>1
<1>4. Calls(all) \in Seq(Call) /\ Len(Calls(all)) = Len(s) + Len(t)
      /\ \A i \in 1 .. Len(s) + Len(t) : Calls(all)[i] = all[i].call
  BY <1>1, <1>2
<1>5. \A i \in 1 .. Len(s) + Len(t) : all[i] = IF i <= Len(s) THEN s[i] ELSE t[i - Len(s)]
  BY <1>2
<1> HIDE DEF a, b, all
<1>6. a \o b \in Seq(Call) /\ Len(a \o b) = Len(a) + Len(b)
      /\ \A i \in 1 .. Len(a) + Len(b) : (a \o b)[i] = IF i <= Len(a) THEN a[i] ELSE b[i - Len(a)]
  BY ZenonT(60), <1>3, ConcatProperties
<1>7. ASSUME NEW i \in 1 .. Len(s) + Len(t) PROVE Calls(all)[i] = (a \o b)[i]
  <2>1. CASE i <= Len(s)
    <3>1. i \in 1 .. Len(s)
      BY <1>2, <2>1
    <3> QED BY <1>3, <1>4, <1>5, <1>6, <2>1, <3>1
  <2>2. CASE ~(i <= Len(s))
    <3>1. i - Len(s) \in 1 .. Len(t)
      BY <1>2, <2>2
    <3> QED BY <1>3, <1>4, <1>5, <1>6, <2>2, <3>1
  <2> QED BY <2>1, <2>2
<1>8. Calls(all) = a \o b
  BY <1>3, <1>4, <1>6, <1>7, SeqEqual
<1> QED BY <1>8 DEF a, b, all

LEMMA InvType == ChannelInv => TypeOK
<1> SUFFICES ASSUME ChannelInv PROVE TypeOK
  OBVIOUS
<1>1. Loop /\ ReaderInv(calls, r) /\ WriterInv(calls, w)
  BY DEF ChannelInv
<1>2. /\ r \in Reader /\ r.ready \in BOOLEAN /\ r.bufs \in Seq(Buffer) /\ r.pend \in Seq(Buffer) /\ r.polls \in Seq(Call)
      /\ r.avail \in Nat /\ r.arrived \in Nat
      /\ r.end \in {"open", "closed", "reset"} /\ r.answers \in Seq(Answer)
      /\ r.short \in BOOLEAN /\ r.aborted \in Nat /\ Waiting(r.acceptCb) \in Seq(Call)
  <2>1. r \in Reader
    BY <1>1 DEF ReaderInv
  <2> QED BY <2>1, ReaderFields
<1>3. /\ w \in Writer /\ w.ready \in BOOLEAN /\ w.bufs \in Seq(Buffer) /\ w.pend \in Seq(Buffer) /\ w.polls \in Seq(Call)
      /\ w.room \in 0 .. Space /\ w.nospace \in BOOLEAN /\ w.answers \in Seq(Answer) /\ w.sent \in Seq(Byte)
      /\ w.cut \subseteq Call /\ Waiting(w.connectCb) \in Seq(Call)
  <2>1. w \in Writer
    BY <1>1 DEF WriterInv
  <2> QED BY <2>1, WriterFields
<1>4. calls \in Seq(Operation)
  BY <1>1 DEF Loop
<1>5. r.avail \in 0 .. r.arrived /\ r.arrived \in 0 .. MaxIn /\ r.aborted \in 0 .. MaxIn
  <2>1. Taken(r.answers) \in Nat /\ Taken(r.answers) + r.aborted = r.arrived - r.avail
    BY <1>1, <1>2, CountsType DEF ReaderInv
  <2>2. r.arrived <= MaxIn
    BY <1>1 DEF Loop
  <2>3. /\ r.avail \in Nat /\ r.arrived \in Nat /\ r.aborted \in Nat /\ MaxIn \in Nat
    BY <1>2, Sizes
  <2> QED BY ONLY <2>1, <2>2, <2>3
<1>6. ASSUME NEW S, NEW s \in Seq(S) PROVE ToSet(s) \subseteq S
  BY ElementOfSeq, LenProperties DEF ToSet
<1>7. /\ ToSet(Buffers(r) \o Buffers(w)) \subseteq Buffer
      /\ ToSet(Answers) \subseteq Answer /\ ToSet(calls) \subseteq Operation /\ ToSet(w.sent) \subseteq Byte
  <2>1. Buffers(r) \in Seq(Buffer) /\ Buffers(w) \in Seq(Buffer)
    BY <1>2, <1>3, ConcatBuffers DEF Buffers
  <2>2. Buffers(r) \o Buffers(w) \in Seq(Buffer)
    BY <2>1, ConcatBuffers
  <2>3. Answers \in Seq(Answer)
    BY <1>2, <1>3, ConcatAnswers DEF Answers
  <2> QED BY <1>3, <1>4, <1>6, <2>2, <2>3
<1> DEFINE heldr == Calls(Buffers(r)) \o r.polls \o Waiting(r.acceptCb)
           heldw == Calls(Buffers(w)) \o w.polls \o Waiting(w.connectCb)
           doner == Calls(r.answers)
           donew == Calls(w.answers)
           reads == {k \in DOMAIN calls : calls[k].op \in {"read", "pollRead", "accept"}}
           writes == {k \in DOMAIN calls : calls[k].op \in {"write", "pollWrite", "connect"}}
<1>8. /\ heldr \in Seq(Call) /\ doner \in Seq(Call) /\ IsInjective(heldr) /\ IsInjective(doner)
      /\ ToSet(heldr) \cap ToSet(doner) = {} /\ ToSet(heldr) \cup ToSet(doner) = reads
  <2>1. Calls(Buffers(r)) \in Seq(Call)
    BY <1>2, ConcatBuffers DEF Buffers
  <2>2. Lines(calls, r.answers, Calls(Buffers(r)), r.polls, r.acceptCb, "read", "pollRead", "accept")
    BY <1>1 DEF ReaderInv
  <2> DEFINE line == Calls(Buffers(r))
             polls == r.polls
             cb == r.acceptCb
             ans == r.answers
  <2>3. /\ line \in Seq(Call) /\ polls \in Seq(Call) /\ Waiting(cb) \in Seq(Call) /\ ans \in Seq(Answer)
        /\ Lines(calls, ans, line, polls, cb, "read", "pollRead", "accept")
    BY <1>2, <2>1, <2>2
  <2> HIDE DEF line, polls, cb, ans
  <2>4. Placed(calls, line \o polls \o Waiting(cb), Calls(ans), {"read", "pollRead", "accept"})
    BY <1>4, <2>3, HalfDistinct
  <2>5. Placed(calls, heldr, doner, {"read", "pollRead", "accept"})
    BY <2>4 DEF line, polls, cb, ans
  <2> HIDE DEF heldr, doner
  <2> QED BY <2>5 DEF Placed
<1>9. /\ heldw \in Seq(Call) /\ donew \in Seq(Call) /\ IsInjective(heldw) /\ IsInjective(donew)
      /\ ToSet(heldw) \cap ToSet(donew) = {} /\ ToSet(heldw) \cup ToSet(donew) = writes
  <2>1. Calls(Buffers(w)) \in Seq(Call)
    BY <1>3, ConcatBuffers DEF Buffers
  <2>2. Lines(calls, w.answers, Calls(Buffers(w)), w.polls, w.connectCb, "write", "pollWrite", "connect")
    BY <1>1 DEF WriterInv
  <2> DEFINE line == Calls(Buffers(w))
             polls == w.polls
             cb == w.connectCb
             ans == w.answers
  <2>3. /\ line \in Seq(Call) /\ polls \in Seq(Call) /\ Waiting(cb) \in Seq(Call) /\ ans \in Seq(Answer)
        /\ Lines(calls, ans, line, polls, cb, "write", "pollWrite", "connect")
    BY <1>3, <2>1, <2>2
  <2> HIDE DEF line, polls, cb, ans
  <2>4. Placed(calls, line \o polls \o Waiting(cb), Calls(ans), {"write", "pollWrite", "connect"})
    BY <1>4, <2>3, HalfDistinct
  <2>5. Placed(calls, heldw, donew, {"write", "pollWrite", "connect"})
    BY <2>4 DEF line, polls, cb, ans
  <2> HIDE DEF heldw, donew
  <2> QED BY <2>5 DEF Placed
<1>10. reads \cap writes = {} /\ reads \cup writes = DOMAIN calls
  <2>1. \A k \in DOMAIN calls : calls[k].op \in {"read", "write", "pollRead", "pollWrite", "accept", "connect"}
    <3>1. \A k \in DOMAIN calls : calls[k] \in Operation
      BY <1>4, ElementOfSeq, LenProperties
    <3> QED BY <3>1 DEF Operation
  <2> QED BY <2>1
<1>11. Calls(Answers) = doner \o donew
  BY <1>2, <1>3, CallsConcat DEF Answers
<1> HIDE DEF heldr, heldw, doner, donew, reads, writes
<1>12. /\ heldr \o heldw \o (doner \o donew) \in Seq(Call)
       /\ IsInjective(heldr \o heldw \o (doner \o donew))
       /\ ToSet(heldr \o heldw \o (doner \o donew)) = DOMAIN calls
  <2> DEFINE held == heldr \o heldw
             done == doner \o donew
  <2>1. held \in Seq(Call) /\ IsInjective(held) /\ ToSet(held) = ToSet(heldr) \cup ToSet(heldw)
    <3>1. ToSet(heldr) \cap ToSet(heldw) = {}
      BY <1>8, <1>9, <1>10
    <3> QED BY <1>8, <1>9, <3>1, Joined
  <2>2. done \in Seq(Call) /\ IsInjective(done) /\ ToSet(done) = ToSet(doner) \cup ToSet(donew)
    <3>1. ToSet(doner) \cap ToSet(donew) = {}
      BY <1>8, <1>9, <1>10
    <3> QED BY <1>8, <1>9, <3>1, Joined
  <2>3. ToSet(held) \cap ToSet(done) = {}
    BY <1>8, <1>9, <1>10, <2>1, <2>2
  <2> HIDE DEF held, done
  <2>4. held \o done \in Seq(Call) /\ IsInjective(held \o done) /\ ToSet(held \o done) = ToSet(held) \cup ToSet(done)
    BY <2>1, <2>2, <2>3, Joined
  <2>5. ToSet(held \o done) = DOMAIN calls
    BY <1>8, <1>9, <1>10, <2>1, <2>2, <2>4
  <2> QED BY <2>4, <2>5 DEF held, done
<1>13. LET held(o, cb) == Calls(Buffers(o)) \o o.polls \o Waiting(cb)
           all == held(r, r.acceptCb) \o held(w, w.connectCb) \o Calls(Answers) IN
       IsInjective(all) /\ ToSet(all) = DOMAIN calls
  BY <1>11, <1>12 DEF heldr, heldw
<1>14. {r.ready, w.ready, edge, w.nospace, r.short} \subseteq BOOLEAN
  BY <1>1, <1>2, <1>3 DEF Loop
<1> QED BY <1>1, <1>2, <1>3, <1>5, <1>7, <1>13, <1>14 DEF TypeOK, Loop, Byte

LEMMA InvReads == ChannelInv => ReadsInOrder
<1> SUFFICES ASSUME ChannelInv PROVE ReadsInOrder
  OBVIOUS
<1>1. /\ Taken(r.answers) + r.aborted = r.arrived - r.avail /\ Ended(calls, r)
      /\ InLine(calls, r.answers, Calls(Buffers(r)), "read")
  BY DEF ChannelInv, ReaderInv, Lines
<1>2. InOrder(r.answers, "read")
  BY <1>1 DEF InLine, InOrder, OfOp
<1>3. \A i \in OfOp(r.answers, "read") : r.answers[i].n = 0 => r.end # "open" /\ r.avail = 0
  BY <1>1 DEF Ended, OfOp
<1> QED BY <1>1, <1>2, <1>3 DEF ReadsInOrder

LEMMA InvWrites == ChannelInv => WritesInOrder
<1> SUFFICES ASSUME ChannelInv PROVE WritesInOrder
  OBVIOUS
<1>1. Wire(calls, w) /\ InLine(calls, w.answers, Calls(Buffers(w)), "write")
  BY DEF ChannelInv, WriterInv, Lines
<1>2. InOrder(w.answers, "write")
  BY <1>1 DEF InLine, InOrder, OfOp
<1>3. /\ \A i, j \in DOMAIN w.sent : i < j /\ w.sent[j] # NoCall => w.sent[i] <= w.sent[j]
      /\ \A c \in DOMAIN calls \ {NoCall} : OnWire(w.sent, c) <= calls[c].len
      /\ w.cut = {} => OnWire(w.sent, NoCall) = 0
  BY <1>1 DEF Wire
<1>4. NoCall \notin DOMAIN calls
  <2>1. calls \in Seq(Operation)
    BY DEF ChannelInv, Loop
  <2> QED BY <2>1, LenProperties DEF NoCall
<1>5. ASSUME NEW i \in OfOp(w.answers, "write")
      PROVE  LET a == w.answers[i] IN
             a.n >= 0 /\ a.call \notin w.cut => OnWire(w.sent, a.call) = calls[a.call].len /\ a.n = calls[a.call].len
  <2>1. i \in DOMAIN w.answers /\ calls[w.answers[i].call].op = "write"
    BY DEF OfOp
  <2>2. Written(calls, w, w.answers[i])
    BY <1>1, <2>1 DEF Wire
  <2> QED BY <2>1, <2>2 DEF Written
<1> QED BY <1>2, <1>3, <1>4, <1>5 DEF WritesInOrder

LEMMA InvForgotten == ChannelInv => NothingForgotten
<1> SUFFICES ASSUME ChannelInv PROVE NothingForgotten
  OBVIOUS
<1>1. Phase /\ Noted /\ Dismissed /\ r.answers \in Seq(Answer) /\ w.answers \in Seq(Answer)
  BY ReaderFields, WriterFields DEF ChannelInv, ReaderInv, WriterInv
<1>2. ASSUME ~edge, conn = "up"
      PROVE  /\ r.avail > 0 => r.ready
             /\ r.end # "open" => r.ready \/ r.short
             /\ w.room > 0 => w.ready
             /\ r.bufs # <<>> => r.avail = 0 /\ (r.end = "open" \/ r.short)
             /\ w.bufs # <<>> => w.room = 0 /\ r.end # "reset"
             /\ w.connectCb = NoCall
  <2>1. ReadNoted(r) /\ WriteNoted(r.end, w) /\ w.connectCb = NoCall
    BY <1>1, <1>2 DEF Noted
  <2> QED BY <2>1 DEF ReadNoted, WriteNoted
<1>3. ~edge /\ r.acceptCb # NoCall => r.avail = 0 \/ r.aborted > 0
  BY <1>1 DEF Phase, Noted
<1>4. (~edge => conn # "refused" \/ w.connectCb = NoCall) /\ (r.polls # <<>> => ~r.ready)
  BY <1>1 DEF Noted
<1>5. 1 .. cancelled \subseteq ToSet(Calls(Answers))
  <2> DEFINE a == r.answers
             b == w.answers
             all == a \o b
  <2>1. a \in Seq(Answer) /\ b \in Seq(Answer)
    BY <1>1
  <2>2. 1 .. cancelled \subseteq ToSet(Calls(a)) \cup ToSet(Calls(b))
    BY <1>1 DEF Dismissed
  <2> HIDE DEF a, b
  <2>3. /\ all \in Seq(Answer)
        /\ \A i \in DOMAIN a : i \in DOMAIN all /\ all[i] = a[i]
    BY <2>1, ConcatAnswers, AnswerSeq
  <2>4. ASSUME NEW i \in DOMAIN b PROVE \E j \in DOMAIN all : all[j] = b[i]
    <3>1. /\ Len(a) \in Nat /\ Len(b) \in Nat /\ DOMAIN b = 1 .. Len(b) /\ Len(all) = Len(a) + Len(b)
          /\ DOMAIN all = 1 .. Len(all)
          /\ \A j \in 1 .. Len(a) + Len(b) : all[j] = IF j <= Len(a) THEN a[j] ELSE b[j - Len(a)]
      BY <2>1, ConcatProperties, AnswerSeq, LenProperties
    <3> HIDE DEF all
    <3>2. Len(a) + i \in 1 .. Len(a) + Len(b) /\ ~(Len(a) + i <= Len(a)) /\ (Len(a) + i) - Len(a) = i
      BY <3>1
    <3> QED BY <3>1, <3>2
  <2>5. ASSUME NEW s \in Seq(Answer) PROVE ToSet(Calls(s)) = {s[i].call : i \in DOMAIN s}
    BY AnswerSeq DEF ToSet, Calls
  <2> HIDE DEF all
  <2>6. ToSet(Calls(a)) \cup ToSet(Calls(b)) \subseteq ToSet(Calls(all))
    BY <2>1, <2>3, <2>4, <2>5
  <2> QED BY <2>2, <2>6 DEF all, a, b, Answers
<1> QED BY <1>2, <1>3, <1>4, <1>5 DEF NothingForgotten

LEMMA Invariance == Spec => []ChannelInv
BY InvInit, InvNext, PTL DEF Spec

--------------------------------------------------------------------------------
\* The theorems

\* Type correctness, and: every call is in one place, a buffer that waits, a poll, the one
\* accept or connect, or has its one answer: DoRead, DoWrite, DoPoll, Accept, Connect and
\* DoCancel lose none and answer none twice.
THEOREM CallsHaveOnePlace == Spec => []TypeOK
BY Invariance, InvType, PTL

\* Reads are answered in the order of their calls, over all batches of HandleRead and
\* TryRead; with the accepts they account for every byte and connection that came; and a
\* read that returned 0 found the stream ended and empty.
THEOREM ReadsAreInOrder == Spec => []ReadsInOrder
BY Invariance, InvReads, PTL

\* Writes are answered, and their bytes sent, in the order of their calls and none twice; one
\* that no full send buffer cut, and that reports success, is on the wire with its whole
\* length and reports it; and without a cut write nothing else is sent.
THEOREM WritesAreInOrder == Spec => []WritesInOrder
BY Invariance, InvWrites, PTL

\* With edge-triggered events, and calls that read and write outside of them: when epoll has
\* told of everything the flags readable_ and writeable_ say what is there, nobody waits for
\* it, and whoever called before Cancel has an answer.
THEOREM NothingIsForgotten == Spec => []NothingForgotten
BY Invariance, InvForgotten, PTL

================================================================================
