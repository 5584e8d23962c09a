------------------------------ MODULE MemoryTable ------------------------------
(* A memory table over its write-ahead log, MemoryTable.hpp and BinaryLogger.  *)
(* Fibers log and apply batches at the same time; a write may fail or be cut   *)
(* short by a full disk; the process may be killed at any point, which leaves  *)
(* any prefix of the records that were being written; and it starts again,     *)
(* reading the log batch by batch and applying what it read, unless it is      *)
(* killed once more.                                                           *)
(* The file is a sequence of cells: a cell for the eight bytes of a record's   *)
(* length, then the cells of its batch.                                        *)
EXTENDS WriteBatch

CONSTANTS
    Writer,       \* fibers that call Action
    Batches,      \* the batches they write
    Cuts(_),      \* bound: where a record of that many cells may be cut
    MaxBatches,   \* bound: batches written
    MaxCrashes,   \* bound: times the process is killed
    MaxMishaps    \* bound: failed writes, short writes and calls of ClearLogs

ASSUME BatchAssumption == \A b \in Batches : b \in Seq(Range(b))
ASSUME CutAssumption ==
    \A b \in Batches : LET n == Len(StoreTo(b)) + 1 IN Cuts(n) \subseteq 0 .. n
ASSUME BoundAssumption == MaxBatches \in Nat /\ MaxCrashes \in Nat /\ MaxMishaps \in Nat

VARIABLES
    file,      \* the cells of the log file
    offset_,   \* where the next record goes
    map,       \* key -> item, a tombstone where it was deleted
    life,      \* "up", "killed", or "restoring" its table
    writer,    \* each fiber: what it writes, where, and how far it is
    erase,     \* directlyErase_
    reading,   \* GetWriteBatchs and Restore: how far they are, and what they have read
    records,   \* history: the batches in the log, by offset, and what came of them
    damage,    \* history: where the file was cut under a log that goes on
    raced,     \* history: keys that were in two batches being written at once
    count, crashes, mishaps

vars == <<file, offset_, map, life, writer, erase, reading, records, damage, raced,
          count, crashes, mishaps>>
bounds == <<count, crashes, mishaps>>
history == <<records, damage, raced>>

up == life = "up"

Idle == [pc |-> "idle", batch |-> <<>>, at |-> 0]
KeysOf(batch) == {batch[i].key : i \in DOMAIN batch}
Busy == {w \in Writer : writer[w].pc # "idle"}
Record(batch) == LET body == StoreTo(batch) IN <<Len(body)>> \o body

\* The batches read, each with its place in the log; how many of them have been applied;
\* the buffer; and, for the history, where the records end that were there as a whole.
NothingRead == [offset |-> 0, buf |-> <<>>, batchs |-> <<>>, applied |-> 0, whole |-> 0]

TypeOK ==
    /\ file \in Seq(Nat) /\ offset_ \in Nat
    /\ \A k \in DOMAIN map : map[k].dead \in BOOLEAN
    /\ life \in {"up", "killed", "restoring"} /\ erase \in BOOLEAN
    /\ \A w \in Writer : writer[w].pc \in {"idle", "writing", "logged"} /\ writer[w].at \in Nat
    /\ reading.applied <= Len(reading.batchs)
    /\ \A r \in records : r.batch \in Batches /\ r.at \in Nat
    /\ damage \subseteq Nat
    \* no two records share a place, and the next one goes behind them all
    /\ \A r \in records :
        /\ up => r.at + Len(Record(r.batch)) <= offset_
        /\ \A q \in records : r.at < q.at => r.at + Len(Record(r.batch)) <= q.at

--------------------------------------------------------------------------------
\* The map

InternalPut(m, k, v) ==
    [x \in DOMAIN m \cup {k} |-> IF x = k THEN [dead |-> FALSE, value |-> v] ELSE m[x]]

InternalDelete(m, k) ==
    IF erase THEN [x \in DOMAIN m \ {k} |-> m[x]]
    ELSE [x \in DOMAIN m \cup {k} |-> IF x = k THEN [dead |-> TRUE, value |-> <<>>] ELSE m[x]]

Perform(m, a) == IF a.type = 0 THEN InternalPut(m, a.key, a.value) ELSE InternalDelete(m, a.key)

InternalAction(m, batch) ==
    LET after[i \in 0 .. Len(batch)] ==
            IF i = 0 THEN m ELSE Perform(after[i - 1], batch[i])
    IN  after[Len(batch)]

EmptyMap == [k \in {} |-> Idle]

--------------------------------------------------------------------------------
\* The file

\* ftruncate: cuts the file, or lengthens it with zeros.
Resize(f, n) == [i \in 1 .. n |-> IF i <= Len(f) THEN f[i] ELSE 0]

\* pwrite: a gap below the offset is filled with zeros, if there is something to write.
PWrite(f, at, cells) ==
    [i \in 1 .. (IF cells # <<>> /\ at + Len(cells) > Len(f) THEN at + Len(cells) ELSE Len(f)) |->
        IF at < i /\ i <= at + Len(cells) THEN cells[i - at]
        ELSE IF i <= Len(f) THEN f[i] ELSE 0]

--------------------------------------------------------------------------------
\* The table

Init ==
    /\ file = <<>> /\ offset_ = 0 /\ map = EmptyMap /\ life = "up"
    /\ writer = [w \in Writer |-> Idle]
    /\ erase \in BOOLEAN
    /\ reading = NothingRead
    /\ records = {} /\ damage = {} /\ raced = {}
    /\ count = 0 /\ crashes = 0 /\ mishaps = 0

\* Mutant: the record goes to the end of the file.
LogAtEnd(w, batch) ==
    /\ up /\ writer[w].pc = "idle" /\ count < MaxBatches
    /\ UNCHANGED offset_
    /\ writer' = [writer EXCEPT ![w] = [pc |-> "writing", batch |-> batch, at |-> Len(file)]]
    /\ records' = records \cup {[at |-> Len(file), batch |-> batch, written |-> FALSE, acked |-> FALSE]}
    /\ raced' = raced \cup (KeysOf(batch) \cap UNION {KeysOf(writer[x].batch) : x \in Busy})
    /\ count' = count + 1
    /\ UNCHANGED <<file, map, life, erase, reading, damage, crashes, mishaps>>

\* Action, up to the call of WriteAsync: the place in the log is taken.
Log(w, batch) ==
    /\ up /\ writer[w].pc = "idle" /\ count < MaxBatches
    /\ offset_' = offset_ + Len(Record(batch))
    /\ writer' = [writer EXCEPT ![w] = [pc |-> "writing", batch |-> batch, at |-> offset_]]
    /\ records' = records \cup {[at |-> offset_, batch |-> batch, written |-> FALSE, acked |-> FALSE]}
    /\ raced' = raced \cup (KeysOf(batch) \cap UNION {KeysOf(writer[x].batch) : x \in Busy})
    /\ count' = count + 1
    /\ UNCHANGED <<file, map, life, erase, reading, damage, crashes, mishaps>>

Marked(r, written, acked) == [at |-> r.at, batch |-> r.batch, written |-> written, acked |-> acked]
Own(w) == Marked(writer[w], FALSE, FALSE)
Written(w) == Marked(writer[w], TRUE, FALSE)

WriteDone(w) ==
    /\ up /\ writer[w].pc = "writing"
    /\ file' = PWrite(file, writer[w].at, Record(writer[w].batch))
    /\ writer' = [writer EXCEPT ![w].pc = "logged"]
    /\ records' = (records \ {Own(w)}) \cup {Written(w)}
    /\ UNCHANGED <<offset_, map, life, erase, reading, damage, raced, bounds>>

\* The disk is full: fewer bytes are written, which Log does not look at.
WriteShort(w, n) ==
    /\ up /\ writer[w].pc = "writing" /\ mishaps < MaxMishaps
    /\ file' = PWrite(file, writer[w].at, SubSeq(Record(writer[w].batch), 1, n))
    /\ writer' = [writer EXCEPT ![w].pc = "logged"]
    /\ records' = (records \ {Own(w)}) \cup {Written(w)}
    /\ damage' = damage \cup {writer[w].at}
    /\ mishaps' = mishaps + 1
    /\ UNCHANGED <<offset_, map, life, erase, reading, raced, count, crashes>>

\* Mutant: the file is cut to nothing.
EmptyFile(w) == <<>>

Truncated(w) == Resize(file, writer[w].at)

\* The log is cut at the record that failed, whatever others have written behind it, and
\* the offset of the next record stays where it was.
WriteFails(w) ==
    /\ up /\ writer[w].pc = "writing" /\ mishaps < MaxMishaps
    /\ file' = Truncated(w)
    /\ writer' = [writer EXCEPT ![w] = Idle]
    /\ records' = records \ {Own(w)}
    /\ damage' = damage \cup {writer[w].at}
    /\ mishaps' = mishaps + 1
    /\ UNCHANGED <<offset_, map, life, erase, reading, raced, count, crashes>>

\* Mutant: only the first action of the batch is applied.
ApplyFirst(w) ==
    /\ up /\ writer[w].pc = "logged"
    /\ map' = InternalAction(map, SubSeq(writer[w].batch, 1, 1))
    /\ writer' = [writer EXCEPT ![w] = Idle]
    /\ records' = (records \ {Written(w)}) \cup {Marked(writer[w], TRUE, TRUE)}
    /\ UNCHANGED <<file, offset_, life, erase, reading, damage, raced, bounds>>

\* Action, under the write lock, and its return.
Apply(w) ==
    /\ up /\ writer[w].pc = "logged"
    /\ map' = InternalAction(map, writer[w].batch)
    /\ writer' = [writer EXCEPT ![w] = Idle]
    /\ records' = (records \ {Written(w)}) \cup {Marked(writer[w], TRUE, TRUE)}
    /\ UNCHANGED <<file, offset_, life, erase, reading, damage, raced, bounds>>

\* The file is cut to nothing; the offset of the next record stays where it was.
ClearLogs ==
    /\ up /\ mishaps < MaxMishaps
    /\ file' = <<>>
    /\ damage' = damage \cup {0}
    /\ mishaps' = mishaps + 1
    /\ UNCHANGED <<offset_, map, life, writer, erase, reading, records, raced, count, crashes>>

--------------------------------------------------------------------------------
\* The process is killed.  What it had handed to the kernel is still under way.
Crash ==
    /\ life # "killed" /\ crashes < MaxCrashes
    /\ life' = "killed"
    /\ map' = EmptyMap /\ reading' = NothingRead
    /\ writer' = [w \in Writer |-> IF writer[w].pc = "writing" THEN writer[w] ELSE Idle]
    /\ crashes' = crashes + 1
    /\ UNCHANGED <<file, offset_, erase, history, count, mishaps>>

\* Some prefix of a record that was being written gets into the file.
Tear(w, n) ==
    /\ life = "killed" /\ writer[w].pc = "writing"
    /\ file' = PWrite(file, writer[w].at, SubSeq(Record(writer[w].batch), 1, n))
    /\ writer' = [writer EXCEPT ![w] = Idle]
    /\ UNCHANGED <<offset_, map, life, erase, reading, history, bounds>>

\* The process starts, and the log with it.
Restart ==
    /\ life = "killed" /\ Busy = {}
    /\ life' = "restoring"
    /\ offset_' = Len(file)
    /\ UNCHANGED <<file, map, writer, erase, reading, history, bounds>>

--------------------------------------------------------------------------------
\* The table is restored.

\* The buffer behind a read of the log at an offset.  It is resized, not cleared: where
\* the file ends early it still holds the bytes of the batch before.
SizeAt(offset) == IF offset < Len(file) THEN file[offset + 1] ELSE 0
DataAt(offset) == Slice(file, offset + 1, SizeAt(offset))
BufferAt(offset, buf) ==
    LET size == SizeAt(offset)
        data == DataAt(offset)
    IN  data \o Slice(Resize(buf, size), Len(data), size - Len(data))

\* A batch is read.
Loaded(buf, batch) ==
    LET next == reading.offset + SizeAt(reading.offset) + 1 IN
    /\ reading' = [reading EXCEPT
           !.offset = next, !.buf = buf,
           !.batchs = Append(@, [at |-> reading.offset, batch |-> batch]),
           !.whole = IF Len(DataAt(reading.offset)) = SizeAt(reading.offset) THEN next ELSE @]
    /\ UNCHANGED <<file, offset_>>

\* Mutant: the file is not cut at a batch that cannot be loaded.
SkipCorrupt(buf, batch) ==
    LET next == reading.offset + SizeAt(reading.offset) + 1
        end == IF next < offset_ THEN next ELSE offset_ IN
    /\ reading' = [reading EXCEPT
           !.offset = end, !.buf = buf,
           !.batchs = Append(@, [at |-> reading.offset, batch |-> batch])]
    /\ UNCHANGED <<file, offset_>>

\* A batch that cannot be loaded cuts the file, and what was loaded of it is kept.
CutAtCorrupt(buf, batch) ==
    /\ file' = Resize(file, reading.offset)
    /\ offset_' = reading.offset
    /\ reading' = [reading EXCEPT
           !.buf = buf, !.batchs = Append(@, [at |-> reading.offset, batch |-> batch])]

\* One round of GetWriteBatchs.
ReadOne ==
    LET buf == BufferAt(reading.offset, reading.buf)
        loaded == LoadFrom(buf) IN
    /\ life = "restoring" /\ reading.offset # offset_
    /\ IF loaded.corrupt THEN CutAtCorrupt(buf, loaded.batch) ELSE Loaded(buf, loaded.batch)
    /\ UNCHANGED <<map, life, writer, erase, history, bounds>>

\* One round of the loop of Restore, when GetWriteBatchs has returned.
ReplayOne ==
    /\ life = "restoring" /\ reading.offset = offset_ /\ reading.applied < Len(reading.batchs)
    /\ reading' = [reading EXCEPT !.applied = @ + 1]
    /\ map' = InternalAction(map, reading.batchs[reading.applied + 1].batch)
    /\ UNCHANGED <<file, offset_, life, writer, erase, history, bounds>>

\* The entries of the log: batches with their places.
Entries(recs) == {[at |-> r.at, batch |-> r.batch] : r \in recs}

\* A record was read back if it was read as it was written, and so was every one before it.
WasRead(r) == \E i \in DOMAIN reading.batchs : Entries({r}) = {reading.batchs[i]}
ReadBack == {r \in records : \A q \in records : q.at <= r.at => WasRead(q)}

\* Restore returns.
Restore ==
    /\ life = "restoring" /\ reading.offset = offset_ /\ reading.applied = Len(reading.batchs)
    /\ life' = "up"
    /\ reading' = NothingRead
    /\ records' = {Marked(r, TRUE, TRUE) : r \in ReadBack}
    /\ damage' = IF reading.offset = reading.whole THEN {} ELSE {reading.whole}
    /\ raced' = {}
    /\ UNCHANGED <<file, offset_, map, writer, erase, bounds>>

Next ==
    \/ \E w \in Writer :
        \/ \E batch \in Batches : Log(w, batch)
        \/ WriteDone(w) \/ WriteFails(w) \/ Apply(w)
        \/ \E n \in Cuts(Len(Record(writer[w].batch))) : WriteShort(w, n) \/ Tear(w, n)
        \/ Tear(w, Len(Record(writer[w].batch)))
    \/ ClearLogs \/ Crash \/ Restart \/ ReadOne \/ ReplayOne \/ Restore

Spec == Init /\ [][Next]_vars

--------------------------------------------------------------------------------
\* What a log holds, key by key: what the last action on the key left.

LastOn(batch, k) ==
    LET last == {i \in DOMAIN batch :
                    batch[i].key = k /\ \A j \in i + 1 .. Len(batch) : batch[j].key # k}
    IN  batch[CHOOSE i \in last : TRUE]
With(log, k) == {e \in log : k \in KeysOf(e.batch)}
Newest(log, k) == CHOOSE e \in With(log, k) : \A d \in With(log, k) : d.at <= e.at
LastSaid(log, k) == LastOn(Newest(log, k).batch, k)

ItemOf(a) == [dead |-> a.type # 0, value |-> IF a.type = 0 THEN a.value ELSE <<>>]
Kept(a) == a.type = 0 \/ ~erase

TableOf(log) ==
    [k \in {x \in UNION {KeysOf(e.batch) : e \in log} : Kept(LastSaid(log, x))} |->
        ItemOf(LastSaid(log, k))]

Replay(recs) == TableOf(Entries(recs))

\* A restart brings back the batches up to some point of the log and none behind it, each
\* of them whole: not a part of one, nor one twice, nor one that was overwritten.
RestoredIsPrefix ==
    [][~up /\ up' => map' = Replay(records')]_vars

\* An acknowledged batch is there after a restart unless the log had been cut below it or
\* an earlier record was still being written; this also for later restarts.
AckedSurvives ==
    [][\A r \in records :
        /\ ~up /\ up' /\ r.acked
        /\ \A d \in damage : r.at < d
        /\ \A e \in records : e.at < r.at => e.written
        => r \in records']_vars

\* When no batch is under way the table is what the log says, key by key, except for keys
\* that two fibers wrote at once: those may have been applied in the other order.
TableIsLog ==
    up /\ Busy = {} =>
        LET said == Replay(records) IN
        \A k \in (DOMAIN map \cup DOMAIN said) \ raced :
            k \in DOMAIN map \cap DOMAIN said /\ map[k] = said[k]

--------------------------------------------------------------------------------
\* What the proofs ask of the batches and their encoding.

\* Every batch is read back from its bytes, which are not all zeros.
LoadsBack ==
    \A b \in Batches :
        LET body == StoreTo(b) IN
        /\ b # <<>> /\ body \in Seq(Nat)
        /\ \E i \in DOMAIN body : body[i] # 0
        /\ ~LoadFrom(body).corrupt /\ LoadFrom(body).batch = b

\* A body of which the first n bytes were written, followed by zeros up to the end of the
\* file behind k bytes and by what the buffer held: it does not pass for a batch, unless it
\* is complete after all or the file holds nothing of it and the buffer a whole batch.
Torn(body, n, k, old) ==
    [i \in DOMAIN body |-> IF i <= n THEN body[i] ELSE IF i <= k \/ i > Len(old) THEN 0 ELSE old[i]]

TornIsNoticed ==
    \A b \in Batches : \A old \in {<<>>} \cup {StoreTo(c) : c \in Batches} :
        \A k \in 0 .. Len(StoreTo(b)) : \A n \in 0 .. k :
            LET buf == Torn(StoreTo(b), n, k, old) IN
            \/ buf = StoreTo(b)
            \/ k = 0 /\ buf = old
            \/ LoadFrom(buf).corrupt /\ LoadFrom(buf).batch = <<>>
================================================================================
