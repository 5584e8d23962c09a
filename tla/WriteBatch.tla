------------------------------ MODULE WriteBatch -------------------------------
(* How a batch of actions becomes bytes and is read back, WriteBatch.cpp.  The *)
(* two bytes of the checksum are one cell here, and every length is below 128, *)
(* so that its varint is one byte.                                             *)
EXTENDS Naturals, Sequences, SequencesExt

Put(k, v) == [type |-> 0, key |-> k, value |-> v]
Delete(k) == [type |-> 1, key |-> k, value |-> <<>>]

\* A checksum that tells all short sequences of bytes below four apart and, as Crc16 does,
\* does not take a sequence of zeros for zero.
Crc16(bytes) == FoldLeft(LAMBDA sum, byte : 4 * sum + byte, 1, bytes)

StoreAction(a) ==
    <<a.type, Len(a.key)>> \o a.key \o (IF a.type = 0 THEN <<Len(a.value)>> \o a.value ELSE <<>>)

StoreTo(batch) ==
    LET body == <<Len(batch)>> \o FlattenSeq([i \in DOMAIN batch |-> StoreAction(batch[i])]) IN
    <<Crc16(body)>> \o body

\* The bytes [from, from + count) of data, as far as there are any; from counts from 0.
Slice(data, from, count) ==
    SubSeq(data, from + 1, IF from + count < Len(data) THEN from + count ELSE Len(data))

\* One round of the loop of LoadFrom.  The offset is moved past a key, but not past a
\* value: after a value that is not empty the next action is read from inside it.  The
\* inputs are such that nothing is read behind the end of data.
LoadAction(data, st) ==
    LET type == data[st.offset + 1]
        keySize == data[st.offset + 2]
        key == Slice(data, st.offset + 2, keySize)
        afterKey == st.offset + 2 + keySize IN
    IF st.corrupt \/ type > 2 \/ Len(data) < afterKey
    THEN [st EXCEPT !.corrupt = TRUE]
    ELSE IF type = 1
    THEN [st EXCEPT !.offset = afterKey, !.batch = Append(@, Delete(key))]
    ELSE [st EXCEPT !.offset = afterKey + 1,
                    !.batch = Append(@, Put(key, Slice(data, afterKey + 1, data[afterKey + 1])))]

\* What LoadFrom leaves in the batch, and whether it throws.
LoadFrom(data) ==
    LET nothing == [offset |-> 2, batch |-> <<>>, corrupt |-> TRUE] IN
    IF Len(data) < 2 \/ data[1] # Crc16(Tail(data)) THEN nothing
    ELSE FoldLeft(LAMBDA st, i : LoadAction(data, st), [nothing EXCEPT !.corrupt = FALSE],
                  [i \in 1 .. data[2] |-> i])
================================================================================
