------------------------- MODULE PosixNetStreamChannel -------------------------
(* A TCP channel on Linux: reads, writes, polls, accept, connect and cancel,    *)
(* PosixNetStreamChannel.cpp with PosixIoReader.cpp and PosixIoWriter.cpp, over  *)
(* a socket watched by an edge-triggered epoll.  Everything but the kernel and   *)
(* the peer runs in the channel's event loop: a call of another thread happens   *)
(* when its task runs there.  Bytes are counted, and the answer of a call is the *)
(* argument of its callback.  A lengthy operation is one on `r` or on `w`, the   *)
(* reading and the writing half, and yields the possible halves afterwards.      *)
EXTENDS Integers, SequencesExt

CONSTANTS
    MaxCalls,   \* bound: calls
    MaxLength,  \* bound: bytes of a read or a write
    MaxIn,      \* bound: bytes the peer sends, or connections that arrive
    Space,      \* the size of the socket's send buffer
    MaxDrains   \* bound: times the peer reads

ASSUME ChannelAssumption ==
    {MaxCalls, MaxIn, MaxDrains} \subseteq Nat /\ {MaxLength, Space} \subseteq Nat \ {0}

VARIABLES
    status,    \* status_
    r,         \* readable_, the reader's buffers from its mark on and the pending ones,
               \* pollReadCbs_, acceptCb_; the bytes or connections that are there and all
               \* that came, how the stream ended; the answers given; history: whether the
               \* last read found less than it asked for, the connections aborted
    w,         \* writeable_, the writer's buffers, pollWriteCbs_, connectCb_; the room in
               \* the send buffer and whether the kernel has seen it too small; the
               \* answers given, and of each byte sent the call it belongs to; history: the
               \* calls whose buffer was sent in part
    conn,      \* the socket's connection
    edge,      \* epoll has the socket on its list of ready ones
    calls,     \* history: the operations called
    cancelled, \* history: how many of them came before the last Cancel
    drains

vars == <<status, r, w, conn, edge, calls, cancelled, drains>>

NoCall == 0
Call == 1 .. MaxCalls

\* What readv, writev and accept4 return when they fail or would block.
Failed == -1
Again == -2

Operation == [op : {"read", "write", "pollRead", "pollWrite", "accept", "connect"}, len : 0 .. MaxLength]
Buffer == [call : Call, len : 1 .. MaxLength]
Answer == [call : Call, n : Failed .. MaxLength]

Buffers(o) == o.bufs \o o.pend
Answers == r.answers \o w.answers

\* The sum of the numbers of a sequence that are not negative.
Total(ns) == Cardinality(UNION {{i} \X (1 .. ns[i]) : i \in DOMAIN ns})
Bytes(bufs) == Total([i \in DOMAIN bufs |-> bufs[i].len])
Least(a, b) == IF a < b THEN a ELSE b

Waiting(cb) == IF cb = NoCall THEN <<>> ELSE <<cb>>
Calls(s) == [i \in DOMAIN s |-> s[i].call]

\* Types, and: a call is held in one place, or was answered, once.
TypeOK ==
    /\ status \in {"Io", "Accept", "Connect"} /\ conn \in {"none", "syn", "up", "refused", "listening"}
    /\ {r.ready, w.ready, edge, w.nospace, r.short} \subseteq BOOLEAN
    /\ ToSet(Buffers(r) \o Buffers(w)) \subseteq Buffer
    /\ ToSet(Answers) \subseteq Answer /\ ToSet(calls) \subseteq Operation
    /\ r.avail \in 0 .. r.arrived /\ r.arrived \in 0 .. MaxIn /\ r.end \in {"open", "closed", "reset"}
    /\ w.room \in 0 .. Space /\ ToSet(w.sent) \subseteq Call \cup {NoCall} /\ drains \in 0 .. MaxDrains
    /\ cancelled \in 0 .. Len(calls) /\ r.aborted \in 0 .. MaxIn /\ w.cut \subseteq Call
    /\ LET held(o, cb) == Calls(Buffers(o)) \o o.polls \o Waiting(cb)
           all == held(r, r.acceptCb) \o held(w, w.connectCb) \o Calls(Answers) IN
       IsInjective(all) /\ ToSet(all) = DOMAIN calls

--------------------------------------------------------------------------------
\* IPosixIoOperator

Answered(bufs, n) == [i \in DOMAIN bufs |-> [call |-> bufs[i].call, n |-> n]]
InFull(bufs) == [i \in DOMAIN bufs |-> [call |-> bufs[i].call, n |-> bufs[i].len]]
Polled(polls, n) == [i \in DOMAIN polls |-> [call |-> polls[i], n |-> n]]

\* Mutant: the pending buffers are copied where they are swapped.
FillCopied(o) == IF o.bufs = <<>> THEN [o EXCEPT !.bufs = o.pend] ELSE o

\* The pending buffers are taken over when the earlier ones are done.
FillBufferAndCallback(o) == IF o.bufs = <<>> THEN [o EXCEPT !.bufs = o.pend, !.pend = <<>>] ELSE o

\* Mutant: a buffer that is just filled is passed over.
BeyondLastBuffer(bufs, n) ==
    CHOOSE k \in DOMAIN bufs :
        \/ k = Len(bufs)
        \/ Bytes(SubSeq(bufs, 1, k - 1)) <= n /\ n < Bytes(SubSeq(bufs, 1, k))

\* The buffer in which the n bytes end.
ConvertByteToBufferNumber(bufs, n) ==
    CHOOSE k \in DOMAIN bufs : Bytes(SubSeq(bufs, 1, k - 1)) < n /\ n <= Bytes(SubSeq(bufs, 1, k))

AddPendingTask(o, c, len) == [o EXCEPT !.pend = Append(@, [call |-> c, len |-> len])]

\* All are answered with what the system call returned: an error or the end.
FailAll(o, n) == [o EXCEPT !.bufs = <<>>, !.answers = @ \o Answered(o.bufs, n)]

\* Mutant: what came while a batch was under way is left alone.
CancelBatch(o) == FailAll(FillBufferAndCallback(o), Failed)

CancelAllIo(o) == [FailAll(o, Failed) EXCEPT !.pend = <<>>, !.answers = @ \o Answered(o.pend, Failed)]

DoPoll(o) == [o EXCEPT !.polls = <<>>, !.answers = @ \o Polled(o.polls, 0)]

--------------------------------------------------------------------------------
\* Reading

\* readv: what is there goes to the buffers one after the other.
Readv(o) ==
    IF o.avail > 0 THEN {Least(o.avail, Bytes(o.bufs))}
    ELSE CASE o.end = "open" -> {Again}
           [] o.end = "closed" -> {0}
           [] o.end = "reset" -> {Failed, 0}

\* n bytes were read; the buffer they end in is answered though it has room left.
Scattered(o, n) ==
    LET k == ConvertByteToBufferNumber(o.bufs, n)
        size == n - Bytes(SubSeq(o.bufs, 1, k - 1))
        rest == SubSeq(o.bufs, k + 1, Len(o.bufs)) IN
    [o EXCEPT !.short = size < o.bufs[k].len \/ rest # <<>>,
              !.ready = size = o.bufs[k].len /\ rest = <<>>, !.bufs = rest, !.avail = @ - n,
              !.answers = @ \o InFull(SubSeq(o.bufs, 1, k - 1)) \o <<[call |-> o.bufs[k].call, n |-> size]>>]

\* The reader's DoExecute, with buffers to fill.
ReadInto(o) ==
    {IF n = Again THEN [o EXCEPT !.ready = FALSE]
     ELSE IF n <= 0 THEN FailAll([o EXCEPT !.ready = TRUE], n)
     ELSE Scattered(o, n) : n \in Readv(o)}

\* Mutant: the flag is raised only by a read that did not block.
DoReadOrForget(o) ==
    LET f == FillBufferAndCallback(o) IN IF f.bufs = <<>> THEN {[f EXCEPT !.ready = FALSE]} ELSE ReadInto(f)

DoRead(o) ==
    LET f == FillBufferAndCallback(o) IN IF f.bufs = <<>> THEN {[f EXCEPT !.ready = TRUE]} ELSE ReadInto(f)

\* accept4, and what DoAccept makes of it: a connection, an error, or one of the errors
\* taken for "none there", which may be about a connection that was aborted.
AnswerAccept(o, n) ==
    [o EXCEPT !.acceptCb = NoCall, !.answers = Append(@, [call |-> o.acceptCb, n |-> n]),
              !.avail = IF n = 1 THEN @ - 1 ELSE @]
Aborted(o) == [o EXCEPT !.ready = FALSE, !.avail = @ - 1, !.aborted = @ + 1]
DoAccept(o) ==
    {AnswerAccept(o, Failed)}
    \cup (IF o.avail > 0 THEN {AnswerAccept(o, 1), Aborted(o)}
          ELSE {[o EXCEPT !.ready = FALSE]})

HandleAccept(o) ==
    LET up == [o EXCEPT !.ready = TRUE] IN IF o.acceptCb = NoCall THEN {up} ELSE DoAccept(up)

HandleRead(o) == IF status = "Accept" THEN HandleAccept(o) ELSE DoRead(DoPoll(o))

--------------------------------------------------------------------------------
\* Writing

\* A buffer of which a part was sent has its length put right, but its address made from
\* the length: what is written from it next is not of this call or of any, if there is
\* anything at that address.
Cut(o) == o.bufs # <<>> /\ o.bufs[1].call \in o.cut

Writev(o) ==
    IF r.end = "reset" THEN {Failed}
    ELSE IF o.room = 0 THEN {Again}
    ELSE {Least(o.room, Bytes(o.bufs))} \cup (IF Cut(o) THEN {Failed} ELSE {})

\* The calls whose buffers the first n bytes are counted to, and the calls the bytes are of.
Gathered(bufs, n) ==
    [i \in 1 .. n |->
        bufs[CHOOSE k \in DOMAIN bufs : Bytes(SubSeq(bufs, 1, k - 1)) < i /\ i <= Bytes(SubSeq(bufs, 1, k))].call]

BytesOf(o, n) ==
    [i \in 1 .. n |-> LET c == Gathered(o.bufs, n)[i] IN IF c \in o.cut THEN NoCall ELSE c]

\* Mutant: as when reading, the buffer the bytes end in is done.
SentAsRead(o, n) ==
    LET k == ConvertByteToBufferNumber(o.bufs, n)
        size == n - Bytes(SubSeq(o.bufs, 1, k - 1))
        rest == SubSeq(o.bufs, k + 1, Len(o.bufs)) IN
    [o EXCEPT !.ready = rest = <<>>, !.bufs = rest, !.room = @ - n, !.nospace = rest # <<>>,
              !.sent = @ \o BytesOf(o, n),
              !.answers = @ \o InFull(SubSeq(o.bufs, 1, k - 1)) \o <<[call |-> o.bufs[k].call, n |-> size]>>]

\* n bytes were sent: the calls of whole buffers are answered.
Sent(o, n) ==
    LET k == ConvertByteToBufferNumber(o.bufs, n)
        size == n - Bytes(SubSeq(o.bufs, 1, k - 1))
        part == size < o.bufs[k].len
        done == IF part THEN k - 1 ELSE k
        left == SubSeq(o.bufs, done + 1, Len(o.bufs))
        rest == IF part THEN [left EXCEPT ![1].len = @ - size] ELSE left IN
    [o EXCEPT !.ready = rest = <<>>, !.bufs = rest, !.room = @ - n, !.nospace = rest # <<>>,
              !.sent = @ \o BytesOf(o, n), !.answers = @ \o InFull(SubSeq(o.bufs, 1, done)),
              !.cut = IF part THEN @ \cup {o.bufs[k].call} ELSE @]

DoWrite(o) ==
    LET f == FillBufferAndCallback(o) IN
    IF f.bufs = <<>> THEN {[f EXCEPT !.ready = TRUE]}
    ELSE {IF n = Again THEN [f EXCEPT !.ready = FALSE, !.nospace = TRUE]
          ELSE IF n = Failed THEN FailAll([f EXCEPT !.ready = TRUE], n)
          ELSE Sent(f, n) : n \in Writev(f)}

\* The outcome of the connection is asked of the socket; after a failure nothing is done
\* for the writes.
ConnectError == conn = "refused"
HandleConnect(o) ==
    IF o.connectCb = NoCall THEN o
    ELSE [o EXCEPT !.connectCb = NoCall,
                   !.answers = Append(@, [call |-> o.connectCb, n |-> IF ConnectError THEN Failed ELSE 0])]

HandleWrite(o) ==
    IF status # "Connect" THEN DoWrite(DoPoll(o))
    ELSE IF ConnectError THEN {HandleConnect(o)}
    ELSE DoWrite(DoPoll(HandleConnect(o)))

--------------------------------------------------------------------------------
\* The event loop

\* What epoll_wait reports of the socket: for one that is not connected also that it is
\* hung up, which the selector takes for readable.
Readable == conn \in {"none", "refused"} \/ r.avail > 0 \/ r.end # "open"
Writeable == conn \in {"none", "refused"} \/ (conn = "up" /\ (w.room > 0 \/ r.end = "reset"))

\* Asked for an event, the kernel notes that the room was too small.
Asked(o) == [o EXCEPT !.nospace = @ \/ (conn = "up" /\ o.room = 0)]

OnEvent ==
    /\ edge /\ edge' = FALSE
    /\ r' \in (IF Readable THEN HandleRead(r) ELSE {r})
    /\ w' \in (IF Writeable THEN HandleWrite(w) ELSE {Asked(w)})
    /\ status' = IF Writeable /\ status = "Connect" THEN "Io" ELSE status
    /\ UNCHANGED <<conn, calls, cancelled, drains>>

Calling(op, len) ==
    /\ Len(calls) < MaxCalls
    /\ calls' = Append(calls, [op |-> op, len |-> len])
    /\ UNCHANGED <<edge, cancelled, drains>>
NewCall == Len(calls) + 1

\* Reads and writes are for a channel that was accepted or has connected.
Connected == conn = "up" /\ status = "Io"

TryRead(len) ==
    LET o == AddPendingTask(r, NewCall, len) IN
    /\ Connected /\ Calling("read", len)
    /\ r' \in (IF r.ready THEN DoRead(o) ELSE {o})
    /\ UNCHANGED <<status, w, conn>>

TryWrite(len) ==
    LET o == AddPendingTask(w, NewCall, len) IN
    /\ Connected /\ Calling("write", len)
    /\ w' \in (IF w.ready THEN DoWrite(o) ELSE {o})
    /\ UNCHANGED <<status, r, conn>>

TryPollRead ==
    LET o == [r EXCEPT !.polls = Append(@, NewCall)] IN
    /\ Connected /\ Calling("pollRead", 0)
    /\ r' = IF r.ready THEN DoPoll(o) ELSE o
    /\ UNCHANGED <<status, w, conn>>

TryPollWrite ==
    LET o == [w EXCEPT !.polls = Append(@, NewCall)] IN
    /\ Connected /\ Calling("pollWrite", 0)
    /\ w' = IF w.ready THEN DoPoll(o) ELSE o
    /\ UNCHANGED <<status, r, conn>>

\* One accept at a time: acceptCb_ holds one.
TryAccept ==
    LET o == [r EXCEPT !.acceptCb = NewCall] IN
    /\ conn = "listening" /\ r.acceptCb = NoCall /\ Calling("accept", 0)
    /\ r' \in (IF r.ready THEN DoAccept(o) ELSE {o})
    /\ UNCHANGED <<status, w, conn>>

\* connect is under way, or fails at once; over TCP a non-blocking one never succeeds at once.
TryConnect ==
    /\ conn \in {"none", "refused"} /\ status # "Accept" /\ w.connectCb = NoCall /\ Calling("connect", 0)
    /\ \/ /\ status' = "Connect" /\ conn' = "syn"
          /\ w' = [w EXCEPT !.connectCb = NewCall]
       \/ /\ status' = "Io" /\ conn' = "none"
          /\ w' = [w EXCEPT !.answers = Append(@, [call |-> NewCall, n |-> Failed])]
    /\ UNCHANGED r

Listen ==
    /\ conn = "none" /\ status = "Io" /\ conn' = "listening" /\ status' = "Accept"
    /\ UNCHANGED <<r, w, edge, calls, cancelled, drains>>

\* DoCancel
Dropped(cb) == IF cb = NoCall THEN <<>> ELSE <<[call |-> cb, n |-> Failed]>>
Cancel ==
    /\ cancelled < Len(calls) /\ cancelled' = Len(calls)
    /\ r' = [CancelAllIo(r) EXCEPT !.polls = <<>>, !.acceptCb = NoCall,
                                   !.answers = @ \o Polled(r.polls, Failed) \o Dropped(r.acceptCb)]
    /\ w' = [CancelAllIo(w) EXCEPT !.polls = <<>>, !.connectCb = NoCall,
                                   !.answers = @ \o Polled(w.polls, Failed) \o Dropped(w.connectCb)]
    /\ UNCHANGED <<status, conn, edge, calls, drains>>

--------------------------------------------------------------------------------
\* The network

\* A byte, or a connection in the queue of a listening socket.
Arrive ==
    /\ conn \in {"up", "listening"} /\ r.end = "open" /\ r.arrived < MaxIn
    /\ r' = [r EXCEPT !.avail = @ + 1, !.arrived = @ + 1] /\ edge' = TRUE
    /\ UNCHANGED <<status, w, conn, calls, cancelled, drains>>

\* A reset before the loop has heard of the connection looks like a refusal.
PeerEnds(how) ==
    /\ conn = "up" /\ r.end = "open" /\ (how = "reset" => status = "Io")
    /\ r' = [r EXCEPT !.end = how] /\ edge' = TRUE
    /\ UNCHANGED <<status, w, conn, calls, cancelled, drains>>

Connects(outcome) ==
    /\ conn = "syn" /\ conn' = outcome /\ edge' = TRUE
    /\ UNCHANGED <<status, r, w, calls, cancelled, drains>>

\* The peer reads; a writer that met a full send buffer hears of it.
Drain ==
    /\ conn = "up" /\ w.room < Space /\ drains < MaxDrains /\ drains' = drains + 1
    /\ w' = [w EXCEPT !.room = Space, !.nospace = FALSE] /\ edge' = (edge \/ w.nospace)
    /\ UNCHANGED <<status, r, conn, calls, cancelled>>

--------------------------------------------------------------------------------
\* A socket of its own, not yet connected, or one that was accepted; just registered.
Init ==
    /\ status = "Io" /\ conn \in {"none", "up"} /\ edge = TRUE /\ calls = <<>>
    /\ r = [ready |-> FALSE, bufs |-> <<>>, pend |-> <<>>, polls |-> <<>>, acceptCb |-> NoCall,
            avail |-> 0, arrived |-> 0, end |-> "open", answers |-> <<>>, short |-> FALSE, aborted |-> 0]
    /\ w = [ready |-> FALSE, bufs |-> <<>>, pend |-> <<>>, polls |-> <<>>, connectCb |-> NoCall,
            room |-> Space, nospace |-> FALSE, answers |-> <<>>, sent |-> <<>>, cut |-> {}]
    /\ cancelled = 0 /\ drains = 0

Next ==
    \/ OnEvent
    \/ \E len \in 1 .. MaxLength : TryRead(len) \/ TryWrite(len)
    \/ TryPollRead \/ TryPollWrite \/ TryAccept \/ TryConnect \/ Listen \/ Cancel
    \/ Arrive \/ Drain
    \/ \E how \in {"closed", "reset"} : PeerEnds(how)
    \/ \E outcome \in {"up", "refused"} : Connects(outcome)

Spec == Init /\ [][Next]_vars

--------------------------------------------------------------------------------
\* Properties

OfOp(answers, op) == {i \in DOMAIN answers : calls[answers[i].call].op = op}
InOrder(answers, op) == \A i, j \in OfOp(answers, op) : i < j => answers[i].call < answers[j].call
Taken(answers) == Total([i \in DOMAIN answers |-> answers[i].n])

\* Reads are answered in the order of their calls, whatever batch they fell into; they
\* and the accepts account for every byte and connection that came and is not there any
\* more; and a read is told that the stream has ended only after all of it was read.
ReadsInOrder ==
    /\ InOrder(r.answers, "read")
    /\ Taken(r.answers) + r.aborted = r.arrived - r.avail
    /\ \A i \in OfOp(r.answers, "read") : r.answers[i].n = 0 => r.end # "open" /\ r.avail = 0

OnWire(sent, c) == Cardinality({i \in DOMAIN sent : sent[i] = c})

\* Writes are answered, and their bytes are sent, in the order of their calls, none of them
\* twice; and a write that reports success, and its length, has all of it on the wire.
\* This is for writes that no full send buffer cut in two: what the channel sends and
\* reports of the second part of one is something else, and nothing is said of it but
\* that only there the stream holds bytes that nobody wrote.
WritesInOrder ==
    /\ InOrder(w.answers, "write")
    /\ \A i, j \in DOMAIN w.sent : i < j /\ w.sent[j] # NoCall => w.sent[i] <= w.sent[j]
    /\ \A c \in DOMAIN calls : OnWire(w.sent, c) <= calls[c].len
    /\ w.cut = {} => OnWire(w.sent, NoCall) = 0
    /\ \A i \in OfOp(w.answers, "write") :
          LET a == w.answers[i] IN
          a.n >= 0 /\ a.call \notin w.cut => OnWire(w.sent, a.call) = calls[a.call].len /\ a.n = calls[a.call].len

\* Epoll tells of a change once.  When it has told of everything, the flags say so: data
\* and room are remembered, and an end unless it came with the last data of a read that
\* asked for more.  Nobody waits for what is there, but for those that called while an
\* earlier batch was waiting, and an accept that met an aborted connection.  And whoever
\* called before Cancel has an answer.
NothingForgotten ==
    /\ ~edge /\ conn = "up" =>
          /\ r.avail > 0 => r.ready
          /\ r.end # "open" => r.ready \/ r.short
          /\ w.room > 0 => w.ready
          /\ r.bufs # <<>> => r.avail = 0 /\ (r.end = "open" \/ r.short)
          /\ w.bufs # <<>> => w.room = 0 /\ r.end # "reset"
          /\ w.connectCb = NoCall
    /\ ~edge /\ r.acceptCb # NoCall => r.avail = 0 \/ r.aborted > 0
    /\ ~edge => conn # "refused" \/ w.connectCb = NoCall
    /\ r.polls # <<>> => ~r.ready
    /\ 1 .. cancelled \subseteq ToSet(Calls(Answers))

================================================================================
