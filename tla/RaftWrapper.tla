------------------------------ MODULE RaftWrapper ------------------------------
(* The state machine of one Raft node, RaftWrapper.hpp, run by three parties:  *)
(* the network, which loses, repeats, delays and reorders; crashes, which keep *)
(* what the persistent storage was told and may fall between two of its calls; *)
(* and a driver, which the repository leaves to its user.  The driver counts   *)
(* votes honestly and puts new entries at the end of the leader's log; it may  *)
(* send any piece of that log with any commit index it set, and set any commit *)
(* index.  A log maps each index to the term of its entry, 0 where there is    *)
(* none: that is all the class compares, and an index may indeed be missing    *)
(* below a later one.                                                          *)
EXTENDS Naturals, FiniteSets

CONSTANTS
    Node,        \* the members of the group
    None,        \* no vote, no leader known
    MaxTerm,     \* bound: the last term
    MaxIndex,    \* bound: the last log index
    MaxPolls,    \* bound: elections raised by all nodes
    MaxCrashes,  \* bound: crashes of all nodes
    MaxSends     \* bound: different calls of AppendEntries sent by all nodes

ASSUME NodeAssumption == IsFiniteSet(Node) /\ None \notin Node
ASSUME BoundAssumption ==
    MaxTerm \in Nat /\ MaxIndex \in Nat /\ MaxPolls \in Nat /\ MaxCrashes \in Nat /\ MaxSends \in Nat

VARIABLES
    node,      \* the fields of every node's RaftWrapper
    polls,     \* calls of RequestVote on their way, none ever too late
    appends,   \* calls of AppendEntries on their way, none ever too late
    match,     \* history, per node and term: the index up to which the node has taken
               \* over the log of that term's leader
    ballots,   \* history: <<voter, candidate, term>> of every vote given
    forgot,    \* history: <<node, term>> where a leader's call made the node forget its vote
    led,       \* history: <<node, term>> of every election won
    leaderLog, \* history: per term, the log of its leader, as far as it got in that term
    slips,     \* history: the kinds of steps taken after which applied entries may differ
    crashes

vars == <<node, polls, appends, match, ballots, forgot, led, leaderLog, slips, crashes>>

Index == 1 .. MaxIndex
Term == 0 .. MaxTerm
Log == [Index -> Term]

State == [role : {"Follower", "Candidate", "Leader"}, leader : Node \cup {None},
          votes : SUBSET Node, commit : 0 .. MaxIndex,
          term : Term, votedFor : Node \cup {None}, log : Log, applied : 0 .. MaxIndex]

Poll == [cand : Node, term : Term, lastIndex : 0 .. MaxIndex, lastTerm : Term]
\* "gap": a conflict left a log with an index missing below a later one;
\* "tail": a node took a commit index for entries behind those of the call;
\* "commit": the driver set one for an entry of an older term, or one that no majority has.
Slip == {"gap", "tail", "commit"}
Append == [from : Node, term : Term, prev : 0 .. MaxIndex, log : Log, commit : 0 .. MaxIndex]

TypeOK ==
    /\ node \in [Node -> State]
    /\ \A n \in Node : node[n].applied <= node[n].commit
    /\ polls \subseteq Poll
    /\ appends \subseteq Append
    /\ match \in [Node -> [Term -> 0 .. MaxIndex]]
    /\ ballots \subseteq Node \X Node \X Term
    /\ forgot \subseteq Node \X Term
    /\ led \subseteq Node \X Term
    /\ leaderLog \in [Term -> Log]
    /\ slips \subseteq Slip
    /\ crashes \in 0 .. MaxCrashes

--------------------------------------------------------------------------------
\* The log and its queries

Present(l) == {i \in Index : l[i] # 0}
Greatest(S) == CHOOSE i \in S : \A j \in S : j <= i
GetLastIndex(l) == IF Present(l) = {} THEN 0 ELSE Greatest(Present(l))
GetLastTerm(l) == IF Present(l) = {} THEN 0 ELSE l[GetLastIndex(l)]

Dense(l) == \A i, j \in Index : l[i] # 0 /\ j <= i => l[j] # 0

MemberMajority == (Cardinality(Node) - 1) \div 2

\* Mutant: the commit index starts from zero.
RestartedAtZero(s) ==
    [s EXCEPT !.role = "Follower", !.leader = None, !.votes = {}, !.commit = 0]

\* What a node has after a restart: the storage, and its applied index twice.
Restarted(s) ==
    [s EXCEPT !.role = "Follower", !.leader = None, !.votes = {}, !.commit = s.applied]

ConvertFollower(s) == [s EXCEPT !.votes = {}, !.role = "Follower"]

BiggerTerm(s, t) == [ConvertFollower(s) EXCEPT !.leader = None, !.term = t]

\* The applied index after ApplyLogs, which stops at the first index that is missing.
Applicable(s) ==
    {a \in s.applied .. s.commit : \A i \in Index : s.applied < i /\ i <= a => s.log[i] # 0}
ApplyLogs(s) ==
    IF s.applied < s.commit
    THEN [s EXCEPT !.applied = Greatest(Applicable(s))]
    ELSE s

--------------------------------------------------------------------------------
\* AppendEntries

Denied(s, m) ==
    \/ m.term < s.term
    \/ m.term = s.term /\ s.role = "Leader"
    \/ m.term = s.term /\ s.leader \notin {None, m.from}

\* The sender is the leader: its term, if newer, and its name are taken over.
Follow(s, m) ==
    [IF s.term < m.term THEN BiggerTerm(s, m.term) ELSE s EXCEPT !.leader = m.from]

PrevMatches(s, m) ==
    m.prev > s.applied => s.log[m.prev] # 0 /\ s.log[m.prev] = m.log[m.prev]

\* The sender's entries after the previous one, up to k, that are not applied here.
Sent(s, m, k) == {i \in Present(m.log) : m.prev < i /\ s.applied < i /\ i <= k}

Conflicts(s, m, k) == {i \in Sent(s, m, k) : s.log[i] # 0 /\ s.log[i] # m.log[i]}

\* Mutant: everything behind the previous entry is removed before the entries are appended.
CutFromPrev(s, m, k) ==
    [i \in Index |-> IF i <= m.prev THEN s.log[i] ELSE IF i \in Sent(s, m, k) THEN m.log[i] ELSE 0]

\* Mutant: an entry that is already there is not compared.
KeepsOld(s, m, k) ==
    [i \in Index |-> IF s.log[i] = 0 /\ i \in Sent(s, m, k) THEN m.log[i] ELSE s.log[i]]

\* At the first entry of another term the log is cut, that entry included: it is
\* not put back, and only what comes after it is appended.
CopyLogs(s, m, k) ==
    [i \in Index |->
        IF \E c \in Conflicts(s, m, k) : c < i
        THEN IF i \in Sent(s, m, k) THEN m.log[i] ELSE 0
        ELSE IF i \in Conflicts(s, m, k) THEN 0
        ELSE IF i \in Sent(s, m, k) THEN m.log[i] ELSE s.log[i]]

SetLog(s, m, k) == [s EXCEPT !.log = CopyLogs(s, m, k)]

TakeCommit(s, m) ==
    IF s.commit < m.commit
    THEN [s EXCEPT !.commit = IF m.commit <= GetLastIndex(s.log) THEN m.commit ELSE GetLastIndex(s.log)]
    ELSE s

ForgetVote(s) == [s EXCEPT !.votedFor = None]

\* The node after AppendEntries, and what a crash inside it may leave behind.
Appended(s, m) ==
    LET f == ForgetVote(Follow(s, m)) IN
    IF PrevMatches(f, m) THEN ApplyLogs(TakeCommit(SetLog(f, m, MaxIndex), m)) ELSE f

CutShort(s, m) ==
    LET f == ForgetVote(Follow(s, m))
        full == TakeCommit(SetLog(f, m, MaxIndex), m) IN
    {s, Follow(s, m), f} \cup
    (IF PrevMatches(f, m)
     THEN {SetLog(f, m, k) : k \in Index} \cup {[full EXCEPT !.applied = a] : a \in Applicable(full)}
     ELSE {})

--------------------------------------------------------------------------------
\* RequestVote

Pollable(s, p) == s.role # "Leader" /\ s.term <= p.term

Polled(s, p) ==
    IF s.term < p.term THEN ForgetVote(BiggerTerm(s, p.term)) ELSE s

\* Mutant: a vote given to somebody else is not looked at.
GrantsAnybody(s, p) ==
    /\ Pollable(s, p)
    /\ p.lastIndex >= GetLastIndex(s.log)
    /\ p.lastTerm >= GetLastTerm(s.log)

Grants(s, p) ==
    /\ Pollable(s, p)
    /\ Polled(s, p).votedFor \in {None, p.cand}
    /\ p.lastIndex >= GetLastIndex(s.log)
    /\ p.lastTerm >= GetLastTerm(s.log)

Voted(s, p) == [ConvertFollower(Polled(s, p)) EXCEPT !.votedFor = p.cand]

--------------------------------------------------------------------------------
\* Elections

Init ==
    /\ node = [n \in Node |->
                [role |-> "Follower", leader |-> None, votes |-> {}, commit |-> 0,
                 term |-> 0, votedFor |-> None, log |-> [i \in Index |-> 0], applied |-> 0]]
    /\ polls = {} /\ appends = {} /\ ballots = {} /\ led = {}
    /\ match = [n \in Node |-> [t \in Term |-> 0]]
    /\ forgot = {} /\ slips = {}
    /\ leaderLog = [t \in Term |-> [i \in Index |-> 0]]
    /\ crashes = 0

\* The driver's election timer; the calls of RequestVote leave at once.
RaiseElection(n) ==
    LET s == node[n]
        t == s.term + 1 IN
    /\ s.role # "Leader" /\ t <= MaxTerm /\ Cardinality(polls) < MaxPolls
    /\ node' = [node EXCEPT ![n].leader = None, ![n].votes = {}, ![n].role = "Candidate",
                            ![n].term = t, ![n].votedFor = n]
    /\ polls' = polls \cup {[cand |-> n, term |-> t, lastIndex |-> GetLastIndex(s.log),
                             lastTerm |-> GetLastTerm(s.log)]}
    /\ ballots' = ballots \cup {<<n, n, t>>}
    /\ UNCHANGED <<appends, match, forgot, led, leaderLog, slips, crashes>>

RequestVote(n, p) ==
    /\ p.cand # n
    /\ Pollable(node[n], p)
    /\ IF Grants(node[n], p)
       THEN /\ node' = [node EXCEPT ![n] = Voted(node[n], p)]
            /\ ballots' = ballots \cup {<<n, p.cand, p.term>>}
       ELSE /\ node' = [node EXCEPT ![n] = Polled(node[n], p)]
            /\ UNCHANGED ballots
    /\ UNCHANGED <<polls, appends, match, forgot, led, leaderLog, slips, crashes>>

\* The driver counts the answer of a member once, and only in the election it is for.
ReactVote(n, v) ==
    /\ node[n].role = "Candidate"
    /\ v # n /\ v \notin node[n].votes
    /\ <<v, n, node[n].term>> \in ballots
    /\ node' = [node EXCEPT ![n].votes = @ \cup {v}]
    /\ UNCHANGED <<polls, appends, match, ballots, forgot, led, leaderLog, slips, crashes>>

StopElection(n) ==
    /\ node[n].role = "Candidate"
    /\ Cardinality(node[n].votes) >= MemberMajority
    /\ node' = [node EXCEPT ![n].role = "Leader", ![n].leader = n]
    /\ led' = led \cup {<<n, node[n].term>>}
    /\ leaderLog' = [leaderLog EXCEPT ![node[n].term] = node[n].log]
    /\ UNCHANGED <<polls, appends, match, ballots, forgot, slips, crashes>>

\* An answer to a candidate or a leader told its driver of a newer term.
ReactNewTerm(n, m) ==
    /\ node[n].role # "Follower" /\ node[m].term > node[n].term
    /\ node' = [node EXCEPT ![n] = BiggerTerm(@, node[m].term)]
    /\ UNCHANGED <<polls, appends, match, ballots, forgot, led, leaderLog, slips, crashes>>

--------------------------------------------------------------------------------
\* Replication

\* The leader's own copy counts as well.
AppendLog(n) ==
    LET last == GetLastIndex(node[n].log)
        t == node[n].term IN
    /\ node[n].role = "Leader" /\ last < MaxIndex
    /\ node' = [node EXCEPT ![n].log[last + 1] = t]
    /\ match' = [match EXCEPT ![n][t] = last + 1]
    /\ leaderLog' = [leaderLog EXCEPT ![t][last + 1] = t]
    /\ UNCHANGED <<polls, appends, ballots, forgot, led, slips, crashes>>

\* The driver sends the entries after prev up to end, any piece of the log, none of them in
\* a heartbeat.
SendEntries(n, prev, end) ==
    LET s == node[n] IN
    /\ s.role = "Leader" /\ Cardinality(appends) < MaxSends
    /\ {prev, end} \subseteq Present(s.log) \cup {0} /\ prev <= end
    /\ appends' = appends \cup
        {[from |-> n, term |-> s.term, prev |-> prev, commit |-> s.commit,
          log |-> [i \in Index |-> IF prev <= i /\ i <= end THEN s.log[i] ELSE 0]]}
    /\ UNCHANGED <<node, polls, match, ballots, forgot, led, leaderLog, slips, crashes>>

\* What a node that had s before a call and has t after it may have got wrong.
AppendSlips(s, t, m) ==
    (IF Dense(t.log) THEN {} ELSE {"gap"}) \cup
    (IF s.commit < t.commit /\ GetLastIndex(m.log) < t.commit THEN {"tail"} ELSE {})

\* The entries that the node and the call agree on after it, up to the first conflict.
Taken(s, m) ==
    {k \in m.prev .. GetLastIndex(m.log) : \A c \in Conflicts(s, m, MaxIndex) : k < c}

AppendEntries(n, m) ==
    LET f == Follow(node[n], m) IN
    /\ m.from # n
    /\ ~Denied(node[n], m)
    /\ node' = [node EXCEPT ![n] = Appended(node[n], m)]
    /\ forgot' = forgot \cup {<<n, m.term>>}
    /\ match' = IF PrevMatches(f, m)
                THEN [match EXCEPT ![n][m.term] = Greatest(Taken(f, m) \cup {@})]
                ELSE match
    /\ slips' = slips \cup AppendSlips(node[n], node'[n], m)
    /\ UNCHANGED <<polls, appends, ballots, led, leaderLog, crashes>>

\* The nodes that have taken over the log of the leader of a term up to k.
Copied(t, k) == {f \in Node : k <= match[f][t]}

\* The driver may set any commit index.
SetCommitIndex(n, i) ==
    /\ node[n].role = "Leader"
    /\ node[n].commit < i
    /\ node' = [node EXCEPT ![n].commit = i]
    /\ slips' = IF /\ node[n].log[i] = node[n].term
                   /\ 2 * Cardinality(Copied(node[n].term, i)) > Cardinality(Node)
                THEN slips ELSE slips \cup {"commit"}
    /\ UNCHANGED <<polls, appends, match, ballots, forgot, led, leaderLog, crashes>>

LeaderApplies(n) ==
    /\ node[n].role = "Leader"
    /\ node[n].applied < node[n].commit
    /\ node' = [node EXCEPT ![n] = ApplyLogs(@)]
    /\ UNCHANGED <<polls, appends, match, ballots, forgot, led, leaderLog, slips, crashes>>

--------------------------------------------------------------------------------
\* Crashes: between two handlers, or between two calls of the storage inside one.

Crash(n, s) ==
    /\ crashes < MaxCrashes
    /\ crashes' = crashes + 1
    /\ node' = [node EXCEPT ![n] = Restarted(s)]
    /\ UNCHANGED <<polls, appends, match, ballots, led, leaderLog>>

CrashIdle(n) == Crash(n, node[n]) /\ UNCHANGED <<forgot, slips>>

CrashInElection(n) ==
    /\ node[n].role # "Leader" /\ node[n].term < MaxTerm
    /\ Crash(n, [node[n] EXCEPT !.term = @ + 1])
    /\ UNCHANGED <<forgot, slips>>

CrashInRequestVote(n, p) ==
    /\ p.cand # n /\ node[n].role # "Leader" /\ node[n].term < p.term
    /\ \E s \in {BiggerTerm(node[n], p.term), ForgetVote(BiggerTerm(node[n], p.term))} : Crash(n, s)
    /\ UNCHANGED <<forgot, slips>>

CrashInAppend(n, m) ==
    /\ m.from # n
    /\ ~Denied(node[n], m)
    /\ \E s \in CutShort(node[n], m) :
        /\ Crash(n, s)
        /\ forgot' = IF s \in {node[n], Follow(node[n], m)} THEN forgot ELSE forgot \cup {<<n, m.term>>}
        /\ slips' = slips \cup AppendSlips(node[n], s, m)

Next ==
    \/ \E n \in Node :
        \/ RaiseElection(n) \/ StopElection(n)
        \/ AppendLog(n) \/ LeaderApplies(n)
        \/ CrashIdle(n) \/ CrashInElection(n)
    \/ \E n, m \in Node : ReactVote(n, m) \/ ReactNewTerm(n, m)
    \/ \E n \in Node, p \in polls : RequestVote(n, p) \/ CrashInRequestVote(n, p)
    \/ \E n \in Node, m \in appends : AppendEntries(n, m) \/ CrashInAppend(n, m)
    \/ \E n \in Node, i, j \in 0 .. MaxIndex : SendEntries(n, i, j)
    \/ \E n \in Node, i \in Index : SetCommitIndex(n, i)

Spec == Init /\ [][Next]_vars

--------------------------------------------------------------------------------
\* The entries a node has applied are in its log: the last index is at least the applied
\* one, so that a commit index that is cut down to it stays above the applied index.
AppliedKept == \A n \in Node : \A i \in Index : i <= node[n].applied => node[n].log[i] # 0

\* A vote is for a term the voter has reached; while it is in that term it remembers whom
\* the vote was for, or a call of a leader of the term made it forget.
VotesRemembered ==
    \A b \in ballots :
        /\ b[3] <= node[b[1]].term
        /\ b[3] = node[b[1]].term => node[b[1]].votedFor = b[2] \/ <<b[1], b[3]>> \in forgot

\* Only who was made to forget its vote votes again in the same term.
VotedAgain ==
    \A a, b \in ballots :
        a[1] = b[1] /\ a[3] = b[3] => a[2] = b[2] \/ <<a[1], a[3]>> \in forgot

\* The votes a candidate counts are other nodes' votes for it, and it has its own.
VotesCounted ==
    \A n \in Node : node[n].role = "Candidate" =>
        /\ <<n, n, node[n].term>> \in ballots
        /\ \A v \in node[n].votes : v # n /\ <<v, n, node[n].term>> \in ballots

\* Half of the group is enough when its size is even.
Majority == {Q \in SUBSET Node : 2 * Cardinality(Q) > Cardinality(Node)}
Winning == {Q \in SUBSET Node : 2 * Cardinality(Q) >= Cardinality(Node)}
OddGroup == Cardinality(Node) % 2 = 1
LedByVotes == \A l \in led : \E Q \in Winning : \A v \in Q : <<v, l[1], l[2]>> \in ballots

\* Why nothing applied is lost, and whose votes a leader has although votes are forgotten
\* and crashes tear elections.
LogInv == TypeOK /\ AppliedKept
VoteInv == VotesRemembered /\ VotedAgain /\ VotesCounted /\ LedByVotes

--------------------------------------------------------------------------------
\* Why applied entries agree

Same(l, r, k) == \A i \in Index : i <= k => l[i] = r[i]

Led(t) == \E n \in Node : <<n, t>> \in led

\* An entry of a log is an entry of its term's leader, and so is everything below it.
Made(l, t) == \A i \in Index : l[i] # 0 => l[i] <= t /\ Same(l, leaderLog[l[i]], i)

LogsAreLeaders ==
    /\ \A n \in Node : Made(node[n].log, node[n].term) /\ Dense(node[n].log)
    /\ \A t \in Term : Made(leaderLog[t], t) /\ Dense(leaderLog[t])

LeadersOwn ==
    /\ \A n \in Node : node[n].role = "Leader" =>
         <<n, node[n].term>> \in led /\ leaderLog[node[n].term] = node[n].log
    /\ \A t \in Term : ~Led(t) => \A i \in Index : leaderLog[t][i] = 0
    /\ \A l \in led : l[2] # 0 /\ l[2] <= node[l[1]].term

\* The leader of the term appended the entry itself; it may commit it; it never can again.
Own(t, k) == t # 0 /\ leaderLog[t][k] = t
Committed(t, k) == Own(t, k) /\ Copied(t, k) \in Majority
Blocked(t, k) == \E Q \in Winning : \A f \in Q : t < node[f].term /\ match[f][t] < k

\* The log is that of committed entries of terms up to t, as far as k.
Backed(l, k, t) ==
    k # 0 => \E u \in Term, j \in Index :
                u <= t /\ k <= j /\ Committed(u, j) /\ Same(l, leaderLog[u], k)

CommitsBacked == \A n \in Node : Backed(node[n].log, node[n].commit, node[n].term)

\* A call carries a piece of its leader's log, and a commit index that the log backs.
FromLeader(m) ==
    /\ <<m.from, m.term>> \in led
    /\ \A i \in Index :
         /\ m.log[i] # 0 => m.prev <= i /\ m.log[i] = leaderLog[m.term][i]
         /\ m.prev <= i /\ i <= GetLastIndex(m.log) => m.log[i] # 0
    /\ m.prev <= GetLastIndex(m.log)
    /\ Backed(leaderLog[m.term], m.commit, m.term)

CallsAreLeaders == \A m \in appends : FromLeader(m)

\* The candidate's log is the one it told the voters of, as long as its term has no leader.
Candidates ==
    /\ \A p, q \in polls : p.cand = q.cand /\ p.term = q.term => p = q
    /\ \A p \in polls : p.term # 0 /\ p.term <= node[p.cand].term
    /\ \A n \in Node : node[n].role = "Candidate" =>
        /\ <<n, node[n].term>> \notin led
        /\ \E p \in polls :
            /\ p.cand = n /\ p.term = node[n].term
            /\ ~Led(p.term) =>
                 p.lastIndex = GetLastIndex(node[n].log) /\ p.lastTerm = GetLastTerm(node[n].log)

\* What is counted as copied was there, and stays there unless it can never be committed.
CopiesMade ==
    \A f \in Node, t \in Term : match[f][t] # 0 =>
        t <= node[f].term /\ leaderLog[t][match[f][t]] # 0
CopiesKept ==
    \A f \in Node, t \in Term, k \in Index : k <= match[f][t] /\ Own(t, k) =>
        Blocked(t, k) \/ Same(node[f].log, leaderLog[t], k)

\* Who votes for a candidate has no entry behind the candidate's that could be committed.
VotesSafe ==
    \A b \in ballots : \E p \in polls :
        /\ p.cand = b[2] /\ p.term = b[3]
        /\ \A t \in Term, k \in Index :
             t < b[3] /\ k <= match[b[1]][t] /\ Own(t, k) =>
                Blocked(t, k) \/ (k <= p.lastIndex /\ t <= p.lastTerm)

\* A leader has every entry of earlier terms that could be committed.
LeadersComplete ==
    \A t, u \in Term, k \in Index : t < u /\ Led(u) /\ Own(t, k) =>
        Blocked(t, k) \/ Same(leaderLog[t], leaderLog[u], k)

AgreeInv ==
    /\ LogsAreLeaders /\ LeadersOwn /\ CommitsBacked /\ CallsAreLeaders /\ Candidates
    /\ CopiesMade /\ CopiesKept /\ VotesSafe /\ LeadersComplete

OneLeader == \A a, b \in led : a[2] = b[2] => a[1] = b[1]
Sound == OneLeader /\ slips = {}

\* Nothing applied is lost; votes are forgotten for a leader's call only; and as long as
\* terms had one leader and nothing slipped, leaders have all that was committed before.
IInv == LogInv /\ VoteInv /\ (Sound => AgreeInv)

\* In a group of odd size a term gets a second leader in one way only: somebody who voted
\* for one of them was made to forget it by AppendEntries and voted for the other, in that
\* term.  Terms and votes persisted by separate calls, crashes between them, votes of older
\* terms left standing, lost and late requests never do it.
ElectionSafety ==
    OddGroup =>
        \A a, b \in led :
            a[2] = b[2] /\ a[1] # b[1] =>
                \E v \in Node :
                    /\ <<v, a[2]>> \in forgot
                    /\ <<v, a[1], a[2]>> \in ballots /\ <<v, b[1], b[2]>> \in ballots

\* As long as terms had one leader and nothing slipped, what two nodes have applied at an
\* index is the same entry, whatever leaders came and went, whatever pieces of their logs
\* arrived late, twice or out of order, and whatever a conflict cut out of a log.
AppliedAgree ==
    Sound =>
        \A a, b \in Node : \A i \in Index :
            i <= node[a].applied /\ i <= node[b].applied => node[a].log[i] = node[b].log[i]

\* What a node has applied stays applied and stays in its log, through conflicts with new
\* leaders and through crashes.
AppliedIsFinal ==
    [][\A n \in Node :
        /\ node[n].applied <= node'[n].applied
        /\ \A i \in Index : i <= node[n].applied => node'[n].log[i] = node[n].log[i]]_vars
================================================================================
