--------------------------- MODULE RaftWrapper_proofs ---------------------------
(* Proofs about a Raft node, for every size of the group, every bound and every *)
(* driver: what a node applied stays applied; a vote is forgotten for a leader's *)
(* call only, and a term of an odd group has two leaders only after such a vote; *)
(* and all nodes apply the same entries as long as terms had one leader and      *)
(* nothing slipped.                                                              *)
EXTENDS RaftWrapper, Integers, FiniteSetTheorems, WellFoundedInduction, TLAPS

--------------------------------------------------------------------------------
\* Numbers

\* A set of naturals has a least member.
LEMMA SmallestOf ==
    ASSUME NEW S \in SUBSET Nat, S # {}
    PROVE  \E x \in S : \A y \in S : x <= y
<1> DEFINE R == {ss \in Nat \X Nat : ss[1] < ss[2]}
<1>1. IsWellFoundedOn(R, Nat)
  BY NatLessThanWellFounded DEF OpToRel
<1>2. \A x, y \in Nat : <<y, x>> \notin R => x <= y
  OBVIOUS
<1> HIDE DEF R
<1>3. PICK x \in S : \A y \in S : ~(<<y, x>> \in R)
  BY <1>1, WFMin
<1> QED BY <1>2, <1>3

\* A set of naturals with a bound has a greatest member: what GetLastIndex and
\* ApplyLogs choose.
LEMMA LargestOf ==
    ASSUME NEW N \in Nat, NEW S \in SUBSET (0 .. N), S # {}
    PROVE  \E x \in S : \A y \in S : y <= x
<1> DEFINE D == {N - y : y \in S}
<1>1. \A y \in S : y \in Nat /\ N - y \in Nat
  OBVIOUS
<1>2. D \in SUBSET Nat
  BY <1>1
<1>3. D # {}
  OBVIOUS
<1>4. PICK d \in D : \A y \in D : d <= y
  BY <1>2, <1>3, SmallestOf
<1>5. PICK x \in S : d = N - x
  OBVIOUS
<1>6. \A y \in S : N - x <= N - y
  BY <1>4, <1>5
<1>7. \A y \in S : y <= x
  BY <1>1, <1>6
<1> QED BY <1>7

LEMMA GreatestOf ==
    ASSUME NEW S \in SUBSET (0 .. MaxIndex), S # {}
    PROVE  Greatest(S) \in S /\ Greatest(S) \in 0 .. MaxIndex /\ \A y \in S : y <= Greatest(S)
BY BoundAssumption, LargestOf DEF Greatest

--------------------------------------------------------------------------------
\* The log

\* GetLastIndex bounds the entries a log has.
LEMMA LastIndex ==
    ASSUME NEW l \in Log
    PROVE  /\ GetLastIndex(l) \in 0 .. MaxIndex
           /\ GetLastTerm(l) \in Term
           /\ \A i \in Index : l[i] # 0 => i <= GetLastIndex(l)
<1>1. Present(l) \in SUBSET (0 .. MaxIndex) /\ \A i \in Present(l) : i \in Index /\ l[i] \in Term
  BY BoundAssumption DEF Present, Index, Log
<1>2. CASE Present(l) = {}
  BY <1>2, BoundAssumption DEF GetLastIndex, GetLastTerm, Present, Term, Index
<1>3. CASE Present(l) # {}
  <2>2. GetLastIndex(l) \in Present(l) /\ \A j \in Present(l) : j <= GetLastIndex(l)
    BY <1>1, <1>3, GreatestOf DEF GetLastIndex
  <2> QED BY <1>1, <1>3, <2>2 DEF GetLastTerm, Present
<1> QED BY <1>2, <1>3

\* A node whose applied entries are in its log, and what a handler may make of it:
\* a node that has applied at least as much, and the same entries.
Good(s) ==
    /\ s \in State
    /\ s.applied <= s.commit
    /\ \A i \in Index : i <= s.applied => s.log[i] # 0

Grows(s, r) ==
    /\ Good(r)
    /\ s.applied <= r.applied
    /\ \A i \in Index : i <= s.applied => r.log[i] = s.log[i]

LEMMA GrowsTrans ==
    ASSUME NEW s, NEW r, NEW q, Good(s), Grows(s, r), Grows(r, q)
    PROVE  Grows(s, q)
<1>1. s.applied \in Nat /\ r.applied \in Nat /\ q.applied \in Nat /\ \A i \in Index : i \in Nat
  BY BoundAssumption DEF Good, Grows, State, Index
<1>2. \A i \in Index : i <= s.applied => i <= r.applied
  BY <1>1 DEF Grows
<1> QED BY <1>1, <1>2 DEF Grows

\* Entries that are applied survive CopyLogs, whatever the leader sent.
LEMMA CopyGrows ==
    ASSUME NEW s, Good(s), NEW m \in Append, NEW k \in Nat
    PROVE  Grows(s, SetLog(s, m, k)) /\ SetLog(s, m, k).commit = s.commit
<1>1. s.log \in Log /\ m.log \in Log /\ s.applied \in Nat
  BY BoundAssumption DEF Good, State, Append
<1>2. CopyLogs(s, m, k) \in Log
  <2>1. \A i \in Index : s.log[i] \in Term /\ m.log[i] \in Term /\ 0 \in Term
    BY <1>1, BoundAssumption DEF Log, Term
  <2> QED BY <2>1 DEF CopyLogs, Log
<1>3. \A i \in Index : i <= s.applied => CopyLogs(s, m, k)[i] = s.log[i]
  <2> TAKE i \in Index
  <2> HAVE i <= s.applied
  <2>1. i \notin Sent(s, m, k)
    BY <1>1, BoundAssumption DEF Sent, Index
  <2>2. ~\E c \in Conflicts(s, m, k) : c < i
    BY <1>1, BoundAssumption DEF Conflicts, Sent, Present, Index
  <2> QED BY <2>1, <2>2 DEF CopyLogs, Conflicts
<1>4. SetLog(s, m, k) = [s EXCEPT !.log = CopyLogs(s, m, k)]
  BY DEF SetLog
<1> HIDE DEF SetLog, CopyLogs
<1>5. /\ SetLog(s, m, k) \in State
      /\ SetLog(s, m, k).applied = s.applied
      /\ SetLog(s, m, k).commit = s.commit
      /\ SetLog(s, m, k).log = CopyLogs(s, m, k)
  BY <1>2, <1>4 DEF Good, State
<1> QED BY <1>1, <1>3, <1>5 DEF Good, Grows

\* The commit index stays above the applied one although it is cut to the last index.
LEMMA CommitGrows ==
    ASSUME NEW s, Good(s), NEW m \in Append
    PROVE  Grows(s, TakeCommit(s, m))
<1>1. s.log \in Log /\ s.applied \in 0 .. MaxIndex /\ s.commit \in 0 .. MaxIndex /\ m.commit \in 0 .. MaxIndex
  BY DEF Good, State, Append
<1>2. s.applied <= GetLastIndex(s.log) /\ GetLastIndex(s.log) \in 0 .. MaxIndex
  BY <1>1, LastIndex, BoundAssumption DEF Good, Index
<1>3. PICK c \in 0 .. MaxIndex : s.applied <= c /\ TakeCommit(s, m) = [s EXCEPT !.commit = c]
  <2>1. CASE s.commit < m.commit
    BY <1>1, <1>2, <2>1, BoundAssumption DEF TakeCommit, Good
  <2>2. CASE ~(s.commit < m.commit)
    BY <1>1, <2>2 DEF TakeCommit, Good, State
  <2> QED BY <2>1, <2>2
<1> QED BY <1>1, <1>3, BoundAssumption DEF Good, Grows, State

\* Applying stops somewhere between the applied index and the commit index, and
\* everything up to there is in the log.
LEMMA AnyApplicable ==
    ASSUME NEW s, Good(s), NEW a \in Applicable(s)
    PROVE  Grows(s, [s EXCEPT !.applied = a])
<1>1. s.applied \in 0 .. MaxIndex /\ s.commit \in 0 .. MaxIndex
  BY DEF Good, State
<1>2. a \in 0 .. MaxIndex /\ s.applied <= a /\ a <= s.commit
  BY <1>1, BoundAssumption DEF Applicable
<1>3. \A i \in Index : i <= a => s.log[i] # 0
  BY <1>1, <1>2, BoundAssumption DEF Applicable, Good, Index
<1> QED BY <1>1, <1>2, <1>3, BoundAssumption DEF Good, Grows, State

LEMMA ApplyGrows ==
    ASSUME NEW s, Good(s)
    PROVE  Grows(s, ApplyLogs(s))
<1>1. s.applied \in 0 .. MaxIndex /\ s.commit \in 0 .. MaxIndex /\ s.applied <= s.commit
  BY DEF Good, State
<1>2. s.applied \in Applicable(s) /\ Applicable(s) \in SUBSET (0 .. MaxIndex)
  BY <1>1, BoundAssumption DEF Applicable, Index
<1>3. Greatest(Applicable(s)) \in Applicable(s)
  BY <1>2, GreatestOf
<1>4. PICK a \in Applicable(s) : ApplyLogs(s) = [s EXCEPT !.applied = a] \/ ApplyLogs(s) = s
  BY <1>3 DEF ApplyLogs
<1>5. Grows(s, s)
  BY <1>1, BoundAssumption DEF Good, Grows
<1> QED BY <1>4, <1>5, AnyApplicable

--------------------------------------------------------------------------------
\* The handlers

\* Handlers that touch neither the log nor the two indexes.
LEMMA FieldsGrow ==
    ASSUME NEW s, Good(s),
           NEW r, r \in State, r.log = s.log, r.applied = s.applied, r.applied <= r.commit
    PROVE  Grows(s, r)
BY BoundAssumption DEF Good, Grows, State

\* A restart keeps what was applied, and commits just that.
LEMMA RestartGrows ==
    ASSUME NEW s, NEW r, Good(s), Grows(s, r)
    PROVE  /\ Grows(s, Restarted(r))
           /\ Restarted(r).term = r.term /\ Restarted(r).votedFor = r.votedFor
           /\ Restarted(r).role = "Follower"
<1>1. /\ Restarted(r) \in State /\ Restarted(r).log = r.log
      /\ Restarted(r).applied = r.applied /\ Restarted(r).commit = r.applied
      /\ Restarted(r).term = r.term /\ Restarted(r).votedFor = r.votedFor
      /\ Restarted(r).role = "Follower"
  BY DEF Grows, Good, State, Restarted
<1>2. Good(r) /\ r.applied <= r.applied
  BY BoundAssumption DEF Grows, Good, State
<1>3. Grows(r, Restarted(r))
  BY <1>1, <1>2, FieldsGrow
<1> QED BY <1>1, <1>3, GrowsTrans

\* What may be read of a node after it took over a newer term.
LEMMA BiggerTermIs ==
    ASSUME NEW s, Good(s), NEW t \in Term
    PROVE  /\ Grows(s, BiggerTerm(s, t))
           /\ BiggerTerm(s, t).term = t
           /\ BiggerTerm(s, t).role = "Follower"
           /\ BiggerTerm(s, t).votedFor = s.votedFor
<1>1. /\ BiggerTerm(s, t) \in State /\ BiggerTerm(s, t).log = s.log
      /\ BiggerTerm(s, t).applied = s.applied /\ BiggerTerm(s, t).commit = s.commit
      /\ BiggerTerm(s, t).term = t /\ BiggerTerm(s, t).role = "Follower"
      /\ BiggerTerm(s, t).votedFor = s.votedFor
  BY DEF Good, State, BiggerTerm, ConvertFollower
<1> QED BY <1>1, FieldsGrow DEF Good

LEMMA ForgetVoteIs ==
    ASSUME NEW s, Good(s)
    PROVE  /\ Grows(s, ForgetVote(s))
           /\ ForgetVote(s).term = s.term /\ ForgetVote(s).role = s.role
           /\ ForgetVote(s).votes = s.votes /\ ForgetVote(s).votedFor = None
<1>1. /\ ForgetVote(s) \in State /\ ForgetVote(s).log = s.log
      /\ ForgetVote(s).applied = s.applied /\ ForgetVote(s).commit = s.commit
      /\ ForgetVote(s).term = s.term /\ ForgetVote(s).role = s.role
      /\ ForgetVote(s).votes = s.votes /\ ForgetVote(s).votedFor = None
  BY DEF Good, State, ForgetVote
<1> QED BY <1>1, FieldsGrow DEF Good

\* A call that is not denied brings the node to the caller's term: by a step that drops
\* the votes it collected, or, in the same term, without touching vote, votes and role.
Stays(s, r) ==
    r.term = s.term /\ r.role = s.role /\ r.votes = s.votes /\ r.votedFor = s.votedFor

LEMMA FollowIs ==
    ASSUME NEW s, Good(s), NEW m \in Append, ~Denied(s, m)
    PROVE  /\ Grows(s, Follow(s, m))
           /\ Follow(s, m).term = m.term /\ s.term <= m.term
           /\ \/ s.term = m.term /\ Stays(s, Follow(s, m))
              \/ s.term < m.term /\ Follow(s, m).role = "Follower"
<1>1. s.term \in Nat /\ m.term \in Nat /\ m.term \in Term /\ m.from \in Node
  BY BoundAssumption DEF Good, State, Append, Term
<1>2. s.term <= m.term
  BY <1>1 DEF Denied
<1>3. CASE s.term < m.term
  <2> DEFINE b == BiggerTerm(s, m.term)
  <2>1. Grows(s, b) /\ b.term = m.term /\ b.role = "Follower" /\ Good(b)
    BY <1>1, BiggerTermIs DEF Grows
  <2>2. Follow(s, m) = [b EXCEPT !.leader = m.from]
    BY <1>3 DEF Follow
  <2> HIDE DEF b
  <2>3. /\ Follow(s, m) \in State /\ Follow(s, m).log = b.log
        /\ Follow(s, m).applied = b.applied /\ Follow(s, m).commit = b.commit
        /\ Follow(s, m).term = m.term /\ Follow(s, m).role = "Follower"
    BY <1>1, <2>1, <2>2 DEF Good, State
  <2>4. Grows(b, Follow(s, m))
    BY <2>1, <2>3, FieldsGrow DEF Good
  <2> QED BY <1>2, <1>3, <2>1, <2>3, <2>4, GrowsTrans
<1>4. CASE s.term = m.term
  <2>1. Follow(s, m) = [s EXCEPT !.leader = m.from]
    BY <1>1, <1>4 DEF Follow
  <2>2. /\ Follow(s, m) \in State /\ Follow(s, m).log = s.log
        /\ Follow(s, m).applied = s.applied /\ Follow(s, m).commit = s.commit
        /\ Stays(s, Follow(s, m))
    BY <1>1, <2>1 DEF Good, State, Stays
  <2>3. Grows(s, Follow(s, m))
    BY <2>2, FieldsGrow DEF Good
  <2> QED BY <1>2, <1>4, <2>2, <2>3 DEF Stays
<1> QED BY <1>1, <1>2, <1>3, <1>4

\* The part of AppendEntries behind the test of the previous entry changes the log and
\* the indexes only.
LEMMA CopyStays ==
    ASSUME NEW s, Good(s), NEW m \in Append, NEW k \in Nat
    PROVE  /\ Grows(s, SetLog(s, m, k)) /\ Stays(s, SetLog(s, m, k))
           /\ Grows(s, TakeCommit(SetLog(s, m, k), m)) /\ Stays(s, TakeCommit(SetLog(s, m, k), m))
           /\ Grows(s, ApplyLogs(TakeCommit(SetLog(s, m, k), m)))
           /\ Stays(s, ApplyLogs(TakeCommit(SetLog(s, m, k), m)))
<1> DEFINE r == SetLog(s, m, k)
           q == TakeCommit(r, m)
<1>1. Grows(s, r) /\ Good(r)
  BY CopyGrows DEF Grows
<1>2. Stays(s, r)
  BY DEF Good, State, SetLog, Stays
<1> HIDE DEF r
<1>3. Grows(r, q) /\ Good(q)
  BY <1>1, CommitGrows DEF Grows
<1>4. Stays(r, q)
  BY <1>1 DEF Good, State, TakeCommit, Stays
<1> HIDE DEF q
<1>5. Grows(q, ApplyLogs(q))
  BY <1>3, ApplyGrows
<1>6. Stays(q, ApplyLogs(q))
  BY <1>3 DEF Good, State, ApplyLogs, Stays
<1>7. Grows(s, q) /\ Stays(s, q)
  BY <1>1, <1>2, <1>3, <1>4, GrowsTrans DEF Stays
<1>8. Grows(s, ApplyLogs(q)) /\ Stays(s, ApplyLogs(q))
  BY <1>3, <1>5, <1>6, <1>7, GrowsTrans DEF Stays
<1> QED BY <1>1, <1>2, <1>7, <1>8 DEF q, r

\* AppendEntries keeps what is applied, and its last word on vote and role is Follow's.
LEMMA AppendedIs ==
    ASSUME NEW s, Good(s), NEW m \in Append, ~Denied(s, m)
    PROVE  LET r == Appended(s, m) IN
           /\ Grows(s, r)
           /\ r.term = m.term /\ s.term <= m.term
           /\ r.role = "Candidate" =>
                s.role = "Candidate" /\ s.term = m.term /\ r.votes = s.votes
<1> DEFINE w == Follow(s, m)
           f == ForgetVote(w)
           q == ApplyLogs(TakeCommit(SetLog(f, m, MaxIndex), m))
<1>1. /\ Grows(s, w) /\ Good(w) /\ w.term = m.term /\ s.term <= m.term
      /\ w.role = "Candidate" => s.role = "Candidate" /\ s.term = m.term /\ w.votes = s.votes
  BY FollowIs DEF Grows, Stays
<1> HIDE DEF w
<1>2. /\ Grows(w, f) /\ Good(f) /\ f.term = w.term /\ f.role = w.role /\ f.votes = w.votes
  BY <1>1, ForgetVoteIs DEF Grows
<1>3. Grows(s, f)
  BY <1>1, <1>2, GrowsTrans
<1> HIDE DEF f
<1>4. Grows(f, q) /\ Stays(f, q)
  BY <1>2, CopyStays, BoundAssumption
<1>5. Grows(s, q)
  BY <1>3, <1>4, GrowsTrans
<1>6. Appended(s, m) = q \/ Appended(s, m) = f
  BY DEF Appended, f, w
<1> QED BY <1>1, <1>2, <1>3, <1>4, <1>5, <1>6 DEF Stays

\* A crash inside AppendEntries leaves a node that knows the caller's term or is as it
\* was, and forgot its vote only if the caller's term was reached.
LEMMA CutShortIs ==
    ASSUME NEW s, Good(s), NEW m \in Append, ~Denied(s, m), NEW r \in CutShort(s, m)
    PROVE  /\ Grows(s, r)
           /\ s.term <= r.term
           /\ r \notin {s, Follow(s, m)} => r.term = m.term
           /\ r \in {s, Follow(s, m)} =>
                (r.term = s.term /\ r.votedFor = s.votedFor) \/ s.term < r.term
<1> DEFINE w == Follow(s, m)
           f == ForgetVote(w)
           full == TakeCommit(SetLog(f, m, MaxIndex), m)
<1>0. s.term \in Nat /\ s.applied \in Nat
  BY BoundAssumption DEF Good, State, Term
<1>1. /\ Grows(s, w) /\ Good(w) /\ w.term = m.term /\ s.term <= m.term
      /\ (s.term = m.term /\ Stays(s, w)) \/ s.term < m.term
  BY FollowIs DEF Grows
<1>2. Grows(s, s) /\ s.term <= s.term
  BY <1>0 DEF Good, Grows
<1>3. r = s \/ r = w \/ r = f \/ (\E k \in Index : r = SetLog(f, m, k))
        \/ \E a \in Applicable(full) : r = [full EXCEPT !.applied = a]
  BY DEF CutShort
<1>4. CASE r = s \/ r = w
  BY <1>0, <1>1, <1>2, <1>4 DEF Stays
<1>5. ASSUME r # s, r # w
      PROVE  Grows(s, r) /\ r.term = m.term
  <2> HIDE DEF w
  <2>1. Grows(w, f) /\ Good(f) /\ f.term = m.term
    BY <1>1, ForgetVoteIs DEF Grows
  <2>2. Grows(s, f)
    BY <1>1, <2>1, GrowsTrans
  <2> HIDE DEF f
  <2>3. CASE r = f
    BY <2>1, <2>2, <2>3
  <2>4. ASSUME NEW k \in Index, r = SetLog(f, m, k) PROVE Grows(s, r) /\ r.term = m.term
    <3>1. Grows(f, r) /\ Stays(f, r)
      BY <2>1, <2>4, CopyStays, BoundAssumption DEF Index
    <3> QED BY <2>1, <2>2, <3>1, GrowsTrans DEF Stays
  <2>5. ASSUME NEW a \in Applicable(full), r = [full EXCEPT !.applied = a]
        PROVE  Grows(s, r) /\ r.term = m.term
    <3>1. Grows(f, full) /\ Stays(f, full) /\ Good(full)
      BY <2>1, CopyStays, BoundAssumption DEF Grows
    <3> HIDE DEF full
    <3>2. Grows(full, r) /\ r.term = full.term
      BY <2>5, <3>1, AnyApplicable DEF Good, State
    <3> QED BY <2>1, <2>2, <3>1, <3>2, GrowsTrans DEF Stays
  <2> QED BY <1>3, <1>5, <2>3, <2>4, <2>5
<1> QED BY <1>1, <1>4, <1>5

\* A node asked for its vote moves to the candidate's term or stays in it.
LEMMA PolledIs ==
    ASSUME NEW s, Good(s), NEW p \in Poll, s.term <= p.term
    PROVE  /\ Grows(s, Polled(s, p)) /\ Polled(s, p).term = p.term
           /\ \/ s.term = p.term /\ Polled(s, p) = s
              \/ s.term < p.term /\ Polled(s, p).role = "Follower" /\ Polled(s, p).votedFor = None
<1>1. s.term \in Nat /\ p.term \in Nat /\ p.term \in Term /\ s.applied \in Nat
  BY BoundAssumption DEF Good, State, Poll, Term
<1>2. CASE s.term < p.term
  <2> DEFINE b == BiggerTerm(s, p.term)
  <2>1. Grows(s, b) /\ Good(b) /\ b.term = p.term /\ b.role = "Follower"
    BY <1>1, BiggerTermIs DEF Grows
  <2>2. Polled(s, p) = ForgetVote(b)
    BY <1>2 DEF Polled
  <2> HIDE DEF b
  <2> QED BY <1>2, <2>1, <2>2, ForgetVoteIs, GrowsTrans
<1>3. CASE s.term = p.term
  <2>1. Polled(s, p) = s
    BY <1>1, <1>3 DEF Polled
  <2>2. Grows(s, s)
    BY <1>1 DEF Good, Grows
  <2> QED BY <1>3, <2>1, <2>2
<1> QED BY <1>1, <1>2, <1>3

LEMMA VotedIs ==
    ASSUME NEW s, Good(s), NEW p \in Poll, s.term <= p.term
    PROVE  /\ Grows(s, Voted(s, p)) /\ Voted(s, p).term = p.term
           /\ Voted(s, p).role = "Follower" /\ Voted(s, p).votedFor = p.cand
<1> DEFINE q == Polled(s, p)
<1>1. Grows(s, q) /\ Good(q) /\ q.term = p.term
  BY PolledIs DEF Grows
<1>2. Voted(s, p) = [ConvertFollower(q) EXCEPT !.votedFor = p.cand]
  BY DEF Voted
<1> HIDE DEF q
<1>3. /\ Voted(s, p) \in State /\ Voted(s, p).log = q.log
      /\ Voted(s, p).applied = q.applied /\ Voted(s, p).commit = q.commit
      /\ Voted(s, p).term = q.term /\ Voted(s, p).role = "Follower" /\ Voted(s, p).votedFor = p.cand
  BY <1>1, <1>2 DEF Good, State, Poll, ConvertFollower
<1>4. Grows(q, Voted(s, p))
  BY <1>1, <1>3, FieldsGrow DEF Good
<1> QED BY <1>1, <1>3, <1>4, GrowsTrans

--------------------------------------------------------------------------------
\* Steps: every node grows

NodesGrow == node' \in [Node -> State] /\ \A n \in Node : Grows(node[n], node'[n])

LEMMA AllGood ==
    ASSUME LogInv
    PROVE  \A n \in Node : Good(node[n]) /\ Grows(node[n], node[n]) /\ node[n] \in State
<1>1. \A n \in Node : Good(node[n]) /\ node[n].applied \in Nat
  BY BoundAssumption DEF LogInv, TypeOK, AppliedKept, Good, State
<1> QED BY <1>1 DEF Good, Grows

\* A step of one node.
LEMMA OneGrows ==
    ASSUME LogInv, NEW n \in Node, NEW r, Grows(node[n], r), node' = [node EXCEPT ![n] = r]
    PROVE  NodesGrow
<1>1. node \in [Node -> State] /\ r \in State
  BY DEF LogInv, TypeOK, Grows, Good
<1>2. node' \in [Node -> State] /\ node'[n] = r /\ \A k \in Node \ {n} : node'[k] = node[k]
  BY <1>1
<1> QED BY <1>2, AllGood DEF NodesGrow

LEMMA NoneGrows ==
    ASSUME LogInv, node' = node
    PROVE  NodesGrow
BY AllGood DEF NodesGrow, LogInv, TypeOK

\* Growing nodes keep the types and the applied entries.
LEMMA GrownInv ==
    ASSUME LogInv, NodesGrow,
           polls' \subseteq Poll, appends' \subseteq Append,
           match' \in [Node -> [Term -> 0 .. MaxIndex]],
           ballots' \subseteq Node \X Node \X Term,
           forgot' \subseteq Node \X Term, led' \subseteq Node \X Term,
           leaderLog' \in [Term -> Log], slips' \subseteq Slip, crashes' \in 0 .. MaxCrashes
    PROVE  LogInv'
BY DEF LogInv, NodesGrow, TypeOK, AppliedKept, Grows, Good

\* One field of a node is changed.
LEMMA WithLog ==
    ASSUME NEW s \in State, NEW l \in Log
    PROVE  LET r == [s EXCEPT !.log = l] IN
           r \in State /\ r.log = l /\ r.applied = s.applied /\ r.commit = s.commit
BY DEF State

LEMMA WithCommit ==
    ASSUME NEW s \in State, NEW i \in 0 .. MaxIndex
    PROVE  LET r == [s EXCEPT !.commit = i] IN
           r \in State /\ r.log = s.log /\ r.applied = s.applied /\ r.commit = i
BY DEF State

LEMMA WithTerm ==
    ASSUME NEW s \in State, NEW t \in Term
    PROVE  LET r == [s EXCEPT !.term = t] IN
           /\ r \in State /\ r.log = s.log /\ r.applied = s.applied /\ r.commit = s.commit
           /\ r.term = t /\ r.votedFor = s.votedFor
BY DEF State

LEMMA WithVotes ==
    ASSUME NEW s \in State, NEW v \in SUBSET Node
    PROVE  LET r == [s EXCEPT !.votes = v] IN
           /\ r \in State /\ r.log = s.log /\ r.applied = s.applied /\ r.commit = s.commit
           /\ r.votes = v /\ r.term = s.term /\ r.role = s.role /\ r.votedFor = s.votedFor
BY DEF State

LEMMA AsLeader ==
    ASSUME NEW s \in State, NEW n \in Node
    PROVE  LET r == [s EXCEPT !.role = "Leader", !.leader = n] IN
           /\ r \in State /\ r.log = s.log /\ r.applied = s.applied /\ r.commit = s.commit
           /\ r.role = "Leader" /\ r.term = s.term /\ r.votedFor = s.votedFor
BY DEF State

Raised(s, n, t) ==
    [s EXCEPT !.leader = None, !.votes = {}, !.role = "Candidate", !.term = t, !.votedFor = n]

LEMMA AsCandidate ==
    ASSUME NEW s \in State, NEW n \in Node, NEW t \in Term
    PROVE  LET r == Raised(s, n, t) IN
           /\ r \in State /\ r.log = s.log /\ r.applied = s.applied /\ r.commit = s.commit
           /\ r.votes = {} /\ r.term = t /\ r.votedFor = n
BY DEF Raised, State

LEMMA TakenIs ==
    ASSUME NEW s, NEW m \in Append
    PROVE  Taken(s, m) \in SUBSET (0 .. MaxIndex)
<1>1. GetLastIndex(m.log) \in 0 .. MaxIndex /\ m.prev \in 0 .. MaxIndex
  BY LastIndex DEF Append
<1> QED BY <1>1, BoundAssumption DEF Taken

\* Every step keeps the types and the applied entries of every node.
LEMMA LogStep ==
    ASSUME LogInv, Next
    PROVE  LogInv' /\ NodesGrow
<1> USE BoundAssumption
<1>0. /\ \A n \in Node : node[n] \in State /\ Good(node[n])
      /\ \A n \in Node : /\ node[n].term \in Term /\ node[n].log \in Log
                         /\ node[n].commit \in 0 .. MaxIndex /\ node[n].applied \in 0 .. MaxIndex
                         /\ node[n].applied <= node[n].commit
      /\ node \in [Node -> State]
      /\ polls \subseteq Poll /\ appends \subseteq Append
      /\ match \in [Node -> [Term -> 0 .. MaxIndex]]
      /\ ballots \subseteq Node \X Node \X Term
      /\ forgot \subseteq Node \X Term /\ led \subseteq Node \X Term /\ leaderLog \in [Term -> Log]
      /\ slips \subseteq Slip
      /\ crashes \in 0 .. MaxCrashes
  BY AllGood DEF LogInv, TypeOK, State, Good
<1>1. ASSUME NEW n \in Node, RaiseElection(n) PROVE LogInv' /\ NodesGrow
  <2> DEFINE s == node[n]
             r == Raised(s, n, s.term + 1)
  <2>1. s.term + 1 \in Term
    BY <1>0, <1>1 DEF RaiseElection, Term
  <2>2. r \in State /\ r.log = s.log /\ r.applied = s.applied /\ r.commit = s.commit
    BY <1>0, <2>1, AsCandidate
  <2>3. node' = [node EXCEPT ![n] = r]
    BY <1>0, <1>1 DEF RaiseElection, Raised
  <2>4. NodesGrow
    <3> HIDE DEF r
    <3> QED BY <1>0, <2>2, <2>3, OneGrows, FieldsGrow
  <2>5. polls' \subseteq Poll /\ ballots' \subseteq Node \X Node \X Term
    BY <1>0, <1>1, <2>1, LastIndex DEF RaiseElection, Poll
  <2> QED BY <1>0, <1>1, <2>4, <2>5, GrownInv DEF RaiseElection
<1>2. ASSUME NEW n \in Node, NEW p \in polls, RequestVote(n, p) PROVE LogInv' /\ NodesGrow
  <2>1. p \in Poll /\ node[n].term <= p.term /\ p.cand \in Node /\ p.term \in Term
    BY <1>0, <1>2 DEF RequestVote, Pollable, Poll
  <2>2. PICK r : Grows(node[n], r) /\ node' = [node EXCEPT ![n] = r]
    <3>1. Grows(node[n], Voted(node[n], p)) /\ Grows(node[n], Polled(node[n], p))
      BY <1>0, <2>1, VotedIs, PolledIs
    <3> QED BY <1>2, <3>1 DEF RequestVote
  <2>3. NodesGrow
    BY <2>2, OneGrows
  <2>4. ballots' \subseteq Node \X Node \X Term
    BY <1>0, <1>2, <2>1 DEF RequestVote
  <2> QED BY <1>0, <1>2, <2>3, <2>4, GrownInv DEF RequestVote
<1>3. ASSUME NEW n \in Node, NEW v \in Node, ReactVote(n, v) PROVE LogInv' /\ NodesGrow
  <2> DEFINE s == node[n]
             r == [s EXCEPT !.votes = s.votes \cup {v}]
  <2>1. r \in State /\ r.log = s.log /\ r.applied = s.applied /\ r.commit = s.commit
    <3>1. s.votes \cup {v} \in SUBSET Node
      BY <1>0 DEF State
    <3> QED BY <1>0, <3>1, WithVotes
  <2>2. node' = [node EXCEPT ![n] = r]
    BY <1>0, <1>3 DEF ReactVote
  <2>3. NodesGrow
    <3> HIDE DEF r
    <3> QED BY <1>0, <2>1, <2>2, OneGrows, FieldsGrow
  <2> QED BY <1>0, <1>3, <2>3, GrownInv DEF ReactVote
<1>4. ASSUME NEW n \in Node, StopElection(n) PROVE LogInv' /\ NodesGrow
  <2> DEFINE s == node[n]
             r == [s EXCEPT !.role = "Leader", !.leader = n]
  <2>1. r \in State /\ r.log = s.log /\ r.applied = s.applied /\ r.commit = s.commit
    BY <1>0, AsLeader
  <2>2. node' = [node EXCEPT ![n] = r]
    BY <1>0, <1>4 DEF StopElection
  <2>3. NodesGrow
    <3> HIDE DEF r
    <3> QED BY <1>0, <2>1, <2>2, OneGrows, FieldsGrow
  <2>4. led' \subseteq Node \X Term /\ leaderLog' \in [Term -> Log]
    BY <1>0, <1>4 DEF StopElection
  <2> QED BY <1>0, <1>4, <2>3, <2>4, GrownInv DEF StopElection
<1>5. ASSUME NEW n \in Node, NEW m \in Node, ReactNewTerm(n, m) PROVE LogInv' /\ NodesGrow
  <2>1. Grows(node[n], BiggerTerm(node[n], node[m].term))
    BY <1>0, BiggerTermIs
  <2>2. node' = [node EXCEPT ![n] = BiggerTerm(node[n], node[m].term)]
    BY <1>0, <1>5 DEF ReactNewTerm
  <2>3. NodesGrow
    BY <2>1, <2>2, OneGrows
  <2> QED BY <1>0, <1>5, <2>3, GrownInv DEF ReactNewTerm
<1>6. ASSUME NEW n \in Node, AppendLog(n) PROVE LogInv' /\ NodesGrow
  <2> DEFINE s == node[n]
             last == GetLastIndex(s.log)
             l == [s.log EXCEPT ![last + 1] = s.term]
             r == [s EXCEPT !.log = l]
  <2>1. /\ last \in 0 .. MaxIndex /\ last < MaxIndex /\ last + 1 \in Index
        /\ \A i \in Index : s.log[i] # 0 => i <= last
    BY <1>0, <1>6, LastIndex DEF AppendLog, Index
  <2>2. s.applied < last + 1
    <3>1. s.applied \in 0 .. MaxIndex /\ \A i \in Index : i <= s.applied => s.log[i] # 0
      BY <1>0 DEF Good, State
    <3>2. CASE s.applied = 0
      BY <2>1, <3>2
    <3>3. CASE s.applied # 0
      BY <2>1, <3>1, <3>3, BoundAssumption DEF Index
    <3> QED BY <3>2, <3>3
  <2>3. node' = [node EXCEPT ![n] = r]
    BY <1>0, <1>6 DEF AppendLog
  <2> HIDE DEF last
  <2>4. l \in Log /\ \A i \in Index : i <= s.applied => l[i] = s.log[i]
    <3>1. s.log \in Log /\ s.term \in Term /\ s.applied \in 0 .. MaxIndex
      BY <1>0
    <3>2. l \in Log
      BY <2>1, <3>1 DEF Log
    <3>3. \A i \in Index : i <= s.applied => i # last + 1
      BY <2>1, <2>2, <3>1 DEF Index
    <3>4. \A i \in Index : i # last + 1 => l[i] = s.log[i]
      BY <3>1 DEF Log
    <3> QED BY <3>2, <3>3, <3>4
  <2> HIDE DEF l
  <2>5. r \in State /\ r.log = l /\ r.applied = s.applied /\ r.commit = s.commit
    BY <1>0, <2>4, WithLog
  <2> HIDE DEF r
  <2>6. Grows(s, r)
    BY <1>0, <2>4, <2>5 DEF Good, Grows
  <2>7. NodesGrow
    BY <2>3, <2>6, OneGrows
  <2>8. match' \in [Node -> [Term -> 0 .. MaxIndex]] /\ leaderLog' \in [Term -> Log]
    <3>1. s.term \in Term
      BY <1>0
    <3>2. /\ match' = [match EXCEPT ![n][s.term] = last + 1]
          /\ leaderLog' = [leaderLog EXCEPT ![s.term][last + 1] = s.term]
      BY <1>6 DEF AppendLog, last
    <3>3. match' \in [Node -> [Term -> 0 .. MaxIndex]]
      <4>1. last + 1 \in 0 .. MaxIndex
        BY <2>1 DEF Index
      <4>2. [match[n] EXCEPT ![s.term] = last + 1] \in [Term -> 0 .. MaxIndex]
        BY <1>0, <4>1
      <4> QED BY <1>0, <3>2, <4>2
    <3>4. leaderLog' \in [Term -> Log]
      <4>1. [leaderLog[s.term] EXCEPT ![last + 1] = s.term] \in Log
        BY <1>0, <2>1, <3>1 DEF Log
      <4> QED BY <1>0, <3>2, <4>1
    <3> QED BY <3>3, <3>4
  <2> QED BY <1>0, <1>6, <2>7, <2>8, GrownInv DEF AppendLog
<1>7. ASSUME NEW n \in Node, NEW i \in 0 .. MaxIndex, NEW k \in 0 .. MaxIndex, SendEntries(n, i, k)
      PROVE  LogInv' /\ NodesGrow
  <2> DEFINE e == [j \in Index |-> IF i <= j /\ j <= k THEN node[n].log[j] ELSE 0]
  <2>1. e \in Log
    <3>1. 0 \in Term /\ \A j \in Index : node[n].log[j] \in Term
      BY <1>0, BoundAssumption DEF Log, Term
    <3> QED BY <3>1 DEF Log
  <2> HIDE DEF e
  <2>2. [from |-> n, term |-> node[n].term, prev |-> i, commit |-> node[n].commit, log |-> e] \in Append
    BY <1>0, <2>1 DEF Append
  <2>3. appends' \subseteq Append
    BY <1>0, <1>7, <2>2 DEF SendEntries, e
  <2>4. NodesGrow
    BY <1>7, NoneGrows DEF SendEntries
  <2> QED BY <1>0, <1>7, <2>3, <2>4, GrownInv DEF SendEntries
<1>8. ASSUME NEW n \in Node, NEW m \in appends, AppendEntries(n, m) PROVE LogInv' /\ NodesGrow
  <2>1. m \in Append /\ m.term \in Term /\ ~Denied(node[n], m)
    BY <1>0, <1>8 DEF AppendEntries, Append
  <2>2. NodesGrow
    BY <1>0, <1>8, <2>1, AppendedIs, OneGrows DEF AppendEntries
  <2>3. match' \in [Node -> [Term -> 0 .. MaxIndex]]
    <3> DEFINE T == Taken(Follow(node[n], m), m) \cup {match[n][m.term]}
               g == Greatest(T)
    <3>1. g \in 0 .. MaxIndex
      <4>1. match[n][m.term] \in 0 .. MaxIndex
        BY <1>0, <2>1
      <4>2. T \in SUBSET (0 .. MaxIndex) /\ T # {}
        BY <2>1, <4>1, TakenIs
      <4> HIDE DEF T
      <4> QED BY <4>2, GreatestOf
    <3>2. match' = [match EXCEPT ![n][m.term] = g] \/ match' = match
      BY <1>8 DEF AppendEntries
    <3> HIDE DEF g
    <3>3. [match[n] EXCEPT ![m.term] = g] \in [Term -> 0 .. MaxIndex]
      BY <1>0, <3>1
    <3> QED BY <1>0, <3>2, <3>3
  <2>4. forgot' \subseteq Node \X Term /\ slips' \subseteq Slip
    BY <1>0, <1>8, <2>1 DEF AppendEntries, AppendSlips, Slip
  <2> QED BY <1>0, <1>8, <2>2, <2>3, <2>4, GrownInv DEF AppendEntries
<1>9. ASSUME NEW n \in Node, NEW i \in Index, SetCommitIndex(n, i) PROVE LogInv' /\ NodesGrow
  <2> DEFINE s == node[n]
             r == [s EXCEPT !.commit = i]
  <2>1. r \in State /\ r.log = s.log /\ r.applied = s.applied /\ r.commit = i
    BY <1>0, WithCommit DEF Index
  <2>2. node' = [node EXCEPT ![n] = r] /\ s.applied <= i
    BY <1>0, <1>9 DEF SetCommitIndex, Index
  <2>3. NodesGrow
    <3> HIDE DEF r
    <3> QED BY <1>0, <2>1, <2>2, OneGrows, FieldsGrow
  <2>4. slips' \subseteq Slip
    BY <1>0, <1>9 DEF SetCommitIndex, Slip
  <2> QED BY <1>0, <1>9, <2>3, <2>4, GrownInv DEF SetCommitIndex
<1>10. ASSUME NEW n \in Node, LeaderApplies(n) PROVE LogInv' /\ NodesGrow
  <2>1. Grows(node[n], ApplyLogs(node[n])) /\ node' = [node EXCEPT ![n] = ApplyLogs(node[n])]
    BY <1>0, <1>10, ApplyGrows DEF LeaderApplies
  <2>2. NodesGrow
    BY <2>1, OneGrows
  <2> QED BY <1>0, <1>10, <2>2, GrownInv DEF LeaderApplies
<1>11. ASSUME NEW n \in Node, NEW r, Crash(n, r), Grows(node[n], r),
              forgot' \subseteq Node \X Term, slips' \subseteq Slip
       PROVE  LogInv' /\ NodesGrow
  <2>1. NodesGrow
    BY <1>0, <1>11, RestartGrows, OneGrows DEF Crash
  <2> QED BY <1>0, <1>11, <2>1, GrownInv DEF Crash
<1>12. ASSUME NEW n \in Node, CrashIdle(n) PROVE LogInv' /\ NodesGrow
  BY <1>0, <1>11, <1>12, AllGood DEF CrashIdle
<1>13. ASSUME NEW n \in Node, CrashInElection(n) PROVE LogInv' /\ NodesGrow
  <2> DEFINE r == [node[n] EXCEPT !.term = node[n].term + 1]
  <2>1. r \in State /\ r.log = node[n].log /\ r.applied = node[n].applied /\ r.commit = node[n].commit
    <3>1. node[n].term + 1 \in Term
      BY <1>0, <1>13 DEF CrashInElection, Term
    <3> QED BY <1>0, <3>1, WithTerm
  <2>2. Crash(n, r) /\ forgot' = forgot /\ slips' = slips
    BY <1>13 DEF CrashInElection
  <2> HIDE DEF r
  <2>3. Grows(node[n], r)
    BY <1>0, <2>1, FieldsGrow
  <2> QED BY <1>0, <1>11, <2>2, <2>3
<1>14. ASSUME NEW n \in Node, NEW p \in polls, CrashInRequestVote(n, p) PROVE LogInv' /\ NodesGrow
  <2> DEFINE b == BiggerTerm(node[n], p.term)
  <2>1. p.term \in Term
    BY <1>0 DEF Poll
  <2>2. Grows(node[n], b) /\ Good(b)
    BY <1>0, <2>1, BiggerTermIs DEF Grows
  <2>3. PICK r \in {b, ForgetVote(b)} : Crash(n, r)
    BY <1>14 DEF CrashInRequestVote
  <2> HIDE DEF b
  <2>4. Grows(node[n], r)
    BY <1>0, <2>2, <2>3, ForgetVoteIs, GrowsTrans
  <2> QED BY <1>0, <1>11, <1>14, <2>3, <2>4 DEF CrashInRequestVote
<1>15. ASSUME NEW n \in Node, NEW m \in appends, CrashInAppend(n, m) PROVE LogInv' /\ NodesGrow
  <2>1. m \in Append /\ m.term \in Term /\ ~Denied(node[n], m)
    BY <1>0, <1>15 DEF CrashInAppend, Append
  <2>2. PICK r \in CutShort(node[n], m) :
            /\ Crash(n, r)
            /\ forgot' = IF r \in {node[n], Follow(node[n], m)} THEN forgot ELSE forgot \cup {<<n, m.term>>}
            /\ slips' = slips \cup AppendSlips(node[n], r, m)
    BY <1>15 DEF CrashInAppend
  <2>3. Grows(node[n], r)
    BY <1>0, <2>1, <2>2, CutShortIs
  <2>4. forgot' \subseteq Node \X Term /\ slips' \subseteq Slip
    BY <1>0, <2>1, <2>2 DEF AppendSlips, Slip
  <2> QED BY <1>11, <2>2, <2>3, <2>4
<1> QED BY <1>1, <1>2, <1>3, <1>4, <1>5, <1>6, <1>7, <1>8, <1>9, <1>10, <1>12, <1>13, <1>14, <1>15 DEF Next

LEMMA LogInit ==
    ASSUME Init
    PROVE  LogInv
<1> USE BoundAssumption, NodeAssumption
<1> DEFINE s == [role |-> "Follower", leader |-> None, votes |-> {}, commit |-> 0,
                 term |-> 0, votedFor |-> None, log |-> [i \in Index |-> 0], applied |-> 0]
<1>1. s \in State /\ s.applied = 0 /\ s.commit = 0
  BY DEF State, Term, Log
<1>2. node = [n \in Node |-> s]
  BY DEF Init
<1> HIDE DEF s
<1>3. node \in [Node -> State] /\ \A n \in Node : node[n].applied = 0 /\ node[n].commit = 0
  BY <1>1, <1>2
<1>4. /\ polls \subseteq Poll /\ appends \subseteq Append /\ crashes \in 0 .. MaxCrashes
      /\ match \in [Node -> [Term -> 0 .. MaxIndex]] /\ forgot \subseteq Node \X Term
      /\ ballots \subseteq Node \X Node \X Term /\ led \subseteq Node \X Term /\ slips \subseteq Slip
      /\ leaderLog \in [Term -> Log]
  BY DEF Init, Term, Log
<1> QED BY <1>3, <1>4 DEF LogInv, TypeOK, AppliedKept, Index

LEMMA LogStutter ==
    ASSUME LogInv, UNCHANGED vars
    PROVE  LogInv' /\ NodesGrow
BY NoneGrows DEF vars, LogInv, TypeOK, AppliedKept

\* Every variable has its type, and every applied entry is in the log: AppliedKept is
\* what keeps a commit index that is cut to the last index above the applied one.
THEOREM LogSafety == Spec => []LogInv
<1>1. Init => LogInv
  BY LogInit
<1>2. LogInv /\ [Next]_vars => LogInv'
  BY LogStep, LogStutter
<1> QED BY <1>1, <1>2, PTL DEF Spec

\* What a node applied stays applied and in its log, whatever AppendEntries cuts and
\* wherever inside a handler it crashes.
THEOREM AppliedSafety == Spec => AppliedIsFinal
<1>1. LogInv /\ [Next]_vars =>
        [\A n \in Node :
            /\ node[n].applied <= node'[n].applied
            /\ \A i \in Index : i <= node[n].applied => node'[n].log[i] = node[n].log[i]]_vars
  BY LogStep DEF NodesGrow, Grows
<1> QED BY <1>1, LogSafety, PTL DEF Spec, AppliedIsFinal

--------------------------------------------------------------------------------
\* Elections

\* A node whose term does not go back, that keeps its vote within a term or was made to
\* forget it, and that is a candidate with no more than the votes given to it.
Calm(n) ==
    /\ node[n].term <= node'[n].term
    /\ node'[n].term = node[n].term =>
         node'[n].votedFor = node[n].votedFor \/ <<n, node[n].term>> \in forgot'
    /\ node'[n].role = "Candidate" =>
         /\ node[n].role = "Candidate" /\ node'[n].term = node[n].term
         /\ \A v \in node'[n].votes :
              v \in node[n].votes \/ (v # n /\ <<v, n, node[n].term>> \in ballots)

ForgotGrows == forgot \subseteq forgot'

LEMMA BallotTypes ==
    ASSUME LogInv
    PROVE  /\ \A b \in ballots : b[1] \in Node /\ b[2] \in Node /\ b[3] \in Nat
           /\ \A n \in Node : node[n].term \in Nat
<1>1. \A b \in ballots : b[1] \in Node /\ b[2] \in Node /\ b[3] \in Term
  <2>1. ballots \subseteq Node \X Node \X Term
    BY DEF LogInv, TypeOK
  <2> QED BY <2>1
<1>2. \A n \in Node : node[n] \in State
  BY DEF LogInv, TypeOK
<1>3. \A n \in Node : node[n].term \in Term
  BY <1>2 DEF State
<1>4. Term \subseteq Nat
  BY BoundAssumption DEF Term
<1> QED BY <1>1, <1>2, <1>3, <1>4

LEMMA CalmStep ==
    ASSUME LogInv, LogInv', VoteInv, ballots' = ballots, led' = led, ForgotGrows, \A n \in Node : Calm(n)
    PROVE  VoteInv'
<1>0. /\ \A b \in ballots : b[1] \in Node /\ b[2] \in Node /\ b[3] \in Nat
      /\ \A n \in Node : node[n].term \in Nat
      /\ \A n \in Node : node'[n].term \in Nat
  <2>1. \A n \in Node : node'[n] \in State
    BY DEF LogInv, TypeOK
  <2>2. \A n \in Node : node'[n].term \in Term
    BY <2>1 DEF State
  <2> QED BY <2>2, BallotTypes, BoundAssumption DEF Term
<1>1. VotesRemembered'
  <2> SUFFICES ASSUME NEW b \in ballots
               PROVE  /\ b[3] <= node'[b[1]].term
                      /\ b[3] = node'[b[1]].term =>
                            node'[b[1]].votedFor = b[2] \/ <<b[1], b[3]>> \in forgot'
    BY DEF VotesRemembered
  <2>1. /\ b[1] \in Node /\ b[3] <= node[b[1]].term
        /\ b[3] = node[b[1]].term => node[b[1]].votedFor = b[2] \/ <<b[1], b[3]>> \in forgot
    BY <1>0 DEF VoteInv, VotesRemembered
  <2>2. /\ node[b[1]].term <= node'[b[1]].term
        /\ node'[b[1]].term = node[b[1]].term =>
             \/ node'[b[1]].votedFor = node[b[1]].votedFor
             \/ <<b[1], node[b[1]].term>> \in forgot'
    BY <2>1 DEF Calm
  <2>0. forgot \subseteq forgot'
    BY DEF ForgotGrows
  <2>3. CASE b[3] # node'[b[1]].term
    BY <1>0, <2>1, <2>2, <2>3
  <2>4. CASE b[3] = node'[b[1]].term
    <3>1. b[3] = node[b[1]].term /\ node'[b[1]].term = node[b[1]].term
      BY <1>0, <2>1, <2>2, <2>4
    <3> QED BY <1>0, <2>0, <2>1, <2>2, <2>4, <3>1
  <2> QED BY <2>3, <2>4
<1>2. VotedAgain' /\ LedByVotes'
  BY DEF VoteInv, VotedAgain, LedByVotes, ForgotGrows
<1>3. VotesCounted'
  BY DEF VoteInv, VotesCounted, Calm
<1> QED BY <1>1, <1>2, <1>3 DEF VoteInv

\* A step of one node that is calm.
LEMMA CalmOne ==
    ASSUME LogInv, LogInv', VoteInv, ballots' = ballots, led' = led,
           ForgotGrows, NEW n \in Node, \A k \in Node \ {n} : node'[k] = node[k],
           Calm(n)
    PROVE  VoteInv'
<1>1. ASSUME NEW k \in Node \ {n} PROVE Calm(k)
  BY BallotTypes DEF Calm
<1> QED BY <1>1, CalmStep

\* A vote in a term the voter has not reached, or in its term when it remembers no other.
LEMMA NewBallot ==
    ASSUME LogInv, VoteInv, led' = led, forgot' = forgot,
           NEW n \in Node, NEW c \in Node, NEW t \in Term,
           ballots' = ballots \cup {<<n, c, t>>},
           \A k \in Node \ {n} : node'[k] = node[k],
           node'[n].term = t, node'[n].votedFor = c,
           node'[n].role = "Candidate" => n = c /\ node'[n].votes = {},
           \/ node[n].term < t
           \/ node[n].term = t /\ node[n].votedFor \in {None, c}
    PROVE  VoteInv'
<1>0. /\ \A b \in ballots : b[1] \in Node /\ b[2] \in Node /\ b[2] # None /\ b[3] \in Nat
      /\ \A k \in Node : node[k].term \in Nat
      /\ t \in Nat
  BY BallotTypes, BoundAssumption, NodeAssumption DEF Term
<1>1. \A b \in ballots : b[1] = n => b[3] <= t /\ (b[3] = t => b[2] = c \/ <<n, t>> \in forgot)
  <2> SUFFICES ASSUME NEW b \in ballots, b[1] = n
               PROVE  b[3] <= t /\ (b[3] = t => b[2] = c \/ <<n, t>> \in forgot)
    OBVIOUS
  <2>1. /\ b[3] <= node[n].term
        /\ b[3] = node[n].term => node[n].votedFor = b[2] \/ <<n, b[3]>> \in forgot
    BY DEF VoteInv, VotesRemembered
  <2> QED BY <1>0, <2>1
<1>2. VotesRemembered'
  <2> SUFFICES ASSUME NEW b \in ballots'
               PROVE  /\ b[3] <= node'[b[1]].term
                      /\ b[3] = node'[b[1]].term =>
                            node'[b[1]].votedFor = b[2] \/ <<b[1], b[3]>> \in forgot
    BY DEF VotesRemembered
  <2>1. CASE b = <<n, c, t>>
    BY <1>0, <2>1
  <2>2. CASE b \in ballots /\ b[1] = n
    BY <1>1, <2>2
  <2>3. CASE b \in ballots /\ b[1] # n
    BY <1>0, <2>3 DEF VoteInv, VotesRemembered
  <2> QED BY <2>1, <2>2, <2>3
<1>3. VotedAgain'
  <2> SUFFICES ASSUME NEW a \in ballots', NEW b \in ballots', a[1] = b[1], a[3] = b[3]
               PROVE  a[2] = b[2] \/ <<a[1], a[3]>> \in forgot
    BY DEF VotedAgain
  <2>1. CASE a \in ballots /\ b \in ballots
    BY <2>1 DEF VoteInv, VotedAgain
  <2>2. CASE a = <<n, c, t>> /\ b \in ballots
    BY <1>1, <2>2
  <2>3. CASE a \in ballots /\ b = <<n, c, t>>
    BY <1>1, <2>3
  <2>4. a \in ballots \cup {<<n, c, t>>} /\ b \in ballots \cup {<<n, c, t>>}
    OBVIOUS
  <2> QED BY <2>1, <2>2, <2>3, <2>4
<1>4. VotesCounted'
  <2> SUFFICES ASSUME NEW k \in Node, node'[k].role = "Candidate"
               PROVE  /\ <<k, k, node'[k].term>> \in ballots'
                      /\ \A v \in node'[k].votes : v # k /\ <<v, k, node'[k].term>> \in ballots'
    BY DEF VotesCounted
  <2>1. CASE k = n
    BY <2>1
  <2>2. CASE k # n
    BY <2>2 DEF VoteInv, VotesCounted
  <2> QED BY <2>1, <2>2
<1>5. LedByVotes'
  BY DEF VoteInv, LedByVotes
<1> QED BY <1>2, <1>3, <1>4, <1>5 DEF VoteInv

\* The majority a candidate waits for, and itself, are at least half of the group.
LEMMA MajorityWithItself ==
    ASSUME NEW V \in SUBSET Node, NEW n \in Node, n \notin V, Cardinality(V) >= MemberMajority
    PROVE  V \cup {n} \in Winning
<1>1. /\ IsFiniteSet(V) /\ Cardinality(V) \in Nat /\ Cardinality(Node) \in Nat
      /\ Cardinality(V \cup {n}) = Cardinality(V) + 1
  BY NodeAssumption, FS_Subset, FS_CardinalityType, FS_AddElement
<1>2. 2 * (Cardinality(V) + 1) >= Cardinality(Node)
  BY <1>1 DEF MemberMajority
<1> QED BY <1>1, <1>2 DEF Winning

\* A crash that keeps vote and term, or moves to a newer term, or follows the call of a
\* leader, is calm: the vote is persisted after the term, never before it.
LEMMA CrashCalm ==
    ASSUME LogInv, LogInv', VoteInv, NEW n \in Node, NEW r, Crash(n, r), Grows(node[n], r),
           ForgotGrows, node[n].term <= r.term,
           r.term = node[n].term =>
             r.votedFor = node[n].votedFor \/ <<n, node[n].term>> \in forgot'
    PROVE  VoteInv'
<1>1. node' = [node EXCEPT ![n] = Restarted(r)] /\ node \in [Node -> State]
      /\ ballots' = ballots /\ led' = led
  BY DEF Crash, LogInv, TypeOK
<1>2. /\ Restarted(r).term = r.term /\ Restarted(r).votedFor = r.votedFor
      /\ Restarted(r).role = "Follower"
  BY AllGood, RestartGrows
<1>3. node'[n] = Restarted(r) /\ \A k \in Node \ {n} : node'[k] = node[k]
  BY <1>1
<1>4. Calm(n)
  BY <1>2, <1>3 DEF Calm
<1> QED BY <1>1, <1>3, <1>4, CalmOne

\* Every step keeps what there is to say about votes.
LEMMA VoteStep ==
    ASSUME LogInv, LogInv', VoteInv, Next
    PROVE  VoteInv'
<1>0. /\ \A n \in Node : Good(node[n]) /\ node[n] \in State /\ Grows(node[n], node[n])
      /\ \A n \in Node : node[n].term \in Nat /\ node[n].term \in Term
      /\ node \in [Node -> State]
      /\ polls \subseteq Poll /\ appends \subseteq Append
  <2>1. \A n \in Node : node[n].term \in Term
    BY AllGood DEF State
  <2> QED BY <2>1, AllGood, BallotTypes DEF LogInv, TypeOK
<1>1. ASSUME NEW n \in Node, RaiseElection(n) PROVE VoteInv'
  <2> DEFINE t == node[n].term + 1
             r == Raised(node[n], n, t)
  <2>1. t \in Term /\ node[n].term < t
    BY <1>0, <1>1, BoundAssumption DEF RaiseElection, Term
  <2>2. node' = [node EXCEPT ![n] = r]
    BY <1>0, <1>1 DEF RaiseElection, Raised
  <2>3. r.term = t /\ r.votedFor = n /\ r.votes = {}
    BY <1>0, <2>1, AsCandidate
  <2>4. ballots' = ballots \cup {<<n, n, t>>} /\ led' = led /\ forgot' = forgot
    BY <1>1 DEF RaiseElection
  <2> HIDE DEF r, t
  <2>5. node'[n] = r /\ \A k \in Node \ {n} : node'[k] = node[k]
    BY <1>0, <2>2
  <2> QED BY <2>1, <2>3, <2>4, <2>5, NewBallot
<1>2. ASSUME NEW n \in Node, NEW p \in polls, RequestVote(n, p) PROVE VoteInv'
  <2>1. /\ p \in Poll /\ node[n].term <= p.term /\ p.cand \in Node /\ p.term \in Term /\ p.cand # n
        /\ p.term \in Nat /\ led' = led /\ forgot' = forgot
    BY <1>0, <1>2, BoundAssumption DEF RequestVote, Pollable, Poll, Term
  <2>2. /\ Polled(node[n], p).term = p.term
        /\ \/ node[n].term = p.term /\ Polled(node[n], p) = node[n]
           \/ /\ node[n].term < p.term /\ Polled(node[n], p).role = "Follower"
              /\ Polled(node[n], p).votedFor = None
    BY <1>0, <2>1, PolledIs
  <2>3. CASE Grants(node[n], p)
    <3> DEFINE r == Voted(node[n], p)
    <3>1. r.term = p.term /\ r.role = "Follower" /\ r.votedFor = p.cand
      BY <1>0, <2>1, VotedIs
    <3>2. node' = [node EXCEPT ![n] = r] /\ ballots' = ballots \cup {<<n, p.cand, p.term>>}
      BY <1>2, <2>3 DEF RequestVote
    <3>3. \/ node[n].term < p.term
          \/ node[n].term = p.term /\ node[n].votedFor \in {None, p.cand}
      BY <2>1, <2>2, <2>3 DEF Grants
    <3> HIDE DEF r
    <3>4. node'[n] = r /\ \A k \in Node \ {n} : node'[k] = node[k]
      BY <1>0, <3>2
    <3> QED BY <2>1, <3>1, <3>2, <3>3, <3>4, NewBallot
  <2>4. CASE ~Grants(node[n], p)
    <3> DEFINE r == Polled(node[n], p)
    <3>1. node' = [node EXCEPT ![n] = r] /\ ballots' = ballots
      BY <1>2, <2>4 DEF RequestVote
    <3> HIDE DEF r
    <3>2. node'[n] = r /\ \A k \in Node \ {n} : node'[k] = node[k]
      BY <1>0, <3>1
    <3>3. Calm(n)
      BY <1>0, <2>1, <2>2, <3>2 DEF Calm, r
    <3> QED BY <2>1, <3>1, <3>2, <3>3, CalmOne DEF ForgotGrows
  <2> QED BY <2>3, <2>4
<1>3. ASSUME NEW n \in Node, NEW v \in Node, ReactVote(n, v) PROVE VoteInv'
  <2> DEFINE r == [node[n] EXCEPT !.votes = node[n].votes \cup {v}]
  <2>1. node' = [node EXCEPT ![n] = r] /\ ballots' = ballots /\ led' = led /\ forgot' = forgot
    BY <1>0, <1>3 DEF ReactVote
  <2>2. /\ r.votes = node[n].votes \cup {v} /\ r.term = node[n].term
        /\ r.role = node[n].role /\ r.votedFor = node[n].votedFor
    <3>1. node[n].votes \cup {v} \in SUBSET Node
      BY <1>0 DEF State
    <3> QED BY <1>0, <3>1, WithVotes
  <2> HIDE DEF r
  <2>3. node'[n] = r /\ \A k \in Node \ {n} : node'[k] = node[k]
    BY <1>0, <2>1
  <2>4. v # n /\ <<v, n, node[n].term>> \in ballots
    BY <1>3 DEF ReactVote
  <2>5. Calm(n)
    BY <1>0, <2>1, <2>2, <2>3, <2>4 DEF Calm
  <2> QED BY <2>1, <2>3, <2>5, CalmOne DEF ForgotGrows
<1>4. ASSUME NEW n \in Node, StopElection(n) PROVE VoteInv'
  <2> DEFINE r == [node[n] EXCEPT !.role = "Leader", !.leader = n]
             V == node[n].votes
             t == node[n].term
  <2>1. /\ node' = [node EXCEPT ![n] = r] /\ ballots' = ballots /\ forgot' = forgot
        /\ led' = led \cup {<<n, t>>} /\ node[n].role = "Candidate"
        /\ Cardinality(V) >= MemberMajority
    BY <1>0, <1>4 DEF StopElection
  <2>2. r.role = "Leader" /\ r.term = t /\ r.votedFor = node[n].votedFor
    BY <1>0, AsLeader
  <2> HIDE DEF r
  <2>3. node'[n] = r /\ \A k \in Node \ {n} : node'[k] = node[k]
    BY <1>0, <2>1
  <2>4. <<n, n, t>> \in ballots /\ \A v \in V : v # n /\ <<v, n, t>> \in ballots
    BY <2>1 DEF VoteInv, VotesCounted
  <2>5. V \cup {n} \in Winning
    <3>1. V \in SUBSET Node /\ n \notin V
      BY <1>0, <2>4 DEF State
    <3> QED BY <2>1, <3>1, MajorityWithItself
  <2>6. \A v \in V \cup {n} : <<v, n, t>> \in ballots
    BY <2>4
  <2>7. LedByVotes'
    <3> SUFFICES ASSUME NEW l \in led'
                 PROVE  \E Q \in Winning : \A v \in Q : <<v, l[1], l[2]>> \in ballots
      BY <2>1 DEF LedByVotes
    <3>1. CASE l \in led
      BY <3>1 DEF VoteInv, LedByVotes
    <3>2. CASE l = <<n, t>>
      BY <2>5, <2>6, <3>2
    <3> QED BY <2>1, <3>1, <3>2
  <2>8. VotesRemembered' /\ VotedAgain'
    <3>1. \A k \in Node : node'[k].term = node[k].term /\ node'[k].votedFor = node[k].votedFor
      BY <2>2, <2>3
    <3>2. \A b \in ballots : b[1] \in Node
      BY BallotTypes
    <3> QED BY <2>1, <3>1, <3>2 DEF VoteInv, VotesRemembered, VotedAgain
  <2>9. VotesCounted'
    <3> SUFFICES ASSUME NEW k \in Node, node'[k].role = "Candidate"
                 PROVE  /\ <<k, k, node'[k].term>> \in ballots
                        /\ \A v \in node'[k].votes : v # k /\ <<v, k, node'[k].term>> \in ballots
      BY <2>1 DEF VotesCounted
    <3>1. node'[k] = node[k]
      BY <2>2, <2>3
    <3> QED BY <3>1 DEF VoteInv, VotesCounted
  <2> QED BY <2>7, <2>8, <2>9 DEF VoteInv
<1>5. ASSUME NEW n \in Node, NEW m \in Node, ReactNewTerm(n, m) PROVE VoteInv'
  <2> DEFINE r == BiggerTerm(node[n], node[m].term)
  <2>1. /\ node' = [node EXCEPT ![n] = r] /\ ballots' = ballots /\ led' = led /\ forgot' = forgot
        /\ node[m].term > node[n].term
    BY <1>5 DEF ReactNewTerm
  <2>2. r.term = node[m].term /\ r.role = "Follower"
    BY <1>0, BiggerTermIs
  <2> HIDE DEF r
  <2>3. node'[n] = r /\ \A k \in Node \ {n} : node'[k] = node[k]
    BY <1>0, <2>1
  <2>4. Calm(n)
    BY <1>0, <2>1, <2>2, <2>3 DEF Calm
  <2> QED BY <2>1, <2>3, <2>4, CalmOne DEF ForgotGrows
<1>6. ASSUME NEW n \in Node, NEW r \in State, node' = [node EXCEPT ![n] = r], Stays(node[n], r),
             ballots' = ballots, led' = led, forgot' = forgot
      PROVE  VoteInv'
  <2>1. node'[n] = r /\ \A k \in Node \ {n} : node'[k] = node[k]
    BY <1>0, <1>6
  <2>2. Calm(n)
    BY <1>0, <1>6, <2>1 DEF Calm, Stays
  <2> QED BY <1>6, <2>1, <2>2, CalmOne DEF ForgotGrows
<1>7. ASSUME NEW n \in Node, AppendLog(n) PROVE VoteInv'
  <2> DEFINE r == [node[n] EXCEPT !.log = [node[n].log EXCEPT ![GetLastIndex(node[n].log) + 1] = node[n].term]]
  <2>1. node' = [node EXCEPT ![n] = r] /\ ballots' = ballots /\ led' = led /\ forgot' = forgot
    BY <1>0, <1>7 DEF AppendLog
  <2>2. Stays(node[n], r)
    BY <1>0 DEF Stays, State
  <2> HIDE DEF r
  <2>3. r \in State
    <3>1. node' \in [Node -> State] /\ node'[n] = r
      BY <1>0, <2>1 DEF LogInv, TypeOK
    <3> QED BY <3>1
  <2> QED BY <1>6, <2>1, <2>2, <2>3
<1>8. ASSUME NEW n \in Node, NEW i \in 0 .. MaxIndex, NEW k \in 0 .. MaxIndex, SendEntries(n, i, k)
      PROVE  VoteInv'
  <2>1. node' = node /\ ballots' = ballots /\ led' = led /\ forgot' = forgot
    BY <1>8 DEF SendEntries
  <2> QED BY <2>1 DEF VoteInv, VotesRemembered, VotedAgain, VotesCounted, LedByVotes
<1>9. ASSUME NEW n \in Node, NEW m \in appends, AppendEntries(n, m) PROVE VoteInv'
  <2> DEFINE r == Appended(node[n], m)
  <2>1. /\ m \in Append /\ ~Denied(node[n], m) /\ node' = [node EXCEPT ![n] = r]
        /\ forgot' = forgot \cup {<<n, m.term>>} /\ ballots' = ballots /\ led' = led
    BY <1>0, <1>9 DEF AppendEntries
  <2>2. /\ r.term = m.term /\ node[n].term <= m.term
        /\ r.role = "Candidate" =>
             node[n].role = "Candidate" /\ node[n].term = m.term /\ r.votes = node[n].votes
    BY <1>0, <2>1, AppendedIs
  <2> HIDE DEF r
  <2>3. node'[n] = r /\ \A k \in Node \ {n} : node'[k] = node[k]
    BY <1>0, <2>1
  <2>4. Calm(n)
    BY <1>0, <2>1, <2>2, <2>3 DEF Calm
  <2> QED BY <2>1, <2>3, <2>4, CalmOne DEF ForgotGrows
<1>10. ASSUME NEW n \in Node, NEW i \in Index, SetCommitIndex(n, i) PROVE VoteInv'
  <2> DEFINE r == [node[n] EXCEPT !.commit = i]
  <2>1. node' = [node EXCEPT ![n] = r] /\ ballots' = ballots /\ led' = led /\ forgot' = forgot
    BY <1>0, <1>10 DEF SetCommitIndex
  <2>2. Stays(node[n], r)
    BY <1>0 DEF Stays, State
  <2> HIDE DEF r
  <2>3. r \in State
    <3>1. node' \in [Node -> State] /\ node'[n] = r
      BY <1>0, <2>1 DEF LogInv, TypeOK
    <3> QED BY <3>1
  <2> QED BY <1>6, <2>1, <2>2, <2>3
<1>11. ASSUME NEW n \in Node, LeaderApplies(n) PROVE VoteInv'
  <2> DEFINE r == ApplyLogs(node[n])
  <2>1. node' = [node EXCEPT ![n] = r] /\ ballots' = ballots /\ led' = led /\ forgot' = forgot
    BY <1>0, <1>11 DEF LeaderApplies
  <2>2. Stays(node[n], r) /\ r \in State
    <3>1. r \in State
      BY <1>0, ApplyGrows DEF Grows, Good
    <3>2. Stays(node[n], r)
      BY <1>0 DEF Stays, State, ApplyLogs
    <3> QED BY <3>1, <3>2
  <2> QED BY <1>6, <2>1, <2>2
<1>12. ASSUME NEW n \in Node, CrashIdle(n) PROVE VoteInv'
  <2>1. Crash(n, node[n]) /\ ForgotGrows
    BY <1>12 DEF CrashIdle, ForgotGrows
  <2>2. Grows(node[n], node[n]) /\ node[n].term <= node[n].term
    BY <1>0
  <2> QED BY <2>1, <2>2, CrashCalm
<1>13. ASSUME NEW n \in Node, CrashInElection(n) PROVE VoteInv'
  <2> DEFINE r == [node[n] EXCEPT !.term = node[n].term + 1]
  <2>1. node[n].term + 1 \in Term /\ node[n].term < MaxTerm
    BY <1>0, <1>13, BoundAssumption DEF CrashInElection, Term
  <2>2. /\ r \in State /\ r.log = node[n].log /\ r.applied = node[n].applied
        /\ r.commit = node[n].commit /\ r.term = node[n].term + 1
    BY <1>0, <2>1, WithTerm
  <2>3. Crash(n, r) /\ ForgotGrows
    BY <1>13 DEF CrashInElection, ForgotGrows
  <2> HIDE DEF r
  <2>4. Grows(node[n], r)
    BY <1>0, <2>2, FieldsGrow DEF Good
  <2>5. node[n].term <= r.term /\ r.term # node[n].term
    BY <1>0, <2>2
  <2> QED BY <2>3, <2>4, <2>5, CrashCalm
<1>14. ASSUME NEW n \in Node, NEW p \in polls, CrashInRequestVote(n, p) PROVE VoteInv'
  <2> DEFINE b == BiggerTerm(node[n], p.term)
  <2>1. p.term \in Term /\ p.term \in Nat /\ node[n].term < p.term /\ ForgotGrows
    BY <1>0, <1>14, BoundAssumption DEF Poll, Term, CrashInRequestVote, ForgotGrows
  <2>2. Grows(node[n], b) /\ Good(b) /\ b.term = p.term
    BY <1>0, <2>1, BiggerTermIs DEF Grows
  <2>3. PICK r \in {b, ForgetVote(b)} : Crash(n, r)
    BY <1>14 DEF CrashInRequestVote
  <2> HIDE DEF b
  <2>4. Grows(node[n], r) /\ r.term = p.term
    BY <1>0, <2>2, <2>3, ForgetVoteIs, GrowsTrans
  <2>5. node[n].term <= r.term /\ r.term # node[n].term
    BY <1>0, <2>1, <2>4
  <2> QED BY <2>1, <2>3, <2>4, <2>5, CrashCalm
<1>15. ASSUME NEW n \in Node, NEW m \in appends, CrashInAppend(n, m) PROVE VoteInv'
  <2>1. m \in Append /\ m.term \in Term /\ m.term \in Nat /\ ~Denied(node[n], m)
    BY <1>0, <1>15, BoundAssumption DEF CrashInAppend, Append, Term
  <2>2. PICK r \in CutShort(node[n], m) :
            /\ Crash(n, r)
            /\ forgot' = IF r \in {node[n], Follow(node[n], m)} THEN forgot ELSE forgot \cup {<<n, m.term>>}
    BY <1>15 DEF CrashInAppend
  <2>3. /\ Grows(node[n], r) /\ node[n].term <= r.term
        /\ r \notin {node[n], Follow(node[n], m)} => r.term = m.term
        /\ r \in {node[n], Follow(node[n], m)} =>
             (r.term = node[n].term /\ r.votedFor = node[n].votedFor) \/ node[n].term < r.term
    BY <1>0, <2>1, <2>2, CutShortIs
  <2>4. /\ ForgotGrows
        /\ \/ r \in {node[n], Follow(node[n], m)}
           \/ <<n, m.term>> \in forgot' /\ r.term = m.term
    BY <1>0, <2>1, <2>2, <2>3 DEF ForgotGrows
  <2>5. r.term = node[n].term =>
          r.votedFor = node[n].votedFor \/ <<n, node[n].term>> \in forgot'
    BY <1>0, <2>1, <2>3, <2>4
  <2> QED BY <2>2, <2>3, <2>4, <2>5, CrashCalm
<1> QED BY <1>1, <1>2, <1>3, <1>4, <1>5, <1>7, <1>8, <1>9, <1>10, <1>11, <1>12, <1>13, <1>14, <1>15 DEF Next

\* Whatever the driver and the network do: votes are remembered within a term although
\* terms and votes are persisted by separate calls and crashes fall in between; only a
\* call of a leader of the term makes a node forget its vote and give another; and every
\* leader has the votes of at least half of the group, itself included.
THEOREM VoteSafety == Spec => [](LogInv /\ VoteInv)
<1>1. Init => LogInv /\ VoteInv
  <2>1. Init => LogInv
    BY LogInit
  <2>2. Init => VoteInv
    BY DEF Init, VoteInv, VotesRemembered, VotedAgain, VotesCounted, LedByVotes
  <2> QED BY <2>1, <2>2
<1>2. LogInv /\ VoteInv /\ [Next]_vars => LogInv' /\ VoteInv'
  <2> SUFFICES ASSUME LogInv, VoteInv, [Next]_vars PROVE LogInv' /\ VoteInv'
    OBVIOUS
  <2>1. CASE Next
    BY <2>1, LogStep, VoteStep
  <2>2. CASE UNCHANGED vars
    <3>1. LogInv'
      BY <2>2, LogStutter
    <3>2. VoteInv'
      BY <2>2 DEF vars, VoteInv, VotesRemembered, VotedAgain, VotesCounted, LedByVotes
    <3> QED BY <3>1, <3>2
  <2> QED BY <2>1, <2>2
<1> QED BY <1>1, <1>2, PTL DEF Spec

\* Two leaders of a term have a voter in common, which voted for one, was made to forget
\* it by a call of a leader of the term, and voted for the other.
LEMMA SecondLeader ==
    ASSUME VoteInv, LogInv
    PROVE  ElectionSafety
<1> SUFFICES ASSUME OddGroup, NEW a \in led, NEW b \in led, a[2] = b[2], a[1] # b[1]
             PROVE  \E v \in Node :
                      /\ <<v, a[2]>> \in forgot
                      /\ <<v, a[1], a[2]>> \in ballots /\ <<v, b[1], b[2]>> \in ballots
  BY DEF ElectionSafety
<1>1. PICK P \in Winning : \A v \in P : <<v, a[1], a[2]>> \in ballots
  BY DEF VoteInv, LedByVotes
<1>2. PICK Q \in Winning : \A v \in Q : <<v, b[1], b[2]>> \in ballots
  BY DEF VoteInv, LedByVotes
<1>3. P \cap Q # {}
  <2>1. /\ P \subseteq Node /\ Q \subseteq Node
        /\ 2 * Cardinality(P) >= Cardinality(Node) /\ 2 * Cardinality(Q) >= Cardinality(Node)
    BY DEF Winning
  <2>2. Cardinality(P) \in Nat /\ Cardinality(Q) \in Nat /\ Cardinality(Node) \in Nat
    BY <2>1, NodeAssumption, FS_Subset, FS_CardinalityType
  <2>3. Cardinality(P) + Cardinality(Q) > Cardinality(Node)
    BY <2>1, <2>2 DEF OddGroup
  <2> QED BY <2>1, <2>3, NodeAssumption, FS_MajoritiesIntersect
<1>4. PICK v \in P \cap Q : TRUE
  BY <1>3
<1>5. v \in Node /\ <<v, a[1], a[2]>> \in ballots /\ <<v, b[1], b[2]>> \in ballots
  BY <1>1, <1>2, <1>4 DEF Winning
<1>6. <<v, a[2]>> \in forgot
  BY <1>5 DEF VoteInv, VotedAgain
<1> QED BY <1>5, <1>6

\* An odd group gives a term a second leader only through a forgotten vote.
THEOREM OneLeaderInATerm == Spec => []ElectionSafety
<1>1. LogInv /\ VoteInv => ElectionSafety
  BY SecondLeader
<1> QED BY <1>1, VoteSafety, PTL

--------------------------------------------------------------------------------
\* Types

LEMMA Numbers ==
    /\ Index \subseteq Nat /\ Term \subseteq Nat /\ 0 \in Term
    /\ \A i \in Index : 1 <= i /\ i <= MaxIndex /\ i \in 0 .. MaxIndex
    /\ \A i \in 0 .. MaxIndex : i \in Nat /\ (i # 0 => i \in Index)
BY BoundAssumption DEF Index, Term

LEMMA Types ==
    ASSUME LogInv
    PROVE  /\ \A n \in Node : /\ node[n] \in State /\ node[n].log \in Log /\ node[n].term \in Term
                              /\ node[n].term \in Nat
                              /\ node[n].commit \in 0 .. MaxIndex /\ node[n].applied \in 0 .. MaxIndex
                              /\ node[n].applied <= node[n].commit
           /\ \A t \in Term : leaderLog[t] \in Log
           /\ \A n \in Node, t \in Term : match[n][t] \in 0 .. MaxIndex /\ match[n][t] \in Nat
           /\ \A m \in appends : /\ m.from \in Node /\ m.term \in Term /\ m.term \in Nat /\ m.log \in Log
                                 /\ m.prev \in 0 .. MaxIndex /\ m.commit \in 0 .. MaxIndex
           /\ \A p \in polls : p.cand \in Node /\ p.term \in Term /\ p.term \in Nat
           /\ \A b \in ballots : b[1] \in Node /\ b[2] \in Node /\ b[3] \in Term /\ b[3] \in Nat
           /\ \A l \in led : l[1] \in Node /\ l[2] \in Term /\ l[2] \in Nat
<1>1. \A n \in Node : node[n] \in State /\ node[n].applied <= node[n].commit
  BY DEF LogInv, TypeOK
<1>2. \A n \in Node : /\ node[n].log \in Log /\ node[n].term \in Term
                      /\ node[n].commit \in 0 .. MaxIndex /\ node[n].applied \in 0 .. MaxIndex
  BY <1>1 DEF State
<1>3. /\ leaderLog \in [Term -> Log] /\ match \in [Node -> [Term -> 0 .. MaxIndex]]
      /\ appends \subseteq Append /\ polls \subseteq Poll
      /\ ballots \subseteq Node \X Node \X Term /\ led \subseteq Node \X Term
  BY DEF LogInv, TypeOK
<1>4. \A n \in Node, t \in Term : match[n][t] \in 0 .. MaxIndex
  BY <1>3
<1>5. \A m \in appends : /\ m.from \in Node /\ m.term \in Term /\ m.log \in Log
                         /\ m.prev \in 0 .. MaxIndex /\ m.commit \in 0 .. MaxIndex
  BY <1>3 DEF Append
<1>6. \A p \in polls : p.cand \in Node /\ p.term \in Term
  BY <1>3 DEF Poll
<1>7. \A b \in ballots : b[1] \in Node /\ b[2] \in Node /\ b[3] \in Term
  BY <1>3
<1>8. \A l \in led : l[1] \in Node /\ l[2] \in Term
  BY <1>3
<1> QED BY <1>1, <1>2, <1>3, <1>4, <1>5, <1>6, <1>7, <1>8, Numbers

\* Who won an election and what a majority has meet.
LEMMA WinnersMeet ==
    ASSUME NEW P \in Winning, NEW Q \in Majority
    PROVE  \E n \in Node : n \in P /\ n \in Q
<1>1. /\ P \subseteq Node /\ Q \subseteq Node
      /\ 2 * Cardinality(P) >= Cardinality(Node) /\ 2 * Cardinality(Q) > Cardinality(Node)
  BY DEF Majority, Winning
<1>2. Cardinality(P) \in Nat /\ Cardinality(Q) \in Nat /\ Cardinality(Node) \in Nat
  BY <1>1, NodeAssumption, FS_Subset, FS_CardinalityType
<1>3. Cardinality(P) + Cardinality(Q) > Cardinality(Node)
  BY <1>1, <1>2
<1>4. P \cap Q # {}
  BY <1>1, <1>3, NodeAssumption, FS_MajoritiesIntersect
<1> QED BY <1>1, <1>4

--------------------------------------------------------------------------------
\* Logs that agree

LEMMA SameShorter ==
    ASSUME NEW l, NEW r, NEW k \in Nat, NEW j \in Nat, j <= k, Same(l, r, k)
    PROVE  Same(l, r, j)
BY Numbers DEF Same

LEMMA SameTrans ==
    ASSUME NEW l, NEW r, NEW q, NEW k \in Nat, Same(l, r, k), Same(r, q, k)
    PROVE  Same(l, q, k) /\ Same(r, l, k)
BY DEF Same

\* An entry is its leader's, with everything below it present and of no later term.
LEMMA MadeIs ==
    ASSUME LogInv, LogsAreLeaders, NEW l \in Log, NEW t \in Term, Made(l, t),
           NEW i \in Index, l[i] # 0
    PROVE  /\ l[i] \in Term /\ l[i] <= t /\ Same(l, leaderLog[l[i]], i)
           /\ leaderLog[l[i]][i] = l[i]
           /\ \A j \in Index : j <= i => l[j] # 0 /\ l[j] <= l[i]
<1>1. l[i] \in Term /\ l[i] <= t /\ Same(l, leaderLog[l[i]], i)
  BY DEF Made, Log
<1>2. leaderLog[l[i]][i] = l[i] /\ \A j \in Index : j <= i => l[j] = leaderLog[l[i]][j]
  BY <1>1, Numbers DEF Same
<1>3. Made(leaderLog[l[i]], l[i]) /\ Dense(leaderLog[l[i]])
  BY <1>1 DEF LogsAreLeaders
<1>4. ASSUME NEW j \in Index, j <= i
      PROVE  l[j] # 0 /\ l[j] <= l[i]
  <2>1. leaderLog[l[i]][j] # 0
    BY <1>2, <1>3, <1>4 DEF Dense
  <2>2. leaderLog[l[i]][j] <= l[i]
    BY <1>3, <2>1 DEF Made
  <2> QED BY <1>2, <1>4, <2>1, <2>2
<1> QED BY <1>1, <1>2, <1>4

\* Logs with the same entry somewhere agree below it.
LEMMA MadeAgree ==
    ASSUME LogInv, LogsAreLeaders, NEW l \in Log, NEW t \in Term, Made(l, t),
           NEW r \in Log, NEW u \in Term, Made(r, u),
           NEW i \in Index, l[i] # 0, l[i] = r[i]
    PROVE  Same(l, r, i)
<1>1. Same(l, leaderLog[l[i]], i) /\ Same(r, leaderLog[l[i]], i)
  BY MadeIs
<1> QED BY <1>1 DEF Same

\* A log that is made of its leaders' ends at GetLastIndex, and has no gap before it.
LEMMA MadeLast ==
    ASSUME LogInv, LogsAreLeaders, NEW l \in Log, NEW t \in Term, Made(l, t)
    PROVE  /\ GetLastIndex(l) \in 0 .. MaxIndex /\ GetLastTerm(l) \in Term
           /\ \A i \in Index : l[i] # 0 <=> i <= GetLastIndex(l)
           /\ \A i \in Index : l[i] # 0 => l[i] <= GetLastTerm(l)
           /\ GetLastIndex(l) # 0 => GetLastIndex(l) \in Index /\ GetLastTerm(l) = l[GetLastIndex(l)]
<1>1. /\ GetLastIndex(l) \in 0 .. MaxIndex /\ GetLastTerm(l) \in Term
      /\ \A i \in Index : l[i] # 0 => i <= GetLastIndex(l)
  BY LastIndex
<1>2. CASE Present(l) = {}
  <2>1. GetLastIndex(l) = 0 /\ \A i \in Index : l[i] = 0
    BY <1>2 DEF GetLastIndex, Present
  <2> QED BY <1>1, <2>1, Numbers
<1>3. CASE Present(l) # {}
  <2> DEFINE e == GetLastIndex(l)
  <2>1. e \in Present(l)
    <3>1. Present(l) \in SUBSET (0 .. MaxIndex)
      BY BoundAssumption DEF Present, Index
    <3> QED BY <1>3, <3>1, GreatestOf DEF GetLastIndex
  <2>2. e \in Index /\ l[e] # 0 /\ GetLastTerm(l) = l[e]
    BY <1>3, <2>1 DEF Present, GetLastTerm
  <2>3. \A j \in Index : j <= e => l[j] # 0 /\ l[j] <= l[e]
    BY <2>2, MadeIs
  <2> QED BY <1>1, <2>2, <2>3
<1> QED BY <1>2, <1>3

--------------------------------------------------------------------------------
\* Committed entries

LEMMA CommittedStands ==
    ASSUME LogInv, NEW t \in Term, NEW k \in Index, Committed(t, k)
    PROVE  ~Blocked(t, k)
<1> SUFFICES ASSUME NEW Q \in Winning, \A f \in Q : t < node[f].term /\ match[f][t] < k
             PROVE  FALSE
  BY DEF Blocked
<1>1. PICK f \in Node : f \in Copied(t, k) /\ f \in Q
  BY WinnersMeet DEF Committed
<1>2. k <= match[f][t] /\ match[f][t] < k
  BY <1>1 DEF Copied
<1> QED BY <1>2, Types, Numbers

LEMMA OwnLed ==
    ASSUME LeadersOwn, NEW t \in Term, NEW k \in Index, leaderLog[t][k] # 0
    PROVE  Led(t)
BY DEF LeadersOwn

\* The leaders of later terms have what was committed.
LEMMA CommittedLater ==
    ASSUME LogInv, LeadersComplete, NEW t \in Term, NEW u \in Term, t <= u, Led(u),
           NEW k \in Index, Committed(t, k)
    PROVE  Same(leaderLog[t], leaderLog[u], k)
<1>1. CASE t = u
  BY <1>1 DEF Same
<1>2. CASE t < u
  BY <1>2, CommittedStands DEF LeadersComplete, Committed
<1> QED BY <1>1, <1>2, Numbers

\* A log that is backed agrees with the leader of any later term.
LEMMA BackedLater ==
    ASSUME LogInv, LeadersComplete, NEW l \in Log, NEW k \in 0 .. MaxIndex,
           NEW t \in Term, NEW u \in Term, t <= u, Led(u), Backed(l, k, t)
    PROVE  Same(l, leaderLog[u], k)
<1>1. CASE k = 0
  BY <1>1, Numbers DEF Same
<1>2. CASE k # 0
  <2>1. PICK v \in Term, j \in Index :
            v <= t /\ k <= j /\ Committed(v, j) /\ Same(l, leaderLog[v], k)
    BY <1>2 DEF Backed
  <2>2. Same(leaderLog[v], leaderLog[u], j)
    BY <2>1, CommittedLater, Numbers
  <2>3. Same(leaderLog[v], leaderLog[u], k)
    BY <2>1, <2>2, SameShorter, Numbers
  <2> QED BY <2>1, <2>3, SameTrans, Numbers
<1> QED BY <1>1, <1>2

\* A log is backed no worse further down, and in a later term.
LEMMA BackedLess ==
    ASSUME NEW l \in Log, NEW k \in 0 .. MaxIndex, NEW j \in 0 .. MaxIndex, j <= k,
           NEW t \in Term, NEW u \in Term, t <= u, Backed(l, k, t)
    PROVE  Backed(l, j, u)
<1> SUFFICES ASSUME j # 0
             PROVE  \E v \in Term, e \in Index :
                        v <= u /\ j <= e /\ Committed(v, e) /\ Same(l, leaderLog[v], j)
  BY DEF Backed
<1>1. k # 0
  BY Numbers
<1>2. PICK v \in Term, e \in Index :
          v <= t /\ k <= e /\ Committed(v, e) /\ Same(l, leaderLog[v], k)
  BY <1>1 DEF Backed
<1>3. v <= u /\ j <= e
  BY <1>2, Numbers
<1>4. Same(l, leaderLog[v], j)
  BY <1>2, SameShorter, Numbers
<1> QED BY <1>2, <1>3, <1>4

\* What is backed is there.
LEMMA BackedPresent ==
    ASSUME LogInv, LogsAreLeaders, NEW l \in Log, NEW k \in 0 .. MaxIndex, NEW t \in Term, Backed(l, k, t)
    PROVE  \A i \in Index : i <= k => l[i] # 0
<1> SUFFICES ASSUME NEW i \in Index, i <= k
             PROVE  l[i] # 0
  OBVIOUS
<1>1. k # 0
  BY Numbers
<1>2. PICK v \in Term, e \in Index :
          v <= t /\ k <= e /\ Committed(v, e) /\ Same(l, leaderLog[v], k)
  BY <1>1 DEF Backed
<1>3. leaderLog[v][e] # 0 /\ Dense(leaderLog[v])
  BY <1>2 DEF Committed, Own, LogsAreLeaders
<1>4. leaderLog[v][i] # 0
  BY <1>2, <1>3, Numbers DEF Dense
<1> QED BY <1>2, <1>4 DEF Same

\* Two nodes have applied the same: the earlier commitment reached the later leader.
LEMMA BackedAgree ==
    ASSUME LogInv, AgreeInv
    PROVE  AppliedAgree
<1> USE DEF AgreeInv
<1>1. ASSUME NEW l \in Log, NEW r \in Log, NEW j \in 0 .. MaxIndex, NEW k \in 0 .. MaxIndex,
             NEW t \in Term, NEW u \in Term, NEW v \in Term, NEW w \in Term,
             NEW d \in Index, NEW e \in Index,
             v <= w, j <= d, k <= e,
             Committed(v, d), Same(l, leaderLog[v], j),
             Committed(w, e), Same(r, leaderLog[w], k),
             NEW i \in Index, i <= j, i <= k
      PROVE  l[i] = r[i]
  <2>1. Led(w)
    BY <1>1, OwnLed DEF Committed, Own
  <2>2. Same(leaderLog[v], leaderLog[w], d)
    BY <1>1, <2>1, CommittedLater
  <2> QED BY <1>1, <2>2, Numbers DEF Same
<1> SUFFICES ASSUME NEW a \in Node, NEW b \in Node, NEW i \in Index,
                    i <= node[a].applied, i <= node[b].applied
             PROVE  node[a].log[i] = node[b].log[i]
  BY DEF AppliedAgree
<1>2. /\ i <= node[a].commit /\ i <= node[b].commit
      /\ node[a].commit # 0 /\ node[b].commit # 0
  <2>1. i \in Nat /\ 1 <= i
    BY Numbers
  <2>2. \A n \in {a, b} : /\ node[n].applied \in 0 .. MaxIndex /\ node[n].commit \in 0 .. MaxIndex
                          /\ node[n].applied <= node[n].commit
    BY Types
  <2> QED BY <2>1, <2>2, BoundAssumption
<1>3. PICK v \in Term, d \in Index :
          /\ v <= node[a].term /\ node[a].commit <= d
          /\ Committed(v, d) /\ Same(node[a].log, leaderLog[v], node[a].commit)
  BY <1>2 DEF CommitsBacked, Backed
<1>4. PICK w \in Term, e \in Index :
          /\ w <= node[b].term /\ node[b].commit <= e
          /\ Committed(w, e) /\ Same(node[b].log, leaderLog[w], node[b].commit)
  BY <1>2 DEF CommitsBacked, Backed
<1>5. \A n \in {a, b} : node[n].log \in Log /\ node[n].commit \in 0 .. MaxIndex /\ node[n].term \in Term
  BY Types
<1> DEFINE l == node[a].log
           r == node[b].log
           j == node[a].commit
           k == node[b].commit
<1>6. l \in Log /\ r \in Log /\ j \in 0 .. MaxIndex /\ k \in 0 .. MaxIndex
      /\ node[a].term \in Term /\ node[b].term \in Term
  BY <1>5
<1>7. /\ Committed(v, d) /\ Same(l, leaderLog[v], j) /\ j <= d /\ i <= j
      /\ Committed(w, e) /\ Same(r, leaderLog[w], k) /\ k <= e /\ i <= k
  BY <1>2, <1>3, <1>4
<1> HIDE DEF l, r, j, k
<1>8. CASE v <= w
  <2>1. l[i] = r[i]
    BY ONLY <1>1, <1>6, <1>7, <1>8, v \in Term, w \in Term, d \in Index, e \in Index, i \in Index
  <2> QED BY <2>1 DEF l, r
<1>9. CASE w <= v
  <2>1. r[i] = l[i]
    BY ONLY <1>1, <1>6, <1>7, <1>9, v \in Term, w \in Term, d \in Index, e \in Index, i \in Index
  <2> QED BY <2>1 DEF l, r
<1> QED BY <1>8, <1>9, Numbers

--------------------------------------------------------------------------------
\* What every step does: terms do not fall, leaders' logs are only extended, and what is
\* counted for a term grows only at nodes that have not left it.
Onward ==
    /\ \A n \in Node : node[n].term <= node'[n].term
    /\ \A t \in Term, i \in Index : leaderLog[t][i] # 0 => leaderLog'[t][i] = leaderLog[t][i]
    /\ \A n \in Node, t \in Term :
        match[n][t] <= match'[n][t] /\ (match'[n][t] # match[n][t] => node[n].term <= t)
    /\ led \subseteq led'

LEMMA OnwardKeeps ==
    ASSUME LogInv, LogInv', LogsAreLeaders, Onward, NEW t \in Term, NEW k \in Index
    PROVE  /\ Own(t, k) => Own(t, k)'
           /\ Committed(t, k) => Committed(t, k)'
           /\ Blocked(t, k) => Blocked(t, k)'
           /\ Led(t) => Led(t)'
           /\ leaderLog[t][k] # 0 => Same(leaderLog[t], leaderLog'[t], k)
<1>1. Own(t, k) => Own(t, k)'
  BY DEF Own, Onward
<1>2. Committed(t, k) => Committed(t, k)'
  <2>1. Copied(t, k) \subseteq Copied(t, k)'
    <3> SUFFICES ASSUME NEW f \in Node, k <= match[f][t]
                 PROVE  k <= match'[f][t]
      BY DEF Copied
    <3>1. match[f][t] <= match'[f][t] /\ match[f][t] \in Nat
      BY Types DEF Onward
    <3>2. match'[f][t] \in Nat
      BY BoundAssumption DEF LogInv, TypeOK
    <3> QED BY <3>1, <3>2, Numbers
  <2>2. Copied(t, k)' \subseteq Node /\ Copied(t, k) \subseteq Node
    BY DEF Copied
  <2>3. /\ Cardinality(Copied(t, k)) <= Cardinality(Copied(t, k)')
        /\ Cardinality(Copied(t, k)) \in Nat /\ Cardinality(Copied(t, k)') \in Nat
        /\ Cardinality(Node) \in Nat
    BY <2>1, <2>2, NodeAssumption, FS_Subset, FS_CardinalityType
  <2>4. Copied(t, k) \in Majority => Copied(t, k)' \in Majority
    BY <2>2, <2>3 DEF Majority
  <2> QED BY <1>1, <2>4 DEF Committed, Majority
<1>3. Blocked(t, k) => Blocked(t, k)'
  <2> SUFFICES ASSUME NEW Q \in Winning, \A f \in Q : t < node[f].term /\ match[f][t] < k
               PROVE  \A f \in Q : t < node'[f].term /\ match'[f][t] < k
    BY DEF Blocked, Winning
  <2> TAKE f \in Q
  <2>1. f \in Node
    BY DEF Winning
  <2>2. node[f].term <= node'[f].term /\ (match'[f][t] # match[f][t] => node[f].term <= t)
    BY <2>1 DEF Onward
  <2>3. node[f].term \in Nat /\ node'[f].term \in Nat /\ t \in Nat
    <3>1. node'[f] \in State
      BY <2>1 DEF LogInv, TypeOK
    <3>2. node'[f].term \in Term
      BY <3>1 DEF State
    <3> QED BY <2>1, <3>2, Types, Numbers
  <2> QED BY <2>2, <2>3
<1>4. Led(t) => Led(t)'
  BY DEF Led, Onward
<1>5. leaderLog[t][k] # 0 => Same(leaderLog[t], leaderLog'[t], k)
  BY DEF LogsAreLeaders, Dense, Onward, Same
<1> QED BY <1>1, <1>2, <1>3, <1>4, <1>5

\* Hence a log that was made of the leaders' is, and what was backed is.
LEMMA OnwardLogs ==
    ASSUME LogInv, LogInv', LogsAreLeaders, Onward, NEW l \in Log, NEW t \in Term
    PROVE  /\ Made(l, t) => \A i \in Index : l[i] # 0 => l[i] <= t /\ Same(l, leaderLog'[l[i]], i)
           /\ \A k \in 0 .. MaxIndex : Backed(l, k, t) /\ k # 0 =>
                \E u \in Term, j \in Index :
                    u <= t /\ k <= j /\ Committed(u, j)' /\ Same(l, leaderLog'[u], k)
<1>1. ASSUME NEW u \in Term, NEW k \in 0 .. MaxIndex, NEW j \in Index, k <= j,
             leaderLog[u][j] # 0, Same(l, leaderLog[u], k)
      PROVE  Same(l, leaderLog'[u], k)
  <2>1. Same(leaderLog[u], leaderLog'[u], j)
    BY <1>1, OnwardKeeps
  <2>2. Same(leaderLog[u], leaderLog'[u], k)
    BY <1>1, <2>1, SameShorter, Numbers
  <2> QED BY <1>1, <2>2, SameTrans, Numbers
<1>2. ASSUME Made(l, t), NEW i \in Index, l[i] # 0
      PROVE  l[i] <= t /\ Same(l, leaderLog'[l[i]], i)
  <2>1. l[i] \in Term /\ l[i] <= t /\ Same(l, leaderLog[l[i]], i) /\ leaderLog[l[i]][i] # 0
    BY <1>2, MadeIs
  <2>2. PICK u \in Term : u = l[i]
    BY <2>1
  <2>3. i \in 0 .. MaxIndex /\ i <= i
    BY Numbers
  <2>4. Same(l, leaderLog'[u], i)
    BY <1>1, <2>1, <2>2, <2>3
  <2> QED BY <2>1, <2>2, <2>4
<1>3. ASSUME NEW k \in 0 .. MaxIndex, Backed(l, k, t), k # 0
      PROVE  \E u \in Term, j \in Index :
                u <= t /\ k <= j /\ Committed(u, j)' /\ Same(l, leaderLog'[u], k)
  <2>1. PICK u \in Term, j \in Index :
            u <= t /\ k <= j /\ Committed(u, j) /\ Same(l, leaderLog[u], k)
    BY <1>3 DEF Backed
  <2>2. leaderLog[u][j] # 0
    BY <2>1 DEF Committed, Own
  <2>3. Same(l, leaderLog'[u], k)
    BY <1>1, <2>1, <2>2
  <2>4. Committed(u, j)'
    BY <2>1, OnwardKeeps
  <2> QED BY <2>1, <2>3, <2>4
<1> QED BY <1>2, <1>3

\* A call that carries a piece of its leader's log goes on doing so.
LEMMA OnwardCalls ==
    ASSUME LogInv, LogInv', LogsAreLeaders, Onward, NEW m \in appends, FromLeader(m)
    PROVE  FromLeader(m)'
<1> DEFINE t == m.term
           c == m.commit
<1>1. t \in Term /\ c \in 0 .. MaxIndex /\ leaderLog[t] \in Log
  BY Types
<1>2. <<m.from, m.term>> \in led'
  BY DEF FromLeader, Onward
<1>3. /\ \A i \in Index : m.log[i] # 0 => m.prev <= i /\ m.log[i] = leaderLog'[t][i]
      /\ \A i \in Index : m.prev <= i /\ i <= GetLastIndex(m.log) => m.log[i] # 0
      /\ m.prev <= GetLastIndex(m.log)
  BY <1>1 DEF FromLeader, Onward
<1>4. c # 0 => \E u \in Term, j \in Index :
          u <= t /\ c <= j /\ Committed(u, j)' /\ Same(leaderLog'[t], leaderLog'[u], c)
  <2> HAVE c # 0
  <2>1. Backed(leaderLog[t], c, t)
    BY DEF FromLeader
  <2>2. PICK u \in Term, j \in Index :
            u <= t /\ c <= j /\ Committed(u, j)' /\ Same(leaderLog[t], leaderLog'[u], c)
    BY <1>1, <2>1, OnwardLogs
  <2>3. c \in Index /\ leaderLog[t][c] # 0
    <3>1. c \in Index /\ c <= c
      BY <1>1, Numbers
    <3> QED BY <1>1, <2>1, <3>1, BackedPresent
  <2>4. Same(leaderLog[t], leaderLog'[t], c)
    BY <1>1, <2>3, OnwardKeeps
  <2>5. Same(leaderLog'[t], leaderLog'[u], c)
    BY <2>2, <2>4 DEF Same
  <2> QED BY <2>2, <2>5
<1> QED BY <1>2, <1>3, <1>4 DEF FromLeader, Backed

--------------------------------------------------------------------------------
\* A step of the nodes, while the leaders' logs stand: what it may make of a node.
Settles(n) ==
    /\ node[n].term <= node'[n].term
    /\ node'[n].role = "Leader" =>
         node[n].role = "Leader" /\ node'[n].term = node[n].term /\ node'[n].log = node[n].log
    /\ Made(node'[n].log, node'[n].term) /\ Dense(node'[n].log)
    /\ Backed(node'[n].log, node'[n].commit, node'[n].term)
    /\ \A t \in Term : match'[n][t] # match[n][t] =>
         match[n][t] < match'[n][t] /\ t = node'[n].term /\ leaderLog[t][match'[n][t]] # 0
    /\ \A t \in Term, k \in Index : k <= match'[n][t] /\ Own(t, k) =>
         Blocked(t, k) \/ Same(node'[n].log, leaderLog[t], k)

LEMMA Settled ==
    ASSUME LogInv, AgreeInv, NEW n \in Node, match'[n] = match[n],
           node'[n].term \in Term, node[n].term <= node'[n].term,
           node'[n].role = "Leader" => node[n].role = "Leader" /\ node'[n].term = node[n].term,
           node'[n].log = node[n].log,
           node'[n].commit \in 0 .. MaxIndex, node'[n].commit <= node[n].commit
    PROVE  Settles(n)
<1>1. /\ node[n].log \in Log /\ node[n].term \in Term /\ node[n].commit \in 0 .. MaxIndex
  BY Types
<1>2. Backed(node[n].log, node[n].commit, node[n].term) /\ Made(node[n].log, node[n].term)
  BY DEF AgreeInv, CommitsBacked, LogsAreLeaders
<1>3. Backed(node'[n].log, node'[n].commit, node'[n].term)
  <2>1. PICK l \in Log, c \in 0 .. MaxIndex, t \in Term :
            l = node[n].log /\ c = node'[n].commit /\ t = node'[n].term
    BY <1>1
  <2>2. Backed(l, c, t)
    BY <1>1, <1>2, <2>1, BackedLess
  <2> QED BY <2>1, <2>2
<1>4. Made(node'[n].log, node'[n].term)
  <2>1. PICK l \in Log, t \in Term, u \in Term :
            l = node[n].log /\ t = node[n].term /\ u = node'[n].term
    BY <1>1
  <2>2. t <= u /\ t \in Nat /\ u \in Nat /\ \A i \in Index : l[i] \in Nat
    BY <2>1, Numbers DEF Log
  <2>3. Made(l, u)
    BY <1>2, <2>1, <2>2 DEF Made
  <2> QED BY <2>1, <2>3
<1>5. \A t \in Term, k \in Index : k <= match'[n][t] /\ Own(t, k) =>
         Blocked(t, k) \/ Same(node'[n].log, leaderLog[t], k)
  BY DEF AgreeInv, CopiesKept
<1>6. Dense(node'[n].log)
  BY DEF AgreeInv, LogsAreLeaders
<1> QED BY <1>3, <1>4, <1>5, <1>6 DEF Settles

LEMMA QuietOnward ==
    ASSUME LogInv, LogInv', leaderLog' = leaderLog, led \subseteq led', \A n \in Node : Settles(n)
    PROVE  Onward
<1>1. ASSUME NEW n \in Node, NEW t \in Term
      PROVE  match[n][t] <= match'[n][t] /\ (match'[n][t] # match[n][t] => node[n].term <= t)
  <2>1. match[n][t] \in Nat /\ match'[n][t] \in Nat
    BY Types, BoundAssumption DEF LogInv, TypeOK
  <2>2. /\ match'[n][t] # match[n][t] => match[n][t] < match'[n][t] /\ t = node'[n].term
        /\ node[n].term <= node'[n].term
    BY DEF Settles
  <2> QED BY <2>1, <2>2
<1> QED BY <1>1 DEF Onward, Settles

LEMMA TypesNext ==
    ASSUME LogInv'
    PROVE  /\ \A n \in Node : /\ node'[n].log \in Log /\ node'[n].term \in Term
                              /\ node'[n].term \in Nat /\ node'[n].commit \in 0 .. MaxIndex
           /\ \A t \in Term : leaderLog'[t] \in Log
           /\ \A n \in Node, t \in Term : match'[n][t] \in 0 .. MaxIndex /\ match'[n][t] \in Nat
<1>1. \A n \in Node : node'[n] \in State
  BY DEF LogInv, TypeOK
<1>2. \A n \in Node : node'[n].log \in Log /\ node'[n].term \in Term /\ node'[n].commit \in 0 .. MaxIndex
  BY <1>1 DEF State
<1>3. leaderLog' \in [Term -> Log] /\ match' \in [Node -> [Term -> 0 .. MaxIndex]]
  BY DEF LogInv, TypeOK
<1>4. \A n \in Node, t \in Term : match'[n][t] \in 0 .. MaxIndex
  BY <1>3
<1> QED BY <1>2, <1>3, <1>4, Numbers

\* The invariants about logs, over such a step.
QuietInv ==
    /\ LogsAreLeaders /\ LeadersOwn /\ CommitsBacked
    /\ CopiesMade /\ CopiesKept /\ LeadersComplete

LEMMA QuietStep ==
    ASSUME LogInv, LogInv', AgreeInv, leaderLog' = leaderLog, led' = led, \A n \in Node : Settles(n)
    PROVE  Onward /\ QuietInv'
<1> USE DEF AgreeInv
<1>1. Onward
  BY QuietOnward
<1>2. LogsAreLeaders'
  BY DEF LogsAreLeaders, Made, Dense, Settles
<1>3. LeadersOwn'
  <2>1. ASSUME NEW n \in Node, node'[n].role = "Leader"
        PROVE  <<n, node'[n].term>> \in led /\ leaderLog[node'[n].term] = node'[n].log
    BY <2>1 DEF LeadersOwn, Settles
  <2>2. ASSUME NEW l \in led
        PROVE  l[2] # 0 /\ l[2] <= node'[l[1]].term
    <3>1. /\ l[1] \in Node /\ l[2] \in Nat /\ node[l[1]].term \in Nat /\ node'[l[1]].term \in Nat
          /\ l[2] # 0 /\ l[2] <= node[l[1]].term
      BY Types, TypesNext DEF LeadersOwn
    <3> QED BY <3>1 DEF Settles
  <2> QED BY <2>1, <2>2 DEF LeadersOwn, Led
<1>4. CommitsBacked'
  <2> SUFFICES ASSUME NEW n \in Node, node'[n].commit # 0
               PROVE  \E u \in Term, j \in Index :
                         /\ u <= node'[n].term /\ node'[n].commit <= j
                         /\ Committed(u, j)' /\ Same(node'[n].log, leaderLog'[u], node'[n].commit)
    BY DEF CommitsBacked, Backed
  <2>1. Backed(node'[n].log, node'[n].commit, node'[n].term)
    BY DEF Settles
  <2>2. PICK l \in Log, k \in 0 .. MaxIndex, t \in Term :
            l = node'[n].log /\ k = node'[n].commit /\ t = node'[n].term
    BY TypesNext
  <2>3. Backed(l, k, t) /\ k # 0
    BY <2>1, <2>2
  <2>4. \E u \in Term, j \in Index :
            u <= t /\ k <= j /\ Committed(u, j)' /\ Same(l, leaderLog'[u], k)
    BY <1>1, <2>3, OnwardLogs
  <2> QED BY <2>2, <2>4
<1>5. CopiesMade'
  <2> SUFFICES ASSUME NEW f \in Node, NEW t \in Term, match'[f][t] # 0
               PROVE  t <= node'[f].term /\ leaderLog[t][match'[f][t]] # 0
    BY DEF CopiesMade
  <2>1. CASE match'[f][t] = match[f][t]
    <3>1. t <= node[f].term /\ leaderLog[t][match'[f][t]] # 0
      BY <2>1 DEF CopiesMade
    <3>2. t \in Nat /\ node[f].term \in Nat /\ node'[f].term \in Nat
      BY Types, TypesNext, Numbers
    <3> QED BY <3>1, <3>2 DEF Settles
  <2>2. CASE match'[f][t] # match[f][t]
    BY <2>2, Numbers DEF Settles
  <2> QED BY <2>1, <2>2
<1>6. CopiesKept'
  <2> SUFFICES ASSUME NEW f \in Node, NEW t \in Term, NEW k \in Index, k <= match'[f][t], Own(t, k)'
               PROVE  Blocked(t, k)' \/ Same(node'[f].log, leaderLog[t], k)
    BY DEF CopiesKept
  <2>1. Own(t, k)
    BY DEF Own
  <2>2. Blocked(t, k) \/ Same(node'[f].log, leaderLog[t], k)
    BY <2>1 DEF Settles
  <2> QED BY <1>1, <2>2, OnwardKeeps
<1>7. LeadersComplete'
  <2> SUFFICES ASSUME NEW t \in Term, NEW u \in Term, NEW k \in Index, t < u, Led(u)', Own(t, k)'
               PROVE  Blocked(t, k)' \/ Same(leaderLog[t], leaderLog[u], k)
    BY DEF LeadersComplete
  <2>1. Own(t, k) /\ Led(u)
    BY DEF Own, Led
  <2>2. Blocked(t, k) \/ Same(leaderLog[t], leaderLog[u], k)
    BY <2>1 DEF LeadersComplete
  <2> QED BY <1>1, <2>2, OnwardKeeps
<1> QED BY <1>1, <1>2, <1>3, <1>4, <1>5, <1>6, <1>7 DEF QuietInv

--------------------------------------------------------------------------------
\* Calls, candidates and votes, over a step

LEMMA KeptCalls ==
    ASSUME LogInv, LogInv', AgreeInv, Onward, appends' \subseteq appends
    PROVE  CallsAreLeaders'
<1>1. \A m \in appends : FromLeader(m)'
  BY OnwardCalls DEF AgreeInv, CallsAreLeaders
<1> QED BY <1>1 DEF CallsAreLeaders

\* Who is a candidate was one in the same term, and no leader of it; its log changes only
\* for a leader's call.
LEMMA KeptCandidates ==
    ASSUME LogInv, LogInv', AgreeInv, polls' = polls, led \subseteq led',
           \A n \in Node : node[n].term <= node'[n].term,
           \A n \in Node : node'[n].role = "Candidate" =>
                /\ node[n].role = "Candidate" /\ node'[n].term = node[n].term
                /\ node'[n].log = node[n].log \/ Led(node[n].term)
                /\ <<n, node[n].term>> \notin led'
    PROVE  Candidates'
<1>1. \A p \in polls : p.term # 0 /\ p.term <= node'[p.cand].term
  <2> TAKE p \in polls
  <2>1. /\ p.cand \in Node /\ p.term \in Nat /\ node[p.cand].term \in Nat /\ node'[p.cand].term \in Nat
        /\ p.term # 0 /\ p.term <= node[p.cand].term
    BY Types, TypesNext DEF AgreeInv, Candidates
  <2> QED BY <2>1
<1>2. ASSUME NEW n \in Node, node'[n].role = "Candidate"
      PROVE  /\ <<n, node'[n].term>> \notin led'
             /\ \E p \in polls :
                  /\ p.cand = n /\ p.term = node'[n].term
                  /\ ~(\E k \in Node : <<k, p.term>> \in led') =>
                       /\ p.lastIndex = GetLastIndex(node'[n].log)
                       /\ p.lastTerm = GetLastTerm(node'[n].log)
  <2>1. /\ node[n].role = "Candidate" /\ node'[n].term = node[n].term
        /\ node'[n].log = node[n].log \/ Led(node[n].term)
        /\ <<n, node[n].term>> \notin led'
    BY <1>2
  <2>2. PICK p \in polls :
            /\ p.cand = n /\ p.term = node[n].term
            /\ ~Led(p.term) =>
                 p.lastIndex = GetLastIndex(node[n].log) /\ p.lastTerm = GetLastTerm(node[n].log)
    BY <2>1 DEF AgreeInv, Candidates
  <2>3. Led(p.term) => \E k \in Node : <<k, p.term>> \in led'
    BY DEF Led
  <2> QED BY <2>1, <2>2, <2>3
<1> QED BY <1>1, <1>2 DEF AgreeInv, Candidates, Led

\* A voter has left the terms its vote is after, so what it counts for there is settled.
LEMMA KeptVotes ==
    ASSUME LogInv, LogInv', VoteInv, AgreeInv, Onward, polls \subseteq polls',
           NEW b \in ballots,
           \A t \in Term, k \in Index :
              t < node[b[1]].term /\ k <= match[b[1]][t] /\ Own(t, k)' => Own(t, k)
    PROVE  \E p \in polls' :
              /\ p.cand = b[2] /\ p.term = b[3]
              /\ \A t \in Term, k \in Index :
                   t < b[3] /\ k <= match'[b[1]][t] /\ Own(t, k)' =>
                      Blocked(t, k)' \/ (k <= p.lastIndex /\ t <= p.lastTerm)
<1>1. PICK p \in polls :
        /\ p.cand = b[2] /\ p.term = b[3]
        /\ \A t \in Term, k \in Index :
             t < b[3] /\ k <= match[b[1]][t] /\ Own(t, k) =>
                Blocked(t, k) \/ (k <= p.lastIndex /\ t <= p.lastTerm)
  BY DEF AgreeInv, VotesSafe
<1>2. ASSUME NEW t \in Term, NEW k \in Index, t < b[3], k <= match'[b[1]][t], Own(t, k)'
      PROVE  Blocked(t, k)' \/ (k <= p.lastIndex /\ t <= p.lastTerm)
  <2>1. /\ b[1] \in Node /\ b[3] \in Nat /\ t \in Nat /\ node[b[1]].term \in Nat
        /\ b[3] <= node[b[1]].term
    BY Types, Numbers DEF VoteInv, VotesRemembered
  <2>2. t < node[b[1]].term /\ ~(node[b[1]].term <= t)
    BY <1>2, <2>1
  <2>3. match'[b[1]][t] = match[b[1]][t]
    BY <2>1, <2>2 DEF Onward
  <2>4. Blocked(t, k) \/ (k <= p.lastIndex /\ t <= p.lastTerm)
    BY <1>1, <1>2, <2>2, <2>3
  <2>5. Blocked(t, k) => Blocked(t, k)'
    BY OnwardKeeps DEF AgreeInv
  <2> QED BY <2>4, <2>5
<1> QED BY <1>1, <1>2

\* A step in which no election, vote, call or leader's entry begins.
LEMMA QuietAgree ==
    ASSUME LogInv, LogInv', VoteInv, AgreeInv,
           leaderLog' = leaderLog, led' = led, polls' = polls, ballots' = ballots,
           appends' \subseteq appends,
           \A n \in Node : Settles(n),
           \A n \in Node : node'[n].role = "Candidate" =>
                /\ node[n].role = "Candidate" /\ node'[n].term = node[n].term
                /\ node'[n].log = node[n].log \/ Led(node[n].term)
    PROVE  AgreeInv'
<1>1. Onward /\ QuietInv'
  BY QuietStep
<1>2. CallsAreLeaders'
  BY <1>1, KeptCalls
<1>3. Candidates'
  <2>1. \A n \in Node : node[n].role = "Candidate" => <<n, node[n].term>> \notin led'
    BY DEF AgreeInv, Candidates
  <2>2. \A n \in Node : node[n].term <= node'[n].term
    BY DEF Settles
  <2> QED BY <2>1, <2>2, KeptCandidates
<1>4. VotesSafe'
  <2>1. \A t \in Term, k \in Index : Own(t, k)' => Own(t, k)
    BY DEF Own
  <2> QED BY <1>1, <2>1, KeptVotes DEF VotesSafe
<1> QED BY <1>1, <1>2, <1>3, <1>4 DEF AgreeInv, QuietInv

\* The same, of one node.
LEMMA QuietOne ==
    ASSUME LogInv, LogInv', VoteInv, AgreeInv, NEW n \in Node,
           leaderLog' = leaderLog, led' = led, polls' = polls, ballots' = ballots,
           appends' = appends,
           \A k \in Node \ {n} : node'[k] = node[k] /\ match'[k] = match[k],
           Settles(n),
           node'[n].role = "Candidate" =>
                /\ node[n].role = "Candidate" /\ node'[n].term = node[n].term
                /\ node'[n].log = node[n].log \/ Led(node[n].term)
    PROVE  AgreeInv'
<1>1. ASSUME NEW k \in Node \ {n} PROVE Settles(k)
  <2>1. /\ node[k].term \in Term /\ node[k].term <= node[k].term
        /\ node[k].commit \in 0 .. MaxIndex /\ node[k].commit <= node[k].commit
    BY Types, Numbers
  <2> QED BY <2>1, Settled
<1>2. \A k \in Node : Settles(k)
  BY <1>1
<1> QED BY <1>2, QuietAgree

--------------------------------------------------------------------------------
\* Votes

\* A node that finds its last entry no later than the candidate's, in index and in term,
\* has nothing the candidate lacks that could be committed.
LEMMA VoterAllows ==
    ASSUME LogInv, AgreeInv, NEW v \in Node, NEW i \in Nat, NEW e \in Nat,
           GetLastIndex(node[v].log) <= i, GetLastTerm(node[v].log) <= e,
           NEW t \in Term, NEW k \in Index, k <= match[v][t], Own(t, k)
    PROVE  Blocked(t, k) \/ (k <= i /\ t <= e)
<1> SUFFICES ASSUME ~Blocked(t, k) PROVE k <= i /\ t <= e
  OBVIOUS
<1>1. PICK l \in Log, u \in Term : l = node[v].log /\ u = node[v].term /\ Made(l, u)
  BY Types DEF AgreeInv, LogsAreLeaders
<1>2. Same(l, leaderLog[t], k)
  BY <1>1 DEF AgreeInv, CopiesKept
<1>3. l[k] = t /\ t # 0
  BY <1>2, Numbers DEF Same, Own
<1>4. /\ k <= GetLastIndex(l) /\ t <= GetLastTerm(l)
      /\ GetLastIndex(l) \in 0 .. MaxIndex /\ GetLastTerm(l) \in Term
  BY <1>1, <1>3, MadeLast DEF AgreeInv
<1>5. k \in Nat /\ t \in Nat /\ GetLastIndex(l) \in Nat /\ GetLastTerm(l) \in Nat
  BY <1>4, Numbers
<1> QED BY <1>1, <1>4, <1>5

--------------------------------------------------------------------------------
\* Receiving a call

\* What becomes of a log: it stays, or it is the leader's up to some index and ends there,
\* having been another up to the index behind.
Takes(l, g, m) ==
    \/ g = l
    \/ \E d \in 0 .. MaxIndex :
        /\ \A i \in Index : g[i] = IF i <= d THEN leaderLog[m.term][i] ELSE 0
        /\ ~Same(l, leaderLog[m.term], d + 1)

\* Whatever agreed with the leader's log still does.
LEMMA TakesSame ==
    ASSUME LogInv, NEW m \in appends, NEW l, NEW g, Takes(l, g, m),
           NEW j \in Nat, Same(l, leaderLog[m.term], j)
    PROVE  Same(g, leaderLog[m.term], j)
<1>1. CASE g = l
  BY <1>1
<1>2. CASE g # l
  <2>1. PICK d \in 0 .. MaxIndex :
            /\ \A i \in Index : g[i] = IF i <= d THEN leaderLog[m.term][i] ELSE 0
            /\ ~Same(l, leaderLog[m.term], d + 1)
    BY <1>2 DEF Takes
  <2>2. d \in Nat /\ d + 1 \in Nat
    BY Numbers
  <2>3. ~(d + 1 <= j)
    BY <2>1, <2>2, SameShorter
  <2>4. \A i \in Index : i <= j => i <= d
    BY <2>2, <2>3, Numbers
  <2> QED BY <2>1, <2>4 DEF Same
<1> QED BY <1>1, <1>2

LEMMA TakesMade ==
    ASSUME LogInv, AgreeInv, NEW m \in appends, NEW l \in Log, NEW g \in Log, Takes(l, g, m),
           NEW u \in Term, u <= m.term, Made(l, u)
    PROVE  Made(g, m.term)
<1>1. /\ m.term \in Term /\ m.term \in Nat /\ u \in Nat
      /\ leaderLog[m.term] \in Log /\ Made(leaderLog[m.term], m.term)
  BY Types, Numbers DEF AgreeInv, LogsAreLeaders
<1>2. PICK T \in Term, L \in Log : T = m.term /\ L = leaderLog[m.term] /\ Made(L, T)
  BY <1>1
<1> SUFFICES ASSUME NEW i \in Index, g[i] # 0
             PROVE  g[i] <= T /\ Same(g, leaderLog[g[i]], i)
  BY <1>2 DEF Made
<1>3. CASE g = l
  <2>1. l[i] <= u /\ Same(l, leaderLog[l[i]], i) /\ l[i] \in Nat
    BY <1>3, Numbers DEF Made, Log
  <2> QED BY <1>1, <1>2, <1>3, <2>1
<1>4. CASE g # l
  <2>1. PICK d \in 0 .. MaxIndex : \A j \in Index : g[j] = IF j <= d THEN L[j] ELSE 0
    BY <1>2, <1>4 DEF Takes
  <2>2. i <= d /\ g[i] = L[i]
    BY <2>1
  <2>3. L[i] <= T /\ Same(L, leaderLog[L[i]], i)
    BY <1>2, <2>2 DEF Made
  <2>4. \A j \in Index : j <= i => j <= d
    BY <2>2, Numbers
  <2> QED BY <2>1, <2>2, <2>3, <2>4 DEF Same
<1> QED BY <1>3, <1>4

\* What the call's previous entry, if it matches, says of the log below it.
LEMMA PrevAgrees ==
    ASSUME LogInv, AgreeInv, NEW n \in Node, NEW m \in appends, node[n].term <= m.term,
           m.prev > node[n].applied =>
              node[n].log[m.prev] # 0 /\ node[n].log[m.prev] = m.log[m.prev]
    PROVE  /\ Same(node[n].log, leaderLog[m.term], m.prev)
           /\ Same(node[n].log, leaderLog[m.term], node[n].commit)
<1> USE DEF AgreeInv
<1>1. PICK l \in Log, u \in Term : l = node[n].log /\ u = node[n].term /\ Made(l, u)
  BY Types DEF LogsAreLeaders
<1>2. PICK T \in Term, L \in Log : T = m.term /\ L = leaderLog[m.term] /\ Made(L, T) /\ Led(T)
  <2>1. m.term \in Term /\ leaderLog[m.term] \in Log /\ m.from \in Node
    BY Types
  <2>2. Led(m.term)
    BY <2>1 DEF CallsAreLeaders, FromLeader, Led
  <2> QED BY <2>1, <2>2 DEF LogsAreLeaders
<1>3. PICK c \in 0 .. MaxIndex, a \in 0 .. MaxIndex, q \in 0 .. MaxIndex :
          c = node[n].commit /\ a = node[n].applied /\ q = m.prev /\ a <= c
  BY Types
<1>4. c \in Nat /\ a \in Nat /\ q \in Nat
  BY Numbers
<1>5. Same(l, L, c)
  <2>1. Backed(l, c, u)
    BY <1>1, <1>3 DEF CommitsBacked
  <2> QED BY <1>1, <1>2, <2>1, BackedLater
<1>6. CASE q <= a
  <2>1. q <= c
    BY <1>3, <1>4, <1>6
  <2>2. Same(l, L, q)
    BY <1>4, <1>5, <2>1, SameShorter
  <2> QED BY <1>1, <1>2, <1>3, <1>5, <2>2
<1>7. CASE q > a
  <2>1. q # 0 /\ q \in Index
    BY <1>4, <1>7, Numbers
  <2>2. l[q] # 0 /\ l[q] = m.log[q]
    BY <1>1, <1>3, <1>7
  <2>3. m.log[q] = L[q]
    BY <1>2, <1>3, <2>1, <2>2 DEF CallsAreLeaders, FromLeader
  <2>4. Same(l, L, q)
    BY <1>1, <1>2, <2>1, <2>2, <2>3, MadeAgree
  <2> QED BY <1>1, <1>2, <1>3, <1>5, <2>4
<1> QED BY <1>4, <1>6, <1>7

\* A step in which a node takes a call, as far as it came with it.
LEMMA TakesSettles ==
    ASSUME LogInv, LogInv', AgreeInv, NEW n \in Node, NEW m \in appends, node[n].term <= m.term,
           Same(node[n].log, leaderLog[m.term], node[n].commit),
           node'[n].term = m.term, node'[n].role # "Leader",
           NEW g \in Log, node'[n].log = g, Takes(node[n].log, g, m), Dense(g),
           NEW c \in 0 .. MaxIndex, node'[n].commit = c,
           c <= node[n].commit \/ (c <= m.commit /\ Same(g, leaderLog[m.term], c)),
           \A t \in Term : match'[n][t] # match[n][t] =>
              /\ t = m.term /\ match[n][t] < match'[n][t]
              /\ leaderLog[t][match'[n][t]] # 0 /\ Same(g, leaderLog[t], match'[n][t])
    PROVE  Settles(n)
<1> USE DEF AgreeInv
<1>1. PICK l \in Log, u \in Term, b \in 0 .. MaxIndex :
          l = node[n].log /\ u = node[n].term /\ b = node[n].commit /\ Made(l, u) /\ Backed(l, b, u)
  BY Types DEF LogsAreLeaders, CommitsBacked
<1>2. PICK T \in Term, L \in Log, d \in 0 .. MaxIndex :
          T = m.term /\ L = leaderLog[m.term] /\ d = m.commit
  BY Types
<1>3. Led(T) /\ Backed(L, d, T)
  <2>1. m.from \in Node /\ FromLeader(m)
    BY Types DEF CallsAreLeaders
  <2> QED BY <1>2, <2>1 DEF FromLeader, Led
<1>4. u \in Nat /\ T \in Nat /\ u <= T /\ b \in Nat /\ c \in Nat /\ d \in Nat
  BY <1>1, <1>2, Numbers
<1>5. Same(l, L, b)
  BY <1>1, <1>2
<1>6. ASSUME NEW j \in Nat, Same(l, L, j) PROVE Same(g, L, j)
  BY <1>1, <1>2, <1>6, TakesSame
<1>7. Made(g, T)
  BY <1>1, <1>2, <1>4, TakesMade
<1>8. Backed(g, c, T)
  <2> SUFFICES ASSUME c # 0
               PROVE  \E v \in Term, j \in Index :
                         v <= T /\ c <= j /\ Committed(v, j) /\ Same(g, leaderLog[v], c)
    BY DEF Backed
  <2>1. CASE c <= b
    <3>1. Backed(l, c, T)
      BY <1>1, <1>4, <2>1, BackedLess
    <3>2. PICK v \in Term, j \in Index :
              v <= T /\ c <= j /\ Committed(v, j) /\ Same(l, leaderLog[v], c)
      BY <3>1 DEF Backed
    <3>3. Same(l, L, c)
      BY <1>4, <1>5, <2>1, SameShorter
    <3>4. Same(g, L, c)
      BY <1>4, <1>6, <3>3
    <3> QED BY <3>2, <3>3, <3>4 DEF Same
  <2>2. CASE c <= d /\ Same(g, L, c)
    <3>1. Backed(L, c, T)
      BY <1>3, <1>4, <2>2, BackedLess
    <3>2. PICK v \in Term, j \in Index :
              v <= T /\ c <= j /\ Committed(v, j) /\ Same(L, leaderLog[v], c)
      BY <3>1 DEF Backed
    <3> QED BY <2>2, <3>2 DEF Same
  <2> QED BY <1>1, <1>2, <2>1, <2>2
<1>9. \A t \in Term : match'[n][t] # match[n][t] =>
        match[n][t] < match'[n][t] /\ t = T /\ leaderLog[t][match'[n][t]] # 0
  BY <1>2
<1>10. ASSUME NEW t \in Term, NEW k \in Index, k <= match'[n][t], Own(t, k)
       PROVE  Blocked(t, k) \/ Same(g, leaderLog[t], k)
  <2> SUFFICES ASSUME ~Blocked(t, k) PROVE Same(g, leaderLog[t], k)
    OBVIOUS
  <2>0. k \in Nat /\ t \in Nat /\ k # 0
    BY Numbers
  <2>1. CASE match'[n][t] # match[n][t]
    <3>1. Same(g, leaderLog[t], match'[n][t])
      BY <2>1
    <3>2. match'[n][t] \in Nat
      BY TypesNext
    <3> QED BY <1>10, <2>0, <3>1, <3>2, SameShorter
  <2>2. CASE match'[n][t] = match[n][t]
    <3>1. Same(l, leaderLog[t], k)
      BY <1>1, <1>10, <2>2 DEF CopiesKept
    <3>2. t <= u
      <4>1. match[n][t] \in Nat
        BY Types
      <4>2. match[n][t] # 0
        BY <1>10, <2>0, <2>2, <4>1, Numbers
      <4> QED BY <1>1, <4>2 DEF CopiesMade
    <3>3. Same(leaderLog[t], L, k)
      <4>1. CASE t = T
        BY <1>2, <4>1 DEF Same
      <4>2. CASE t < T
        BY <1>2, <1>3, <1>10, <4>2 DEF LeadersComplete
      <4> QED BY <1>4, <2>0, <3>2, <4>1, <4>2
    <3>4. Same(l, L, k)
      BY <2>0, <3>1, <3>3, SameTrans
    <3>5. Same(g, L, k)
      BY <1>6, <2>0, <3>4
    <3> QED BY <3>3, <3>5 DEF Same
  <2> QED BY <2>1, <2>2
<1> QED BY <1>1, <1>2, <1>4, <1>7, <1>8, <1>9, <1>10 DEF Settles

\* What a call sends: entries of the leader's log, none missing between the previous one
\* and the last.
LEMMA SentIs ==
    ASSUME LogInv, AgreeInv, NEW m \in appends,
           NEW f, f.log \in Log, f.applied \in Nat, NEW k \in Nat
    PROVE  /\ Sent(f, m, k) \subseteq Index /\ Conflicts(f, m, k) \subseteq Sent(f, m, k)
           /\ \A i \in Sent(f, m, k) :
                m.log[i] = leaderLog[m.term][i] /\ m.log[i] # 0 /\ m.prev < i /\ f.applied < i /\ i <= k
           /\ \A i \in Index : m.prev < i /\ f.applied < i /\ i <= k /\ i <= GetLastIndex(m.log) =>
                i \in Sent(f, m, k)
           /\ \A i \in Sent(f, m, k) : \A j \in Index :
                m.prev < j /\ f.applied < j /\ j <= i => j \in Sent(f, m, k)
<1>1. /\ m.prev \in Nat /\ m.log \in Log /\ FromLeader(m)
      /\ GetLastIndex(m.log) \in Nat
      /\ \A i \in Index : m.log[i] # 0 => i <= GetLastIndex(m.log)
  <2>1. m.prev \in 0 .. MaxIndex /\ m.log \in Log
    BY Types
  <2> QED BY <2>1, LastIndex, Numbers DEF AgreeInv, CallsAreLeaders
<1>2. /\ \A i \in Index : m.log[i] # 0 => m.log[i] = leaderLog[m.term][i]
      /\ \A i \in Index : m.prev <= i /\ i <= GetLastIndex(m.log) => m.log[i] # 0
  BY <1>1 DEF FromLeader
<1>3. \A i : i \in Sent(f, m, k) <=>
        i \in Index /\ m.log[i] # 0 /\ m.prev < i /\ f.applied < i /\ i <= k
  BY DEF Sent, Present
<1>4. Conflicts(f, m, k) \subseteq Sent(f, m, k)
  BY DEF Conflicts
<1>5. ASSUME NEW i \in Index, m.prev < i, f.applied < i, i <= k, i <= GetLastIndex(m.log)
      PROVE  i \in Sent(f, m, k)
  BY <1>1, <1>2, <1>3, <1>5, Numbers
<1>6. ASSUME NEW i \in Sent(f, m, k), NEW j \in Index, m.prev < j, f.applied < j, j <= i
      PROVE  j \in Sent(f, m, k)
  <2>1. i \in Index /\ i <= k /\ i <= GetLastIndex(m.log)
    BY <1>1, <1>3
  <2>2. i \in Nat /\ j \in Nat
    BY <2>1, Numbers
  <2> QED BY <1>1, <1>5, <1>6, <2>1, <2>2
<1> QED BY <1>2, <1>3, <1>4, <1>5, <1>6

\* CopyLogs takes a call that way, when it leaves no gap: of what it is sent it keeps the
\* leader's entries only, and below the first conflict all of them.
LEMMA CopyTakes ==
    ASSUME LogInv, AgreeInv, NEW m \in appends,
           NEW f, f.log \in Log, f.applied \in Nat, NEW k \in Nat, Dense(f.log),
           Same(f.log, leaderLog[m.term], m.prev), Same(f.log, leaderLog[m.term], f.applied),
           Dense(CopyLogs(f, m, k))
    PROVE  /\ CopyLogs(f, m, k) \in Log /\ Takes(f.log, CopyLogs(f, m, k), m)
           /\ \A i \in Sent(f, m, k) : CopyLogs(f, m, k)[i] \in {0, leaderLog[m.term][i]}
           /\ \A i \in Sent(f, m, k) : (\A c \in Conflicts(f, m, k) : i < c) =>
                CopyLogs(f, m, k)[i] = leaderLog[m.term][i]
<1> DEFINE g == CopyLogs(f, m, k)
           S == Sent(f, m, k)
           C == Conflicts(f, m, k)
<1>1. PICK l \in Log, q \in Nat, a \in Nat, e \in Log, L \in Log :
          l = f.log /\ q = m.prev /\ a = f.applied /\ e = m.log /\ L = leaderLog[m.term]
  BY Types, Numbers
<1>2. /\ S \subseteq Index /\ C \subseteq S
      /\ \A i \in S : e[i] = L[i] /\ e[i] # 0 /\ q < i /\ a < i
      /\ \A i \in S : \A j \in Index : q < j /\ a < j /\ j <= i => j \in S
  BY <1>1, SentIs
<1>3. \A i \in Index : i \in C <=> i \in S /\ l[i] # 0 /\ l[i] # L[i]
  BY <1>1, <1>2 DEF Conflicts
<1>4. \A i \in Index : l[i] \in Term /\ e[i] \in Term /\ 0 \in Term
  BY <1>1, Numbers DEF Log
<1>5. g = [i \in Index |->
            IF \E c \in C : c < i
            THEN IF i \in S THEN e[i] ELSE 0
            ELSE IF i \in C THEN 0
            ELSE IF i \in S THEN e[i] ELSE l[i]]
  BY <1>1 DEF CopyLogs
<1>6. /\ \A i, j \in Index : l[i] # 0 /\ j <= i => l[j] # 0
      /\ \A i, j \in Index : g[i] # 0 /\ j <= i => g[j] # 0
      /\ \A i \in Index : i <= q \/ i <= a => l[i] = L[i]
  BY <1>1 DEF Dense, Same
<1> HIDE DEF g, S, C
<1>7. g \in Log
  BY <1>4, <1>5 DEF Log
<1>8. \A i \in Index : i \in Nat
  BY Numbers
<1>9. \A i \in S : g[i] \in {0, L[i]}
  BY <1>2, <1>5
<1>10. \A i \in S : (\A c \in C : i < c) => g[i] = L[i]
  <2> SUFFICES ASSUME NEW i \in S, \A c \in C : i < c
               PROVE  g[i] = L[i]
    OBVIOUS
  <2>1. i \in Index /\ i \notin C /\ ~(\E c \in C : c < i)
    BY <1>2, <1>8
  <2> QED BY <1>2, <1>5, <2>1
<1>11. ASSUME NEW d \in 0 .. MaxIndex, \A i \in Index : g[i] = IF i <= d THEN L[i] ELSE 0,
              NEW y \in Index, y <= d + 1, l[y] # L[y]
       PROVE  Takes(l, g, m)
  <2>1. ~Same(l, leaderLog[m.term], d + 1)
    BY <1>1, <1>11 DEF Same
  <2> QED BY <1>1, <1>11, <2>1 DEF Takes
<1>12. ASSUME C = {} PROVE Takes(l, g, m)
  <2>1. \A i \in Index : g[i] = IF i \in S THEN L[i] ELSE l[i]
    BY <1>2, <1>5, <1>12
  <2>2. CASE \A i \in S : l[i] # 0
    <3>1. \A i \in Index : g[i] = l[i]
      BY <1>3, <1>12, <2>1, <2>2
    <3>2. g = l
      BY <1>1, <1>7, <3>1 DEF Log
    <3> QED BY <3>2 DEF Takes
  <2>3. CASE \E i \in S : l[i] = 0
    <3>1. PICK y \in S : l[y] = 0
      BY <2>3
    <3>2. S \in SUBSET (0 .. MaxIndex)
      BY <1>2, Numbers
    <3>3. PICK d \in S : \A i \in S : i <= d
      BY <3>1, <3>2, GreatestOf
    <3>4. d \in 0 .. MaxIndex /\ d \in Index /\ y \in Index /\ y <= d
      BY <1>2, <3>2, <3>3
    <3>5. ASSUME NEW i \in Index, i <= d
          PROVE  g[i] = L[i]
      <4>1. CASE i \in S
        BY <2>1, <4>1
      <4>2. CASE i \notin S
        <5>1. i <= q \/ i <= a
          BY <1>2, <1>8, <3>5, <4>2
        <5> QED BY <1>6, <2>1, <4>2, <5>1
      <4> QED BY <4>1, <4>2
    <3>6. ASSUME NEW i \in Index, ~(i <= d)
          PROVE  g[i] = 0
      <4>1. i \notin S /\ y <= i
        BY <1>8, <3>3, <3>4, <3>6
      <4>2. l[i] = 0
        BY <1>6, <3>1, <3>4, <4>1
      <4> QED BY <2>1, <4>1, <4>2
    <3>7. y <= d + 1
      <4>1. d \in Nat /\ y \in Nat /\ y <= d
        BY <1>8, <3>4
      <4> QED BY <4>1
    <3>8. l[y] # L[y]
      BY <1>2, <3>1
    <3> QED BY <1>11, <3>4, <3>5, <3>6, <3>7, <3>8
  <2> QED BY <2>2, <2>3
<1>13. ASSUME C # {} PROVE Takes(l, g, m)
  <2>1. C \in SUBSET Nat
    BY <1>2, <1>8
  <2>2. PICK c \in C : \A i \in C : c <= i
    BY <1>13, <2>1, SmallestOf
  <2>3. c \in Index /\ c \in S /\ c \in Nat /\ l[c] # L[c]
    BY <1>2, <1>3, <1>8, <2>2
  <2>4. g[c] = 0
    <3>1. ~(\E i \in C : i < c)
      BY <2>1, <2>2, <2>3
    <3> QED BY <1>5, <2>2, <2>3, <3>1
  <2>5. PICK d \in 0 .. MaxIndex : d + 1 = c
    <3>1. 1 <= c /\ c <= MaxIndex /\ MaxIndex \in Nat
      BY <2>3, Numbers, BoundAssumption
    <3>2. c - 1 \in 0 .. MaxIndex /\ (c - 1) + 1 = c
      BY <2>3, <3>1
    <3> QED BY <3>2
  <2>6. ASSUME NEW i \in Index, i <= d
        PROVE  g[i] = L[i]
    <3>0. i < c /\ i \in Nat
      BY <1>8, <2>3, <2>5, <2>6
    <3>1. i \notin C /\ ~(\E j \in C : j < i)
      <4>1. \A j \in C : j \in Nat /\ c <= j
        BY <2>1, <2>2
      <4> QED BY <2>3, <3>0, <4>1
    <3>2. CASE i \in S
      BY <1>2, <1>5, <3>1, <3>2
    <3>3. CASE i \notin S
      <4>1. i <= q \/ i <= a
        BY <1>2, <1>8, <2>3, <3>0, <3>3
      <4> QED BY <1>5, <1>6, <3>1, <3>3, <4>1
    <3> QED BY <3>2, <3>3
  <2>7. ASSUME NEW i \in Index, ~(i <= d)
        PROVE  g[i] = 0
    <3>1. c <= i
      BY <1>8, <2>3, <2>5, <2>7, Numbers
    <3> QED BY <1>6, <2>3, <2>4, <3>1
  <2>8. c <= d + 1
    BY <2>3, <2>5
  <2> QED BY <1>11, <2>3, <2>6, <2>7, <2>8
<1> QED BY <1>1, <1>7, <1>9, <1>10, <1>12, <1>13 DEF g, S, C

\* A commit index the new log reaches, behind the applied entries and not behind those of
\* the call: the log is the leader's up to there.
LEMMA CommitAgrees ==
    ASSUME LogInv, AgreeInv, NEW m \in appends,
           NEW f, f.log \in Log, f.applied \in Nat,
           Same(f.log, leaderLog[m.term], m.prev), NEW u \in Term, u <= m.term, Made(f.log, u),
           NEW g \in Log, Takes(f.log, g, m),
           \A i \in Sent(f, m, MaxIndex) : g[i] \in {0, leaderLog[m.term][i]},
           NEW c \in 0 .. MaxIndex, f.applied < c, c <= GetLastIndex(g), c <= GetLastIndex(m.log),
           Dense(g)
    PROVE  Same(g, leaderLog[m.term], c)
<1>1. PICK T \in Term, L \in Log, q \in 0 .. MaxIndex :
          T = m.term /\ L = leaderLog[m.term] /\ q = m.prev /\ Made(L, T)
  BY Types DEF AgreeInv, LogsAreLeaders
<1>2. c \in Nat /\ q \in Nat
  BY Numbers
<1>3. CASE c <= q
  <2>1. Same(g, L, q)
    BY <1>1, <1>2, TakesSame
  <2> QED BY <1>1, <1>2, <1>3, <2>1, SameShorter
<1>4. CASE ~(c <= q)
  <2>1. c \in Index /\ q < c /\ c <= MaxIndex /\ MaxIndex \in Nat
    BY <1>2, <1>4, Numbers, BoundAssumption
  <2>2. c \in Sent(f, m, MaxIndex)
    BY <1>1, <2>1, SentIs
  <2>3. Made(g, T)
    BY <1>1, TakesMade
  <2>4. g[c] # 0
    BY <2>1, <2>3, MadeLast DEF AgreeInv
  <2>5. g[c] = L[c]
    BY <1>1, <2>2, <2>4
  <2>6. Same(g, L, c)
    BY <1>1, <2>1, <2>3, <2>4, <2>5, MadeAgree DEF AgreeInv
  <2> QED BY <1>1, <2>6
<1> QED BY <1>3, <1>4

\* What a node has taken over of a call is the leader's.
LEMMA TakenAgrees ==
    ASSUME LogInv, AgreeInv, NEW m \in appends,
           NEW f, f.log \in Log, f.applied \in Nat,
           Same(f.log, leaderLog[m.term], m.prev), Same(f.log, leaderLog[m.term], f.applied),
           NEW g \in Log, Takes(f.log, g, m),
           \A i \in Sent(f, m, MaxIndex) : (\A c \in Conflicts(f, m, MaxIndex) : i < c) =>
                g[i] = leaderLog[m.term][i],
           NEW k \in Taken(f, m)
    PROVE  Same(g, leaderLog[m.term], k) /\ (k # 0 => leaderLog[m.term][k] # 0)
<1>1. /\ m.prev \in Nat /\ m.log \in Log /\ FromLeader(m)
      /\ GetLastIndex(m.log) \in 0 .. MaxIndex /\ GetLastIndex(m.log) \in Nat
  <2>1. m.prev \in 0 .. MaxIndex /\ m.log \in Log
    BY Types
  <2> QED BY <2>1, LastIndex, Numbers DEF AgreeInv, CallsAreLeaders
<1>2. /\ k \in 0 .. MaxIndex /\ k \in Nat /\ m.prev <= k /\ k <= GetLastIndex(m.log)
      /\ \A c \in Conflicts(f, m, MaxIndex) : k < c
  <2>1. k \in m.prev .. GetLastIndex(m.log) /\ \A c \in Conflicts(f, m, MaxIndex) : k < c
    BY DEF Taken
  <2> QED BY <1>1, <2>1, BoundAssumption
<1>3. ASSUME NEW i \in Index, i <= k
      PROVE  g[i] = leaderLog[m.term][i]
  <2>1. i \in Nat /\ i <= MaxIndex /\ MaxIndex \in Nat
    BY Numbers, BoundAssumption
  <2>2. CASE i <= m.prev
    <3>1. Same(g, leaderLog[m.term], m.prev)
      BY <1>1, TakesSame
    <3> QED BY <2>2, <3>1 DEF Same
  <2>3. CASE i <= f.applied
    <3>1. Same(g, leaderLog[m.term], f.applied)
      BY TakesSame
    <3> QED BY <2>3, <3>1 DEF Same
  <2>4. CASE m.prev < i /\ f.applied < i
    <3>1. i <= GetLastIndex(m.log)
      BY <1>1, <1>2, <1>3, <2>1
    <3>2. i \in Sent(f, m, MaxIndex)
      BY <2>1, <2>4, <3>1, SentIs
    <3>3. \A c \in Conflicts(f, m, MaxIndex) : i < c
      <4> TAKE c \in Conflicts(f, m, MaxIndex)
      <4>1. c \in Nat
        BY <2>1, SentIs, Numbers
      <4>2. k < c /\ k \in Nat
        BY <1>2
      <4> QED BY <1>3, <2>1, <4>1, <4>2
    <3> QED BY <3>2, <3>3
  <2> QED BY <1>1, <2>1, <2>2, <2>3, <2>4
<1>4. k # 0 => leaderLog[m.term][k] # 0
  <2> HAVE k # 0
  <2>1. k \in Index
    BY <1>2, Numbers
  <2> QED BY <1>1, <1>2, <2>1 DEF FromLeader
<1> QED BY <1>3, <1>4 DEF Same

\* What the parts of AppendEntries leave alone.
LEMMA FollowKeeps ==
    ASSUME NEW s, Good(s), NEW m \in Append, ~Denied(s, m),
           NEW f, f \in {Follow(s, m), ForgetVote(Follow(s, m))}
    PROVE  /\ Good(f) /\ s.term <= m.term
           /\ f.log = s.log /\ f.applied = s.applied /\ f.commit = s.commit
           /\ f.term = m.term /\ f.role # "Leader"
           /\ f.role = "Candidate" => s.role = "Candidate" /\ s.term = m.term
<1> DEFINE w == Follow(s, m)
<1>1. /\ Good(w) /\ w.term = m.term /\ s.term <= m.term
      /\ \/ s.term = m.term /\ Stays(s, w)
         \/ s.term < m.term /\ w.role = "Follower"
  BY FollowIs DEF Grows
<1>2. s \in State /\ m.term \in Term /\ m.from \in Node
  BY DEF Good, Append
<1>3. w.log = s.log /\ w.applied = s.applied /\ w.commit = s.commit
  BY <1>2 DEF Follow, BiggerTerm, ConvertFollower, State
<1>4. s.term = m.term => s.role # "Leader"
  BY DEF Denied
<1> HIDE DEF w
<1>5. w.role # "Leader" /\ (w.role = "Candidate" => s.role = "Candidate" /\ s.term = m.term)
  BY <1>1, <1>4 DEF Stays
<1>6. /\ Good(ForgetVote(w)) /\ ForgetVote(w).term = w.term /\ ForgetVote(w).role = w.role
  BY <1>1, ForgetVoteIs DEF Grows
<1>7. /\ ForgetVote(w).log = w.log /\ ForgetVote(w).applied = w.applied
      /\ ForgetVote(w).commit = w.commit
  BY <1>1 DEF ForgetVote, Good, State
<1>8. CASE f = w
  BY <1>1, <1>3, <1>5, <1>8
<1>9. CASE f = ForgetVote(w)
  BY <1>1, <1>3, <1>5, <1>6, <1>7, <1>9
<1> QED BY <1>8, <1>9 DEF w

LEMMA SetLogKeeps ==
    ASSUME NEW s, Good(s), NEW m \in Append, NEW k \in Nat
    PROVE  LET r == SetLog(s, m, k) IN
           /\ Good(r) /\ r.log = CopyLogs(s, m, k) /\ r.applied = s.applied /\ r.commit = s.commit
           /\ r.term = s.term /\ r.role = s.role
<1>1. Good(SetLog(s, m, k)) /\ Stays(s, SetLog(s, m, k))
  BY CopyStays DEF Grows
<1>2. /\ SetLog(s, m, k).log = CopyLogs(s, m, k) /\ SetLog(s, m, k).applied = s.applied
      /\ SetLog(s, m, k).commit = s.commit
  BY DEF SetLog, Good, State
<1> QED BY <1>1, <1>2 DEF Stays

LEMMA TakeCommitKeeps ==
    ASSUME NEW s, Good(s), NEW m \in Append
    PROVE  LET r == TakeCommit(s, m) IN
           /\ Good(r) /\ r.log = s.log /\ r.applied = s.applied
           /\ r.commit = s.commit \/ (r.commit <= m.commit /\ r.commit <= GetLastIndex(s.log))
           /\ r.term = s.term /\ r.role = s.role
<1> DEFINE r == TakeCommit(s, m)
           e == GetLastIndex(s.log)
<1>1. Good(r)
  BY CommitGrows DEF Grows
<1>2. s \in State /\ s.log \in Log /\ m.commit \in 0 .. MaxIndex
  BY DEF Good, State, Append
<1>3. e \in 0 .. MaxIndex
  BY <1>2, LastIndex
<1> HIDE DEF e
<1>4. /\ r.log = s.log /\ r.applied = s.applied /\ r.term = s.term /\ r.role = s.role
  BY <1>2 DEF TakeCommit, State
<1>5. \/ r.commit = s.commit
      \/ r.commit = m.commit /\ m.commit <= e
      \/ r.commit = e /\ ~(m.commit <= e)
  BY <1>2 DEF TakeCommit, State, e
<1>6. r.commit = s.commit \/ (r.commit <= m.commit /\ r.commit <= e)
  BY <1>2, <1>3, <1>5, BoundAssumption
<1> QED BY <1>1, <1>4, <1>6 DEF e

LEMMA ApplyKeeps ==
    ASSUME NEW s \in State
    PROVE  /\ ApplyLogs(s).log = s.log /\ ApplyLogs(s).commit = s.commit
           /\ ApplyLogs(s).term = s.term /\ ApplyLogs(s).role = s.role
BY DEF ApplyLogs, State

\* The node behind CopyLogs, as a crash may find it, and behind the commit index; if no gap
\* is left, its log is the leader's as far as it took it over, and as far as a new commit
\* index goes that the call has entries for.
LEMMA Received ==
    ASSUME LogInv, AgreeInv, NEW n \in Node, NEW m \in appends,
           NEW f, Good(f), f.log = node[n].log, f.applied = node[n].applied,
           f.commit = node[n].commit, node[n].term <= m.term, PrevMatches(f, m), NEW k \in Nat,
           Dense(SetLog(f, m, k).log)
    PROVE  LET h == SetLog(f, m, k)
               r == TakeCommit(h, m)
               L == leaderLog[m.term]
           IN  /\ Same(node[n].log, L, node[n].commit)
               /\ h.log \in Log /\ Takes(node[n].log, h.log, m) /\ h.commit = node[n].commit
               /\ h.term = f.term /\ h.role = f.role /\ h.applied = f.applied /\ Good(h)
               /\ r.log = h.log /\ r.term = f.term /\ r.role = f.role /\ Good(r)
               /\ k = MaxIndex /\ ~(node[n].commit < r.commit /\ GetLastIndex(m.log) < r.commit) =>
                    r.commit = node[n].commit \/ (r.commit <= m.commit /\ Same(r.log, L, r.commit))
               /\ k = MaxIndex =>
                    \A x \in Taken(f, m) : Same(h.log, L, x) /\ (x # 0 => L[x] # 0)
<1> DEFINE h == SetLog(f, m, k)
           r == TakeCommit(h, m)
           s == node[n]
<1>1. /\ m \in Append /\ f.log \in Log /\ f.applied \in Nat
      /\ s.commit \in 0 .. MaxIndex /\ s.commit \in Nat /\ s.applied <= s.commit
      /\ s.term \in Term /\ Made(s.log, s.term) /\ Dense(s.log)
  <2>1. f.applied \in 0 .. MaxIndex /\ f.log \in Log
    BY DEF Good, State
  <2> QED BY <2>1, Types, Numbers DEF LogInv, TypeOK, AgreeInv, LogsAreLeaders
<1>2. /\ Same(s.log, leaderLog[m.term], m.prev)
      /\ Same(s.log, leaderLog[m.term], s.commit)
  BY PrevAgrees DEF PrevMatches
<1>3. Same(f.log, leaderLog[m.term], f.applied)
  BY <1>1, <1>2, SameShorter
<1>4. /\ Good(h) /\ h.log = CopyLogs(f, m, k) /\ h.applied = f.applied /\ h.commit = f.commit
      /\ h.term = f.term /\ h.role = f.role
  BY <1>1, SetLogKeeps
<1>5. /\ h.log \in Log /\ Takes(f.log, h.log, m) /\ Dense(h.log)
      /\ \A i \in Sent(f, m, k) : h.log[i] \in {0, leaderLog[m.term][i]}
      /\ \A i \in Sent(f, m, k) : (\A c \in Conflicts(f, m, k) : i < c) =>
            h.log[i] = leaderLog[m.term][i]
  <2>1. Dense(f.log) /\ Same(f.log, leaderLog[m.term], m.prev) /\ Dense(CopyLogs(f, m, k))
    BY <1>1, <1>2, <1>4
  <2> QED BY <1>1, <1>3, <1>4, <2>1, CopyTakes
<1> HIDE DEF h
<1>6. /\ Good(r) /\ r.log = h.log
      /\ r.commit = h.commit \/ (r.commit <= m.commit /\ r.commit <= GetLastIndex(h.log))
      /\ r.term = h.term /\ r.role = h.role
  BY <1>1, <1>4, TakeCommitKeeps
<1> HIDE DEF r
<1>7. k = MaxIndex /\ ~(s.commit < r.commit /\ GetLastIndex(m.log) < r.commit) =>
        r.commit = s.commit \/ (r.commit <= m.commit /\ Same(r.log, leaderLog[m.term], r.commit))
  <2> SUFFICES ASSUME k = MaxIndex, ~(s.commit < r.commit /\ GetLastIndex(m.log) < r.commit),
                      r.commit # s.commit
               PROVE  r.commit <= m.commit /\ Same(r.log, leaderLog[m.term], r.commit)
    OBVIOUS
  <2>1. PICK g \in Log, c \in 0 .. MaxIndex : g = h.log /\ c = r.commit
    BY <1>5, <1>6 DEF Good, State
  <2>2. GetLastIndex(m.log) \in Nat
    BY <1>1, LastIndex, Numbers DEF Append
  <2>3. c <= GetLastIndex(g) /\ c \in Nat
    BY <1>4, <1>6, <2>1, Numbers
  <2>4. CASE c <= s.commit
    <3>1. Same(f.log, leaderLog[m.term], c)
      BY <1>1, <1>2, <2>3, <2>4, SameShorter
    <3>2. Same(g, leaderLog[m.term], c)
      BY <1>5, <2>1, <2>3, <3>1, TakesSame
    <3> QED BY <1>4, <1>6, <2>1, <3>2
  <2>5. CASE s.commit < c
    <3>1. f.applied < c /\ c <= GetLastIndex(m.log)
      BY <1>1, <2>1, <2>2, <2>3, <2>5
    <3>2. Same(g, leaderLog[m.term], c)
      BY <1>1, <1>2, <1>5, <2>1, <2>3, <3>1, CommitAgrees
    <3> QED BY <1>4, <1>6, <2>1, <3>2
  <2> QED BY <1>1, <2>3, <2>4, <2>5
<1>8. k = MaxIndex =>
        \A x \in Taken(f, m) :
            Same(h.log, leaderLog[m.term], x) /\ (x # 0 => leaderLog[m.term][x] # 0)
  <2> SUFFICES ASSUME k = MaxIndex, NEW x \in Taken(f, m)
               PROVE  Same(h.log, leaderLog[m.term], x) /\ (x # 0 => leaderLog[m.term][x] # 0)
    OBVIOUS
  <2> QED BY <1>1, <1>2, <1>3, <1>5, TakenAgrees
<1> QED BY <1>2, <1>4, <1>5, <1>6, <1>7, <1>8 DEF r, h

\* AppendEntries, when nothing slips.
LEMMA AppendStep ==
    ASSUME LogInv, LogInv', VoteInv, AgreeInv, slips' = {},
           NEW n \in Node, NEW m \in appends, AppendEntries(n, m)
    PROVE  AgreeInv'
<1> DEFINE s == node[n]
           w == Follow(s, m)
           f == ForgetVote(w)
           h == SetLog(f, m, MaxIndex)
           full == TakeCommit(h, m)
           r == Appended(s, m)
<1>1. /\ m \in Append /\ ~Denied(s, m) /\ node' = [node EXCEPT ![n] = r]
      /\ polls' = polls /\ appends' = appends /\ ballots' = ballots /\ led' = led
      /\ leaderLog' = leaderLog /\ node \in [Node -> State]
      /\ match \in [Node -> [Term -> 0 .. MaxIndex]] /\ m.term \in Term /\ m.prev \in 0 .. MaxIndex
  BY Types DEF AppendEntries, LogInv, TypeOK
<1>2. \A x \in {w, f} :
        /\ Good(x) /\ s.term <= m.term
        /\ x.log = s.log /\ x.applied = s.applied /\ x.commit = s.commit
        /\ x.term = m.term /\ x.role # "Leader"
        /\ x.role = "Candidate" => s.role = "Candidate" /\ s.term = m.term
  BY <1>1, AllGood, FollowKeeps
<1>3. Led(m.term)
  BY Types DEF AgreeInv, CallsAreLeaders, FromLeader, Led
<1>4. (PrevMatches(w, m) <=> PrevMatches(f, m)) /\ Taken(w, m) = Taken(f, m)
  BY <1>2 DEF PrevMatches, Taken, Conflicts, Sent
<1>5. /\ match' = IF PrevMatches(f, m)
                  THEN [match EXCEPT ![n][m.term] = Greatest(Taken(f, m) \cup {match[n][m.term]})]
                  ELSE match
      /\ AppendSlips(s, node'[n], m) = {}
  BY <1>4 DEF AppendEntries
<1>6. /\ \A k \in Node \ {n} : node'[k] = node[k] /\ match'[k] = match[k]
      /\ node'[n] = r
      /\ ~PrevMatches(f, m) => match'[n] = match[n]
      /\ PrevMatches(f, m) =>
            /\ match'[n][m.term] = Greatest(Taken(f, m) \cup {match[n][m.term]})
            /\ \A t \in Term \ {m.term} : match'[n][t] = match[n][t]
  BY <1>1, <1>5
<1>7. r = IF PrevMatches(f, m) THEN ApplyLogs(full) ELSE f
  BY DEF Appended
<1> HIDE DEF f, r, w
<1>8. CASE ~PrevMatches(f, m)
  <2>1. /\ node'[n].term \in Term /\ node[n].term <= node'[n].term /\ node'[n].role # "Leader"
        /\ node'[n].log = node[n].log /\ node'[n].commit = node[n].commit
        /\ node[n].commit \in 0 .. MaxIndex
    BY <1>1, <1>2, <1>6, <1>7, <1>8, Types
  <2>2. node'[n].commit <= node[n].commit
    BY <2>1, Numbers
  <2>3. Settles(n)
    BY <1>6, <1>8, <2>1, <2>2, Settled
  <2>4. node'[n].role = "Candidate" => node[n].role = "Candidate" /\ node'[n].term = node[n].term
    BY <1>2, <1>6, <1>7, <1>8
  <2> QED BY <1>1, <1>6, <2>1, <2>3, <2>4, QuietOne
<1>9. CASE PrevMatches(f, m)
  <2>1. MaxIndex \in Nat /\ Good(f)
    BY <1>2, BoundAssumption
  <2>2. Good(h)
    BY <1>1, <2>1, SetLogKeeps
  <2>3. full.log = h.log /\ Good(full)
    BY <1>1, <2>2, TakeCommitKeeps
  <2>4. node'[n].log = full.log /\ node'[n].commit = full.commit
        /\ node'[n].term = full.term /\ node'[n].role = full.role
    BY <1>6, <1>7, <1>9, <2>3, ApplyKeeps DEF Good
  <2>5. /\ Dense(h.log)
        /\ ~(s.commit < full.commit /\ GetLastIndex(m.log) < full.commit)
    BY <1>5, <2>3, <2>4 DEF AppendSlips
  <2>6. /\ Same(s.log, leaderLog[m.term], s.commit)
        /\ full.log \in Log /\ Takes(s.log, full.log, m)
        /\ full.term = f.term /\ full.role = f.role
        /\ full.commit = s.commit \/ (full.commit <= m.commit /\ Same(full.log, leaderLog[m.term], full.commit))
        /\ \A x \in Taken(f, m) :
             Same(full.log, leaderLog[m.term], x) /\ (x # 0 => leaderLog[m.term][x] # 0)
    BY <1>2, <1>9, <2>1, <2>5, Received
  <2> HIDE DEF full, h
  <2>7. PICK g \in Log, c \in 0 .. MaxIndex : g = full.log /\ c = full.commit
    BY <2>3, <2>6 DEF Good, State
  <2>8. c <= s.commit \/ (c <= m.commit /\ Same(g, leaderLog[m.term], c))
    <3>1. c <= c
      BY <2>7, Numbers
    <3> QED BY <2>6, <2>7, <3>1
  <2>9. \A t \in Term : match'[n][t] # match[n][t] =>
            /\ t = m.term /\ match[n][t] < match'[n][t]
            /\ leaderLog[t][match'[n][t]] # 0 /\ Same(g, leaderLog[t], match'[n][t])
    <3> SUFFICES ASSUME NEW t \in Term, match'[n][t] # match[n][t]
                 PROVE  /\ t = m.term /\ match[n][t] < match'[n][t]
                        /\ leaderLog[t][match'[n][t]] # 0 /\ Same(g, leaderLog[t], match'[n][t])
      OBVIOUS
    <3> DEFINE S == Taken(f, m) \cup {match[n][m.term]}
    <3>1. t = m.term /\ match'[n][t] = Greatest(S)
      BY <1>6, <1>9
    <3>2. match[n][t] \in 0 .. MaxIndex /\ match[n][t] \in Nat
      BY Types
    <3>3. S \in SUBSET (0 .. MaxIndex)
      BY <1>1, <3>1, <3>2, TakenIs
    <3>4. Greatest(S) \in S /\ Greatest(S) \in Nat /\ match[n][t] <= Greatest(S)
      BY <3>1, <3>3, GreatestOf, Numbers
    <3> HIDE DEF S
    <3>5. match[n][t] < match'[n][t] /\ match'[n][t] # 0
      BY <3>1, <3>2, <3>4
    <3>6. match'[n][t] \in Taken(f, m)
      BY <3>1, <3>4 DEF S
    <3> QED BY <2>6, <2>7, <3>1, <3>5, <3>6
  <2>10. Dense(g) /\ node'[n].log = g /\ node'[n].commit = c
    BY <2>3, <2>4, <2>5, <2>7
  <2>11. /\ node'[n].term = m.term /\ node'[n].role = f.role /\ node'[n].role # "Leader"
         /\ node[n].term <= m.term /\ Takes(node[n].log, g, m)
    BY <1>2, <2>4, <2>6, <2>7
  <2>12. Settles(n)
    BY <2>6, <2>8, <2>9, <2>10, <2>11, TakesSettles
  <2>13. node'[n].role = "Candidate" =>
          node[n].role = "Candidate" /\ node'[n].term = node[n].term /\ Led(node[n].term)
    BY <1>2, <1>3, <2>11
  <2> QED BY <1>1, <1>6, <2>12, <2>13, QuietOne
<1> QED BY <1>8, <1>9

--------------------------------------------------------------------------------
\* Crashes

LEMMA RestartedKeeps ==
    ASSUME NEW s \in State
    PROVE  /\ Restarted(s).log = s.log /\ Restarted(s).commit = s.applied
           /\ Restarted(s).term = s.term /\ Restarted(s).role = "Follower"
BY DEF Restarted, State

\* A crash that leaves the log alone.
LEMMA CrashStep ==
    ASSUME LogInv, LogInv', VoteInv, AgreeInv, NEW n \in Node, NEW x, Crash(n, x), Good(x),
           x.log = node[n].log, x.applied = node[n].applied, node[n].term <= x.term
    PROVE  AgreeInv'
<1>1. /\ node' = [node EXCEPT ![n] = Restarted(x)] /\ node \in [Node -> State] /\ x \in State
      /\ polls' = polls /\ appends' = appends /\ match' = match /\ ballots' = ballots
      /\ led' = led /\ leaderLog' = leaderLog
  BY DEF Crash, LogInv, TypeOK, Good
<1>2. /\ \A k \in Node \ {n} : node'[k] = node[k] /\ match'[k] = match[k]
      /\ node'[n] = Restarted(x) /\ match'[n] = match[n]
  BY <1>1
<1>3. /\ node'[n].log = node[n].log /\ node'[n].commit = node[n].applied
      /\ node'[n].term = x.term /\ node'[n].role = "Follower"
  BY <1>1, <1>2, RestartedKeeps
<1>4. /\ node'[n].term \in Term /\ node'[n].commit \in 0 .. MaxIndex
      /\ node'[n].commit <= node[n].commit
  BY <1>3, Types, TypesNext
<1>5. Settles(n)
  BY <1>2, <1>3, <1>4, Settled
<1> QED BY <1>1, <1>2, <1>3, <1>5, QuietOne

\* A crash behind part of what AppendEntries makes of the log.
LEMMA CrashBehindCopy ==
    ASSUME LogInv, LogInv', VoteInv, AgreeInv, NEW n \in Node, NEW m \in appends,
           NEW x, Crash(n, x), Good(x), node[n].term <= m.term, x.term = m.term,
           Same(node[n].log, leaderLog[m.term], node[n].commit),
           Takes(node[n].log, x.log, m), Dense(x.log),
           x.applied <= node[n].commit \/
              (x.applied <= m.commit /\ Same(x.log, leaderLog[m.term], x.applied))
    PROVE  AgreeInv'
<1>1. /\ node' = [node EXCEPT ![n] = Restarted(x)] /\ node \in [Node -> State] /\ x \in State
      /\ polls' = polls /\ appends' = appends /\ match' = match /\ ballots' = ballots
      /\ led' = led /\ leaderLog' = leaderLog
  BY DEF Crash, LogInv, TypeOK, Good
<1>2. /\ \A k \in Node \ {n} : node'[k] = node[k] /\ match'[k] = match[k]
      /\ node'[n] = Restarted(x) /\ match'[n] = match[n]
  BY <1>1
<1>3. /\ node'[n].log = x.log /\ node'[n].commit = x.applied
      /\ node'[n].term = m.term /\ node'[n].role = "Follower"
  BY <1>1, <1>2, RestartedKeeps
<1>4. PICK g \in Log, c \in 0 .. MaxIndex : g = x.log /\ c = x.applied
  BY <1>1 DEF State
<1>5. Settles(n)
  <2>1. \A t \in Term : match'[n][t] = match[n][t]
    BY <1>2
  <2>2. node'[n].role # "Leader"
    BY <1>3
  <2> QED BY <1>3, <1>4, <2>1, <2>2, TakesSettles
<1> QED BY <1>1, <1>2, <1>3, <1>5, QuietOne

\* Crashes between two handlers, and between two calls of the storage inside one.
LEMMA CrashSteps ==
    ASSUME LogInv, LogInv', VoteInv, AgreeInv, NEW n \in Node,
           \/ CrashIdle(n) \/ CrashInElection(n)
           \/ \E p \in polls : CrashInRequestVote(n, p)
           \/ \E m \in appends : CrashInAppend(n, m) /\ slips' = {}
    PROVE  AgreeInv'
<1> DEFINE s == node[n]
<1>1. /\ Good(s) /\ s \in State /\ s.term \in Term /\ s.term \in Nat
      /\ s.applied \in Nat /\ s.commit \in Nat /\ s.applied <= s.commit
  <2>1. s.applied \in 0 .. MaxIndex /\ s.commit \in 0 .. MaxIndex /\ s.applied <= s.commit
    BY Types
  <2> QED BY <2>1, Types, AllGood, Numbers
<1>2. CASE CrashIdle(n)
  <2>1. Crash(n, s) /\ s.term <= s.term
    BY <1>1, <1>2 DEF CrashIdle
  <2> QED BY <1>1, <2>1, CrashStep
<1>3. CASE CrashInElection(n)
  <2> DEFINE x == [s EXCEPT !.term = s.term + 1]
  <2>1. Crash(n, x) /\ s.term + 1 \in Term
    BY <1>1, <1>3, BoundAssumption DEF CrashInElection, Term
  <2>2. /\ x \in State /\ x.log = s.log /\ x.applied = s.applied /\ x.commit = s.commit
        /\ x.term = s.term + 1
    BY <1>1, <2>1, WithTerm
  <2> HIDE DEF x
  <2>3. Good(x) /\ s.term <= x.term
    BY <1>1, <2>2, FieldsGrow DEF Grows
  <2> QED BY <1>1, <2>1, <2>2, <2>3, CrashStep
<1>4. ASSUME NEW p \in polls, CrashInRequestVote(n, p) PROVE AgreeInv'
  <2> DEFINE b == BiggerTerm(s, p.term)
  <2>1. p.term \in Term /\ p.term \in Nat /\ s.term <= p.term
    BY <1>1, <1>4, Types DEF CrashInRequestVote
  <2>2. Good(b) /\ b.term = p.term
    BY <1>1, <2>1, BiggerTermIs DEF Grows
  <2>3. b.log = s.log /\ b.applied = s.applied
    BY <1>1, <2>1 DEF BiggerTerm, ConvertFollower, State
  <2>4. PICK x \in {b, ForgetVote(b)} : Crash(n, x)
    BY <1>4 DEF CrashInRequestVote
  <2> HIDE DEF b
  <2>5. Good(ForgetVote(b)) /\ ForgetVote(b).term = p.term
    BY <2>2, ForgetVoteIs DEF Grows
  <2>6. ForgetVote(b).log = s.log /\ ForgetVote(b).applied = s.applied
    BY <2>2, <2>3 DEF Good, State, ForgetVote
  <2> QED BY <2>1, <2>2, <2>3, <2>4, <2>5, <2>6, CrashStep
<1>5. ASSUME NEW m \in appends, CrashInAppend(n, m), slips' = {} PROVE AgreeInv'
  <2> DEFINE f == ForgetVote(Follow(s, m))
             full == TakeCommit(SetLog(f, m, MaxIndex), m)
  <2>1. m \in Append /\ ~Denied(s, m)
    BY <1>5 DEF CrashInAppend, LogInv, TypeOK
  <2>2. \A w \in {Follow(s, m), f} :
          /\ Good(w) /\ s.term <= m.term
          /\ w.log = s.log /\ w.applied = s.applied /\ w.commit = s.commit
          /\ w.term = m.term
    BY <1>1, <2>1, FollowKeeps
  <2>3. PICK x \in CutShort(s, m) : Crash(n, x) /\ AppendSlips(s, x, m) = {}
    BY <1>5 DEF CrashInAppend
  <2>9. Dense(x.log) /\ ~(s.commit < x.commit /\ GetLastIndex(m.log) < x.commit)
    BY <2>3 DEF AppendSlips
  <2>4. \/ x = s \/ x \in {Follow(s, m), f}
        \/ /\ PrevMatches(f, m)
           /\ \/ \E k \in Index : x = SetLog(f, m, k)
              \/ \E a \in Applicable(full) : x = [full EXCEPT !.applied = a]
    BY <2>3 DEF CutShort
  <2> HIDE DEF f
  <2>5. CASE x = s
    <3>1. s.term <= s.term
      BY <1>1
    <3> QED BY <1>1, <2>3, <2>5, <3>1, CrashStep
  <2>6. CASE x \in {Follow(s, m), f}
    BY <1>1, <2>2, <2>3, <2>6, CrashStep
  <2>7. ASSUME PrevMatches(f, m), NEW k \in Index, x = SetLog(f, m, k)
        PROVE  AgreeInv'
    <3>1. k \in Nat
      BY Numbers
    <3>2. /\ Same(s.log, leaderLog[m.term], s.commit)
          /\ Takes(s.log, x.log, m) /\ x.term = f.term /\ x.applied = f.applied /\ Good(x)
      BY <2>2, <2>7, <2>9, <3>1, Received
    <3>3. x.applied <= s.commit
      BY <1>1, <2>2, <3>2
    <3> QED BY <2>2, <2>3, <2>9, <3>2, <3>3, CrashBehindCopy
  <2>8. ASSUME PrevMatches(f, m), NEW a \in Applicable(full), x = [full EXCEPT !.applied = a]
        PROVE  AgreeInv'
    <3> DEFINE h == SetLog(f, m, MaxIndex)
    <3>6. MaxIndex \in Nat /\ Good(f)
      BY <2>2, BoundAssumption
    <3>7. Good(h)
      BY <2>1, <3>6, SetLogKeeps
    <3>8. full.log = h.log /\ Good(full)
      BY <2>1, <3>7, TakeCommitKeeps
    <3>9. x.log = full.log /\ x.commit = full.commit
      BY <2>8, <3>8 DEF Good, State
    <3>10. Dense(h.log) /\ ~(s.commit < full.commit /\ GetLastIndex(m.log) < full.commit)
      BY <2>9, <3>8, <3>9
    <3>1. /\ Same(s.log, leaderLog[m.term], s.commit)
          /\ Takes(s.log, full.log, m) /\ full.term = f.term /\ Good(full)
          /\ full.commit = s.commit \/ (full.commit <= m.commit /\ Same(full.log, leaderLog[m.term], full.commit))
      BY <2>2, <2>8, <3>6, <3>10, Received
    <3> HIDE DEF full, h
    <3>2. Good(x)
      BY <2>8, <3>1, AnyApplicable DEF Grows
    <3>3. /\ x.log = full.log /\ x.term = full.term /\ x.applied = a
          /\ full.applied \in 0 .. MaxIndex /\ full.commit \in 0 .. MaxIndex
      BY <2>8, <3>1 DEF Good, State
    <3>4. a \in Nat /\ a <= full.commit
      BY <3>3, BoundAssumption DEF Applicable
    <3>5. x.applied <= s.commit \/ (x.applied <= m.commit /\ Same(x.log, leaderLog[m.term], x.applied))
      <4>1. CASE full.commit = s.commit
        BY <3>3, <3>4, <4>1
      <4>2. CASE full.commit <= m.commit /\ Same(full.log, leaderLog[m.term], full.commit)
        <5>1. m.commit \in Nat /\ full.commit \in Nat
          BY <3>3, Types, Numbers
        <5>2. a <= m.commit
          BY <3>4, <4>2, <5>1
        <5>3. Same(full.log, leaderLog[m.term], a)
          BY <3>4, <4>2, <5>1, SameShorter
        <5> QED BY <3>3, <5>2, <5>3
      <4> QED BY <3>1, <4>1, <4>2
    <3> QED BY <2>2, <2>3, <2>9, <3>1, <3>2, <3>3, <3>5, CrashBehindCopy
  <2> QED BY <2>4, <2>5, <2>6, <2>7, <2>8
<1> QED BY <1>2, <1>3, <1>4, <1>5

--------------------------------------------------------------------------------
\* Steps of a node's fields

\* A step of one node that keeps its log, and does not make it a leader.
LEMMA FieldsStep ==
    ASSUME LogInv, LogInv', VoteInv, AgreeInv, NEW n \in Node,
           UNCHANGED <<leaderLog, led, polls, ballots, appends, match>>,
           \A k \in Node \ {n} : node'[k] = node[k],
           node'[n].log = node[n].log, node'[n].commit = node[n].commit,
           node[n].term <= node'[n].term,
           node'[n].role # "Follower" => node'[n].role = node[n].role /\ node'[n].term = node[n].term
    PROVE  AgreeInv'
<1>1. /\ node'[n].term \in Term /\ node'[n].commit \in 0 .. MaxIndex
      /\ node'[n].commit <= node[n].commit
  BY Types, TypesNext, Numbers
<1>2. Settles(n)
  BY <1>1, Settled
<1> QED BY <1>2, QuietOne

\* The driver's answers, and the leader's own applying.
LEMMA ReactSteps ==
    ASSUME LogInv, LogInv', VoteInv, AgreeInv, NEW n \in Node,
           \/ \E v \in Node : ReactVote(n, v) \/ ReactNewTerm(n, v)
           \/ LeaderApplies(n)
    PROVE  AgreeInv'
<1>1. node \in [Node -> State] /\ node[n] \in State /\ Good(node[n]) /\ node[n].term \in Nat
  BY AllGood, Types DEF LogInv, TypeOK
<1>2. node[n].term <= node[n].term
  BY <1>1
<1>3. ASSUME NEW v \in Node, ReactVote(n, v) PROVE AgreeInv'
  <2> DEFINE r == [node[n] EXCEPT !.votes = node[n].votes \cup {v}]
  <2>1. node' = [node EXCEPT ![n] = r] /\ UNCHANGED <<leaderLog, led, polls, ballots, appends, match>>
    BY <1>1, <1>3 DEF ReactVote
  <2>2. /\ r.log = node[n].log /\ r.commit = node[n].commit /\ r.term = node[n].term
        /\ r.role = node[n].role
    <3>1. node[n].votes \cup {v} \in SUBSET Node
      BY <1>1 DEF State
    <3> QED BY <1>1, <3>1, WithVotes
  <2> HIDE DEF r
  <2>3. node'[n] = r /\ \A k \in Node \ {n} : node'[k] = node[k]
    BY <1>1, <2>1
  <2> QED BY <1>2, <2>1, <2>2, <2>3, FieldsStep
<1>4. ASSUME NEW v \in Node, ReactNewTerm(n, v) PROVE AgreeInv'
  <2> DEFINE r == BiggerTerm(node[n], node[v].term)
  <2>1. node' = [node EXCEPT ![n] = r] /\ UNCHANGED <<leaderLog, led, polls, ballots, appends, match>>
    BY <1>1, <1>4 DEF ReactNewTerm
  <2>2. node[v].term \in Term /\ node[v].term \in Nat /\ node[n].term <= node[v].term
    BY <1>1, <1>4, Types DEF ReactNewTerm
  <2>3. /\ r.log = node[n].log /\ r.commit = node[n].commit /\ r.term = node[v].term
        /\ r.role = "Follower"
    BY <1>1, <2>2 DEF BiggerTerm, ConvertFollower, State
  <2> HIDE DEF r
  <2>4. node'[n] = r /\ \A k \in Node \ {n} : node'[k] = node[k]
    BY <1>1, <2>1
  <2> QED BY <2>1, <2>2, <2>3, <2>4, FieldsStep
<1>5. CASE LeaderApplies(n)
  <2> DEFINE r == ApplyLogs(node[n])
  <2>1. node' = [node EXCEPT ![n] = r] /\ UNCHANGED <<leaderLog, led, polls, ballots, appends, match>>
    BY <1>1, <1>5 DEF LeaderApplies
  <2>2. /\ r.log = node[n].log /\ r.commit = node[n].commit /\ r.term = node[n].term
        /\ r.role = node[n].role
    BY <1>1, ApplyKeeps
  <2> HIDE DEF r
  <2>3. node'[n] = r /\ \A k \in Node \ {n} : node'[k] = node[k]
    BY <1>1, <2>1
  <2> QED BY <1>2, <2>1, <2>2, <2>3, FieldsStep
<1> QED BY <1>3, <1>4, <1>5

\* A leader owns its term.
LEMMA LeaderIs ==
    ASSUME LogInv, AgreeInv, NEW n \in Node, node[n].role = "Leader"
    PROVE  /\ <<n, node[n].term>> \in led /\ Led(node[n].term) /\ node[n].term # 0
           /\ leaderLog[node[n].term] = node[n].log
<1>1. <<n, node[n].term>> \in led /\ leaderLog[node[n].term] = node[n].log
  BY DEF AgreeInv, LeadersOwn
<1>2. node[n].term # 0
  BY <1>1 DEF AgreeInv, LeadersOwn
<1> QED BY <1>1, <1>2 DEF Led

\* The leader commits, when nothing slips: an entry of its own that most nodes have.
LEMMA CommitStep ==
    ASSUME LogInv, LogInv', VoteInv, AgreeInv, slips' = {}, NEW n \in Node, NEW i \in Index, SetCommitIndex(n, i)
    PROVE  AgreeInv'
<1> DEFINE r == [node[n] EXCEPT !.commit = i]
           t == node[n].term
<1>1. /\ node' = [node EXCEPT ![n] = r] /\ node \in [Node -> State] /\ node[n] \in State
      /\ polls' = polls /\ appends' = appends /\ match' = match /\ ballots' = ballots
      /\ led' = led /\ leaderLog' = leaderLog
      /\ node[n].role = "Leader" /\ node[n].log[i] = t
      /\ 2 * Cardinality(Copied(t, i)) > Cardinality(Node)
      /\ t \in Term /\ t \in Nat
  BY Types DEF SetCommitIndex, LogInv, TypeOK
<1>2. r.log = node[n].log /\ r.commit = i /\ r.term = t /\ r.role = "Leader"
  BY <1>1 DEF State
<1> HIDE DEF r
<1>3. /\ \A k \in Node \ {n} : node'[k] = node[k] /\ match'[k] = match[k]
      /\ node'[n] = r /\ match'[n] = match[n]
  BY <1>1
<1>4. t # 0 /\ leaderLog[t] = node[n].log
  BY <1>1, LeaderIs
<1>5. Committed(t, i)
  <2>1. Copied(t, i) \subseteq Node
    BY DEF Copied
  <2> QED BY <1>1, <1>4, <2>1 DEF Committed, Own, Majority
<1>6. Backed(node[n].log, i, t)
  <2>1. t <= t /\ i <= i
    BY <1>1, Numbers
  <2>2. Same(node[n].log, leaderLog[t], i)
    BY <1>4 DEF Same
  <2> QED BY <1>1, <1>5, <2>1, <2>2 DEF Backed
<1>7. Settles(n)
  <2>1. Made(node[n].log, t)
    BY DEF AgreeInv, LogsAreLeaders
  <2>2. \A u \in Term, k \in Index : k <= match'[n][u] /\ Own(u, k) =>
          Blocked(u, k) \/ Same(node'[n].log, leaderLog[u], k)
    BY <1>2, <1>3 DEF AgreeInv, CopiesKept
  <2>3. t <= t
    BY <1>1
  <2>4. Dense(node[n].log)
    BY DEF AgreeInv, LogsAreLeaders
  <2> QED BY <1>1, <1>2, <1>3, <1>6, <2>1, <2>2, <2>3, <2>4 DEF Settles
<1> QED BY <1>1, <1>2, <1>3, <1>7, QuietOne

\* The leader sends a piece of its log, and its commit index.
LEMMA SendStep ==
    ASSUME LogInv, LogInv', VoteInv, AgreeInv,
           NEW n \in Node, NEW prev \in 0 .. MaxIndex, NEW end \in 0 .. MaxIndex,
           SendEntries(n, prev, end)
    PROVE  AgreeInv'
<1> DEFINE t == node[n].term
           c == node[n].commit
           e == [i \in Index |-> IF prev <= i /\ i <= end THEN node[n].log[i] ELSE 0]
           m == [from |-> n, term |-> t, prev |-> prev, commit |-> c, log |-> e]
<1>1. /\ UNCHANGED <<node, polls, match, ballots, led, leaderLog>>
      /\ appends' = appends \cup {m}
      /\ node[n].role = "Leader" /\ {prev, end} \subseteq Present(node[n].log) \cup {0}
      /\ prev <= end
  BY DEF SendEntries
<1>2. PICK L \in Log : 
        /\ L = node[n].log /\ c \in 0 .. MaxIndex
        /\ t \in Term /\ t \in Nat /\ Dense(L)
        /\ <<n, t>> \in led /\ leaderLog[t] = L /\ Backed(L, c, t)
  BY <1>1, Types, LeaderIs DEF AgreeInv, CommitsBacked, LogsAreLeaders
<1>3. end \in Nat /\ prev \in Nat /\ \A i \in Index : i \in Nat /\ i # 0
  BY Numbers
<1>4. e \in Log
  BY <1>2, Numbers DEF Log
<1>5. \A i \in Index : /\ e[i] # 0 => prev <= i /\ i <= end /\ e[i] = L[i]
                       /\ prev <= i /\ i <= end => e[i] = L[i]
  BY <1>2
<1> HIDE DEF c, e
<1>6. end # 0 => end \in Index /\ L[end] # 0
  BY <1>1, <1>2, <1>3, Numbers DEF Present
<1>7. GetLastIndex(e) = end
  <2>1. \A i \in Index : e[i] # 0 => i <= end
    BY <1>5
  <2>2. CASE end = 0
    <3>1. \A i \in Index : e[i] = 0
      BY <1>3, <2>1, <2>2
    <3> QED BY <2>2, <3>1 DEF GetLastIndex, Present
  <2>3. CASE end # 0
    <3>1. end \in Present(e) /\ Present(e) # {}
      <4>1. end \in Index /\ prev <= end /\ end <= end /\ L[end] # 0
        BY <1>1, <1>3, <1>6, <2>3
      <4> QED BY <1>5, <4>1 DEF Present
    <3>2. Present(e) \in SUBSET (0 .. MaxIndex) /\ \A i \in Present(e) : i <= end /\ i \in Nat
      BY <1>3, <2>1, Numbers DEF Present
    <3>3. GetLastIndex(e) \in Present(e) /\ end <= GetLastIndex(e)
      BY <3>1, <3>2, GreatestOf DEF GetLastIndex
    <3> QED BY <1>3, <3>2, <3>3
  <2> QED BY <2>2, <2>3
<1>8. \A i \in Index : prev <= i /\ i <= end => e[i] # 0
  <2> SUFFICES ASSUME NEW i \in Index, prev <= i, i <= end
               PROVE  e[i] # 0
    OBVIOUS
  <2>1. end # 0
    BY <1>3
  <2>2. L[i] # 0
    BY <1>2, <1>6, <2>1 DEF Dense
  <2> QED BY <1>5, <2>2
<1>9. FromLeader(m)
  BY <1>1, <1>2, <1>5, <1>7, <1>8 DEF FromLeader
<1> HIDE DEF m
<1>10. \A k \in Node : Settles(k)
  <2> TAKE k \in Node
  <2>1. /\ node[k].term \in Term /\ node[k].term <= node[k].term
        /\ node[k].commit \in 0 .. MaxIndex /\ node[k].commit <= node[k].commit
    BY Types, Numbers
  <2> QED BY <1>1, <2>1, Settled
<1>11. Onward /\ QuietInv'
  BY <1>1, <1>10, QuietStep
<1>12. CallsAreLeaders'
  <2>1. \A k \in appends' : FromLeader(k)
    BY <1>1, <1>9 DEF AgreeInv, CallsAreLeaders
  <2>2. \A k : FromLeader(k) => FromLeader(k)'
    BY <1>1 DEF FromLeader, Backed, Committed, Own, Copied, Same, Majority
  <2> QED BY <2>1, <2>2 DEF CallsAreLeaders
<1>13. Candidates'
  BY <1>1 DEF AgreeInv, Candidates, Led
<1>14. VotesSafe'
  <2>1. \A u \in Term, k \in Index : Own(u, k)' => Own(u, k)
    BY <1>1 DEF Own
  <2> QED BY <1>1, <1>11, <2>1, KeptVotes DEF VotesSafe
<1> QED BY <1>11, <1>12, <1>13, <1>14 DEF AgreeInv, QuietInv

--------------------------------------------------------------------------------
\* Steps that give a vote

LEMMA RaiseStep ==
    ASSUME LogInv, LogInv', VoteInv, AgreeInv, NEW n \in Node, RaiseElection(n)
    PROVE  AgreeInv'
<1> DEFINE s == node[n]
           t == s.term + 1
           r == Raised(s, n, t)
           p == [cand |-> n, term |-> t, lastIndex |-> GetLastIndex(s.log), lastTerm |-> GetLastTerm(s.log)]
<1>1. /\ t \in Term /\ t \in Nat /\ s.term \in Nat /\ s \in State /\ node \in [Node -> State]
      /\ s.commit \in 0 .. MaxIndex /\ s.commit <= s.commit
  <2>1. s.term \in Nat /\ t <= MaxTerm
    BY Types DEF RaiseElection
  <2>2. t \in Term
    BY <2>1, BoundAssumption DEF Term
  <2> QED BY <2>1, <2>2, Types, Numbers DEF LogInv, TypeOK
<1>2. /\ node' = [node EXCEPT ![n] = r]
      /\ polls' = polls \cup {p} /\ ballots' = ballots \cup {<<n, n, t>>}
      /\ UNCHANGED <<appends, match, led, leaderLog>>
  BY <1>1 DEF RaiseElection, Raised
<1>3. r.log = s.log /\ r.commit = s.commit /\ r.term = t /\ r.role = "Candidate"
  BY <1>1 DEF Raised, State
<1> HIDE DEF r
<1>4. node'[n] = r /\ \A k \in Node \ {n} : node'[k] = node[k]
  BY <1>1, <1>2
<1>5. ASSUME NEW k \in Node PROVE Settles(k)
  <2>1. /\ node[k].term \in Term /\ node[k].term <= node[k].term
        /\ node[k].commit \in 0 .. MaxIndex /\ node[k].commit <= node[k].commit
    BY Types, Numbers
  <2>2. CASE k = n
    <3>1. s.term <= t
      BY <1>1
    <3> QED BY <1>1, <1>2, <1>3, <1>4, <2>2, <3>1, Settled
  <2>3. CASE k # n
    BY <1>2, <1>4, <2>1, <2>3, Settled
  <2> QED BY <2>2, <2>3
<1>6. Onward /\ QuietInv'
  BY <1>2, <1>5, QuietStep
<1>7. CallsAreLeaders'
  BY <1>2, <1>6, KeptCalls
<1>8. p.cand = n /\ p.term = t /\ p.lastIndex = GetLastIndex(s.log) /\ p.lastTerm = GetLastTerm(s.log)
  OBVIOUS
<1>9. p.lastIndex \in Nat /\ p.lastTerm \in Nat
  <2>1. s.log \in Log
    BY Types
  <2> QED BY <2>1, LastIndex, Numbers
<1> HIDE DEF p
<1>10. Candidates'
  <2>1. \A q \in polls : q.cand = n => q.term <= s.term /\ q.term \in Nat
    BY Types DEF AgreeInv, Candidates
  <2>2. \A q \in polls : ~(q.cand = p.cand /\ q.term = p.term)
    BY <1>1, <1>8, <2>1
  <2>3. \A a, b \in polls' : a.cand = b.cand /\ a.term = b.term => a = b
    BY <1>2, <2>2 DEF AgreeInv, Candidates
  <2>4. \A a \in polls' : a.term # 0 /\ a.term <= node'[a.cand].term
    <3> SUFFICES ASSUME NEW a \in polls'
                 PROVE  a.term # 0 /\ a.term <= node'[a.cand].term
      OBVIOUS
    <3>1. CASE a = p
      <4>1. t # 0 /\ t <= t
        BY <1>1
      <4> QED BY <1>3, <1>4, <1>8, <3>1, <4>1
    <3>2. CASE a \in polls
      <4>1. /\ a.cand \in Node /\ a.term \in Nat /\ a.term # 0 /\ a.term <= node[a.cand].term
            /\ node[a.cand].term \in Nat /\ node'[a.cand].term \in Nat
        BY <3>2, Types, TypesNext DEF AgreeInv, Candidates
      <4>2. node[a.cand].term <= node'[a.cand].term
        BY <1>6, <4>1 DEF Onward
      <4> QED BY <4>1, <4>2
    <3> QED BY <1>2, <3>1, <3>2
  <2>5. ASSUME NEW k \in Node, node'[k].role = "Candidate"
        PROVE  /\ <<k, node'[k].term>> \notin led
               /\ \E a \in polls' :
                    /\ a.cand = k /\ a.term = node'[k].term
                    /\ ~Led(a.term) =>
                         a.lastIndex = GetLastIndex(node'[k].log) /\ a.lastTerm = GetLastTerm(node'[k].log)
    <3>1. CASE k = n
      <4>1. \A l \in led : l[1] = n => l[2] <= s.term /\ l[2] \in Nat
        BY Types DEF AgreeInv, LeadersOwn
      <4>2. <<n, t>> \notin led
        BY <1>1, <4>1
      <4> QED BY <1>2, <1>3, <1>4, <1>8, <3>1, <4>2
    <3>2. CASE k # n
      BY <1>2, <1>4, <2>5, <3>2 DEF AgreeInv, Candidates
    <3> QED BY <3>1, <3>2
  <2> QED BY <1>2, <2>3, <2>4, <2>5 DEF Candidates, Led
<1>11. VotesSafe'
  <2>1. \A u \in Term, k \in Index : Own(u, k)' => Own(u, k)
    BY <1>2 DEF Own
  <2>2. ASSUME NEW b \in ballots'
        PROVE  \E a \in polls' :
                  /\ a.cand = b[2] /\ a.term = b[3]
                  /\ \A u \in Term, k \in Index :
                       u < b[3] /\ k <= match'[b[1]][u] /\ Own(u, k)' =>
                          Blocked(u, k)' \/ (k <= a.lastIndex /\ u <= a.lastTerm)
    <3>1. CASE b \in ballots
      BY <1>2, <1>6, <2>1, <3>1, KeptVotes
    <3>2. CASE b = <<n, n, t>>
      <4>1. ASSUME NEW u \in Term, NEW k \in Index, k <= match'[n][u], Own(u, k)'
            PROVE  Blocked(u, k)' \/ (k <= p.lastIndex /\ u <= p.lastTerm)
        <5>1. GetLastIndex(s.log) <= p.lastIndex /\ GetLastTerm(s.log) <= p.lastTerm
          BY <1>8, <1>9
        <5>2. Blocked(u, k) \/ (k <= p.lastIndex /\ u <= p.lastTerm)
          BY <1>2, <1>9, <2>1, <4>1, <5>1, VoterAllows
        <5>3. Blocked(u, k) => Blocked(u, k)'
          BY <1>6, OnwardKeeps DEF AgreeInv
        <5> QED BY <5>2, <5>3
      <4>2. p \in polls' /\ b[1] = n /\ b[2] = n /\ b[3] = t
        BY <1>2, <3>2
      <4> QED BY <1>8, <4>1, <4>2
    <3> QED BY <1>2, <3>1, <3>2
  <2> QED BY <2>2 DEF VotesSafe
<1> QED BY <1>6, <1>7, <1>10, <1>11 DEF AgreeInv, QuietInv

\* A vote is given to a candidate whose last entry is no earlier than the voter's.
LEMMA RequestStep ==
    ASSUME LogInv, LogInv', VoteInv, AgreeInv, NEW n \in Node, NEW p \in polls, RequestVote(n, p)
    PROVE  AgreeInv'
<1> DEFINE s == node[n]
           r == node'[n]
<1>1. /\ p \in Poll /\ s.term <= p.term /\ s.role # "Leader" /\ s \in State /\ Good(s)
      /\ node \in [Node -> State] /\ p.term \in Term /\ p.term \in Nat /\ s.term \in Nat
      /\ p.lastIndex \in Nat /\ p.lastTerm \in Nat
      /\ s.commit \in 0 .. MaxIndex /\ s.commit <= s.commit
  <2>1. p \in Poll
    BY DEF LogInv, TypeOK
  <2>2. p.lastIndex \in 0 .. MaxIndex /\ p.lastTerm \in Term
    BY <2>1 DEF Poll
  <2>3. s.commit \in 0 .. MaxIndex /\ s.commit <= s.commit
    BY Types, Numbers
  <2>4. s.term <= p.term /\ s.role # "Leader"
    BY DEF RequestVote, Pollable
  <2>5. p.term \in Term /\ p.term \in Nat /\ s.term \in Nat /\ p.lastIndex \in Nat /\ p.lastTerm \in Nat
    BY <2>2, Types, Numbers
  <2> QED BY <2>1, <2>3, <2>4, <2>5, AllGood DEF LogInv, TypeOK
<1>2. /\ \A k \in Node \ {n} : node'[k] = node[k]
      /\ UNCHANGED <<polls, appends, match, led, leaderLog>>
      /\ r = Voted(s, p) \/ r = Polled(s, p)
  BY <1>1 DEF RequestVote
<1>3. /\ Polled(s, p) \in State /\ Polled(s, p).term = p.term
      /\ \/ s.term = p.term /\ Polled(s, p) = s
         \/ s.term < p.term /\ Polled(s, p).role = "Follower"
  BY <1>1, PolledIs DEF Grows, Good
<1>4. Polled(s, p).log = s.log /\ Polled(s, p).commit = s.commit
  BY <1>1 DEF Polled, ForgetVote, BiggerTerm, ConvertFollower, State
<1>5. /\ Voted(s, p).log = s.log /\ Voted(s, p).commit = s.commit
      /\ Voted(s, p).term = p.term /\ Voted(s, p).role = "Follower"
  <2>1. Voted(s, p).term = p.term /\ Voted(s, p).role = "Follower"
    BY <1>1, VotedIs
  <2> HIDE DEF Polled
  <2>2. Voted(s, p).log = Polled(s, p).log /\ Voted(s, p).commit = Polled(s, p).commit
    BY <1>3 DEF Voted, ConvertFollower, State
  <2> QED BY <1>4, <2>1, <2>2
<1>6. /\ r.log = s.log /\ r.commit = s.commit /\ r.term = p.term
      /\ r.role # "Follower" => r.role = s.role /\ r.term = s.term
  BY <1>2, <1>3, <1>4, <1>5
<1>7. CASE ballots' = ballots
  BY <1>1, <1>2, <1>6, <1>7, FieldsStep
<1>8. CASE Grants(s, p) /\ ballots' = ballots \cup {<<n, p.cand, p.term>>}
  <2>1. ASSUME NEW k \in Node PROVE Settles(k)
    <3>1. /\ node[k].term \in Term /\ node[k].term <= node[k].term
          /\ node[k].commit \in 0 .. MaxIndex /\ node[k].commit <= node[k].commit
      BY Types, Numbers
    <3>2. CASE k = n
      BY <1>1, <1>2, <1>6, <3>2, Settled
    <3>3. CASE k # n
      BY <1>2, <3>1, <3>3, Settled
    <3> QED BY <3>2, <3>3
  <2>2. Onward /\ QuietInv'
    BY <1>2, <2>1, QuietStep
  <2>3. CallsAreLeaders'
    BY <1>2, <2>2, KeptCalls
  <2>4. Candidates'
    <3>1. \A k \in Node : node'[k].role = "Candidate" =>
            /\ node[k].role = "Candidate" /\ node'[k].term = node[k].term
            /\ node'[k].log = node[k].log
      BY <1>2, <1>6
    <3>2. \A k \in Node : node[k].role = "Candidate" => <<k, node[k].term>> \notin led
      BY DEF AgreeInv, Candidates
    <3>3. \A k \in Node : node[k].term <= node'[k].term
      BY <2>2 DEF Onward
    <3> QED BY <1>2, <3>1, <3>2, <3>3, KeptCandidates
  <2>5. VotesSafe'
    <3>1. \A u \in Term, k \in Index : Own(u, k)' => Own(u, k)
      BY <1>2 DEF Own
    <3>2. ASSUME NEW b \in ballots'
          PROVE  \E a \in polls' :
                    /\ a.cand = b[2] /\ a.term = b[3]
                    /\ \A u \in Term, k \in Index :
                         u < b[3] /\ k <= match'[b[1]][u] /\ Own(u, k)' =>
                            Blocked(u, k)' \/ (k <= a.lastIndex /\ u <= a.lastTerm)
      <4>1. CASE b \in ballots
        BY <1>2, <2>2, <3>1, <4>1, KeptVotes
      <4>2. CASE b = <<n, p.cand, p.term>>
        <5>1. GetLastIndex(s.log) <= p.lastIndex /\ GetLastTerm(s.log) <= p.lastTerm
          <6>1. s.log \in Log
            BY Types
          <6>2. GetLastIndex(s.log) \in Nat /\ GetLastTerm(s.log) \in Nat
            BY <6>1, LastIndex, Numbers
          <6>3. p.lastIndex >= GetLastIndex(s.log) /\ p.lastTerm >= GetLastTerm(s.log)
            BY <1>8 DEF Grants
          <6> QED BY <1>1, <6>2, <6>3
        <5>2. ASSUME NEW u \in Term, NEW k \in Index, k <= match'[n][u], Own(u, k)'
              PROVE  Blocked(u, k)' \/ (k <= p.lastIndex /\ u <= p.lastTerm)
          <6>1. Blocked(u, k) \/ (k <= p.lastIndex /\ u <= p.lastTerm)
            BY <1>1, <1>2, <3>1, <5>1, <5>2, VoterAllows
          <6>2. Blocked(u, k) => Blocked(u, k)'
            BY <2>2, OnwardKeeps DEF AgreeInv
          <6> QED BY <6>1, <6>2
        <5>3. p \in polls' /\ b[1] = n /\ b[2] = p.cand /\ b[3] = p.term
          BY <1>2, <4>2
        <5> QED BY <5>2, <5>3
      <4> QED BY <1>8, <4>1, <4>2
    <3> QED BY <3>2 DEF VotesSafe
  <2> QED BY <2>2, <2>3, <2>4, <2>5 DEF AgreeInv, QuietInv
<1> QED BY <1>7, <1>8 DEF RequestVote

--------------------------------------------------------------------------------
\* Steps that change a leader's log

\* What a log had in common with the leader of an entry's term, it has.
LEMMA KeptSame ==
    ASSUME LogInv, LogInv', LogsAreLeaders, Onward, NEW t \in Term, NEW k \in Index, Own(t, k),
           NEW l \in Log, Same(l, leaderLog[t], k)
    PROVE  Same(l, leaderLog'[t], k)
<1>1. Same(leaderLog[t], leaderLog'[t], k)
  BY OnwardKeeps DEF Own
<1> QED BY <1>1 DEF Same

LEMMA KeptComplete ==
    ASSUME LogInv, LogInv', AgreeInv, Onward,
           NEW t \in Term, NEW u \in Term, NEW k \in Index, t < u, Led(u), Own(t, k)
    PROVE  Blocked(t, k)' \/ Same(leaderLog'[t], leaderLog'[u], k)
<1>1. Blocked(t, k) \/ Same(leaderLog[t], leaderLog[u], k)
  BY DEF AgreeInv, LeadersComplete
<1>2. Blocked(t, k) => Blocked(t, k)'
  BY OnwardKeeps DEF AgreeInv
<1>3. ASSUME Same(leaderLog[t], leaderLog[u], k)
      PROVE  Same(leaderLog'[t], leaderLog'[u], k)
  <2>1. leaderLog[t][k] # 0 /\ leaderLog[u][k] # 0
    BY <1>3, Numbers DEF Own, Same
  <2>2. Same(leaderLog[t], leaderLog'[t], k) /\ Same(leaderLog[u], leaderLog'[u], k)
    BY <2>1, OnwardKeeps DEF AgreeInv
  <2> QED BY <1>3, <2>2 DEF Same
<1> QED BY <1>1, <1>2, <1>3

\* A new leader has every entry of an earlier term that could be committed: one of those
\* who voted for it has the entry, and its own last entry is no earlier.
LEMMA ElectedComplete ==
    ASSUME LogInv, VoteInv, AgreeInv, NEW n \in Node, node[n].role = "Candidate",
           ~Led(node[n].term), Cardinality(node[n].votes) >= MemberMajority,
           NEW t \in Term, NEW k \in Index, t < node[n].term, Own(t, k)
    PROVE  Blocked(t, k) \/ Same(leaderLog[t], node[n].log, k)
<1> USE DEF AgreeInv
<1> SUFFICES ASSUME ~Blocked(t, k) PROVE Same(leaderLog[t], node[n].log, k)
  OBVIOUS
<1> DEFINE Q == node[n].votes \cup {n}
<1>1. PICK u \in Term, l \in Log : u = node[n].term /\ l = node[n].log /\ Made(l, u) /\ t < u
  BY Types DEF LogsAreLeaders
<1>2. t \in Nat /\ u \in Nat /\ k \in Nat /\ k # 0
  BY Numbers
<1>3. Q \in Winning /\ \A v \in Q : v \in Node /\ <<v, n, u>> \in ballots
  <2>1. /\ <<n, n, u>> \in ballots
        /\ \A v \in node[n].votes : v # n /\ <<v, n, u>> \in ballots
    BY <1>1 DEF VoteInv, VotesCounted
  <2>2. node[n].votes \in SUBSET Node /\ n \notin node[n].votes
    BY <2>1, AllGood DEF State
  <2> QED BY <2>1, <2>2, MajorityWithItself
<1> HIDE DEF Q
<1>4. PICK v \in Q : ~(t < node[v].term /\ match[v][t] < k)
  BY <1>3 DEF Blocked
<1>5. k <= match[v][t]
  <2>1. u <= node[v].term
    BY <1>3, <1>4 DEF VoteInv, VotesRemembered
  <2>2. node[v].term \in Nat /\ match[v][t] \in Nat
    BY <1>3, <1>4, Types
  <2> QED BY <1>1, <1>2, <1>4, <2>1, <2>2
<1>6. PICK p \in polls : p.cand = n /\ p.term = u /\ k <= p.lastIndex /\ t <= p.lastTerm
  <2>1. <<v, n, u>> \in ballots
    BY <1>3, <1>4
  <2>2. PICK p \in polls :
          /\ p.cand = <<v, n, u>>[2] /\ p.term = <<v, n, u>>[3]
          /\ \A a \in Term, i \in Index :
               a < <<v, n, u>>[3] /\ i <= match[<<v, n, u>>[1]][a] /\ Own(a, i) =>
                  Blocked(a, i) \/ (i <= p.lastIndex /\ a <= p.lastTerm)
    BY <2>1 DEF VotesSafe
  <2> QED BY <1>1, <1>5, <2>2
<1> DEFINE e == GetLastIndex(l)
<1>7. k <= e /\ t <= GetLastTerm(l)
  <2>1. PICK q \in polls :
          /\ q.cand = n /\ q.term = u
          /\ q.lastIndex = GetLastIndex(l) /\ q.lastTerm = GetLastTerm(l)
    BY <1>1 DEF Candidates
  <2>2. q = p
    BY <1>6, <2>1 DEF Candidates
  <2> QED BY <1>6, <2>1, <2>2
<1>8. e \in 0 .. MaxIndex /\ (e # 0 => e \in Index /\ GetLastTerm(l) = l[e])
      /\ \A i \in Index : l[i] # 0 <=> i <= e
  BY <1>1, MadeLast
<1> HIDE DEF e
<1>9. e \in Index /\ l[e] # 0 /\ t <= l[e] /\ e \in Nat
  <2>1. e \in Nat /\ e # 0 /\ e <= e
    BY <1>2, <1>7, <1>8, Numbers
  <2> QED BY <1>7, <1>8, <2>1
<1>10. PICK w \in Term : w = l[e] /\ Same(l, leaderLog[w], e) /\ leaderLog[w][e] = w /\ w # 0
  BY <1>1, <1>9, MadeIs
<1>11. Same(l, leaderLog[w], k)
  BY <1>2, <1>7, <1>9, <1>10, SameShorter
<1>12. CASE t = w
  BY <1>1, <1>11, <1>12 DEF Same
<1>13. CASE t < w
  <2>1. Led(w)
    BY <1>9, <1>10, OwnLed
  <2>2. Same(leaderLog[t], leaderLog[w], k)
    BY <1>13, <2>1 DEF LeadersComplete
  <2> QED BY <1>1, <1>11, <2>2 DEF Same
<1>14. w \in Nat /\ t <= w
  BY <1>9, <1>10, Numbers
<1> QED BY <1>2, <1>12, <1>13, <1>14

\* The candidate becomes the term's leader, and its log the term's.
LEMMA StopStep ==
    ASSUME LogInv, LogInv', VoteInv, AgreeInv, OneLeader', NEW n \in Node, StopElection(n)
    PROVE  AgreeInv'
<1> USE DEF AgreeInv
<1> DEFINE s == node[n]
           r == [s EXCEPT !.role = "Leader", !.leader = n]
<1>1. PICK t \in Term, l \in Log : t = s.term /\ l = s.log /\ t \in Nat /\ Made(l, t)
  BY Types DEF LogsAreLeaders
<1>2. /\ node' = [node EXCEPT ![n] = r] /\ led' = led \cup {<<n, t>>}
      /\ leaderLog' = [leaderLog EXCEPT ![t] = l]
      /\ UNCHANGED <<polls, appends, match, ballots>>
      /\ s.role = "Candidate" /\ Cardinality(s.votes) >= MemberMajority
      /\ node \in [Node -> State] /\ s \in State /\ leaderLog \in [Term -> Log]
  BY <1>1 DEF StopElection, LogInv, TypeOK
<1>3. r.role = "Leader" /\ r.term = t /\ r.log = l /\ r.commit = s.commit
  BY <1>1, <1>2 DEF State
<1> HIDE DEF r
<1>4. /\ node'[n] = r /\ \A k \in Node \ {n} : node'[k] = node[k]
      /\ leaderLog'[t] = l /\ \A u \in Term \ {t} : leaderLog'[u] = leaderLog[u]
  BY <1>2
<1>5. ~Led(t)
  <2> SUFFICES ASSUME NEW k \in Node, <<k, t>> \in led PROVE FALSE
    BY DEF Led
  <2>1. k = n
    <3>1. <<k, t>> \in led' /\ <<n, t>> \in led'
      BY <1>2
    <3>2. \A a, b \in led' : a[2] = b[2] => a[1] = b[1]
      BY DEF OneLeader
    <3>3. <<k, t>>[2] = <<n, t>>[2] => <<k, t>>[1] = <<n, t>>[1]
      BY <3>1, <3>2
    <3> QED BY <3>3
  <2> QED BY <1>1, <1>2, <2>1 DEF Candidates
<1>6. \A i \in Index : leaderLog[t][i] = 0
  BY <1>5 DEF LeadersOwn
<1>7. \A k \in Node : /\ node'[k].term = node[k].term /\ node'[k].log = node[k].log
                      /\ node'[k].commit = node[k].commit
                      /\ k # n => node'[k].role = node[k].role
  BY <1>1, <1>3, <1>4
<1>8. Onward
  <2>1. \A k \in Node : node[k].term <= node'[k].term
    BY <1>7, Types
  <2>2. \A k \in Node, u \in Term : match[k][u] <= match'[k][u]
    BY <1>2, Types
  <2> QED BY <1>2, <1>4, <1>6, <2>1, <2>2 DEF Onward
<1>9. \A u \in Term, k \in Index : Own(u, k)' => Own(u, k)
  <2> SUFFICES ASSUME NEW u \in Term, NEW k \in Index, u # 0, leaderLog'[u][k] = u
               PROVE  leaderLog[u][k] = u
    BY DEF Own
  <2>1. CASE u = t
    <3>1. l[k] = t /\ l[k] # 0
      BY <1>4, <2>1
    <3>2. leaderLog[t][k] = t
      BY <1>1, <3>1, MadeIs
    <3> QED BY <2>1, <3>2
  <2> QED BY <1>4, <2>1
<1>10. Made(l, t)'
  BY <1>1, <1>8, OnwardLogs DEF Made
<1>11. LogsAreLeaders'
  <2>1. ASSUME NEW k \in Node PROVE Made(node[k].log, node[k].term)' /\ Dense(node[k].log)'
    <3>1. PICK q \in Log, u \in Term : q = node[k].log /\ u = node[k].term /\ Made(q, u) /\ Dense(q)
      BY Types DEF LogsAreLeaders
    <3> QED BY <1>7, <1>8, <3>1, OnwardLogs DEF Made, Dense
  <2>2. ASSUME NEW u \in Term PROVE Made(leaderLog[u], u)' /\ Dense(leaderLog[u])'
    <3>1. CASE u = t
      <4>1. Dense(l)
        BY <1>1, MadeIs DEF Dense
      <4> QED BY <1>4, <1>10, <3>1, <4>1 DEF Made, Dense
    <3>2. CASE u # t
      <4>1. PICK q \in Log : q = leaderLog[u] /\ Made(q, u) /\ Dense(q)
        BY Types DEF LogsAreLeaders
      <4> QED BY <1>4, <1>8, <3>2, <4>1, OnwardLogs DEF Made, Dense
    <3> QED BY <3>1, <3>2
  <2> QED BY <2>1, <2>2 DEF LogsAreLeaders
<1>12. LeadersOwn'
  <2>1. ASSUME NEW k \in Node, node'[k].role = "Leader"
        PROVE  <<k, node'[k].term>> \in led' /\ leaderLog'[node'[k].term] = node'[k].log
    <3>1. CASE k = n
      BY <1>1, <1>2, <1>3, <1>4, <3>1
    <3>2. CASE k # n
      <4>1. /\ node[k].role = "Leader" /\ node[k].term \in Term
            /\ <<k, node[k].term>> \in led /\ leaderLog[node[k].term] = node[k].log
        BY <1>7, <2>1, <3>2, Types DEF LeadersOwn
      <4>2. node[k].term # t
        BY <1>5, <4>1 DEF Led
      <4> QED BY <1>2, <1>4, <1>7, <4>1, <4>2
    <3> QED BY <3>1, <3>2
  <2>2. ASSUME NEW u \in Term, ~Led(u)' PROVE \A i \in Index : leaderLog'[u][i] = 0
    <3>1. ~Led(u) /\ u # t
      BY <1>2, <2>2 DEF Led
    <3> QED BY <1>4, <3>1 DEF LeadersOwn
  <2>3. ASSUME NEW b \in led' PROVE b[2] # 0 /\ b[2] <= node'[b[1]].term
    <3>1. CASE b \in led
      BY <1>7, <3>1, Types DEF LeadersOwn
    <3>2. CASE b = <<n, t>>
      <4>1. t # 0
        <5>1. PICK p \in polls : p.cand = n /\ p.term = s.term
          BY <1>2 DEF Candidates
        <5>2. p.term # 0
          BY <5>1 DEF Candidates
        <5> QED BY <1>1, <5>1, <5>2
      <4>2. t <= t
        BY <1>1
      <4> QED BY <1>3, <1>4, <3>2, <4>1, <4>2
    <3> QED BY <1>2, <3>1, <3>2
  <2> QED BY <2>1, <2>2, <2>3 DEF LeadersOwn
<1>13. CommitsBacked'
  <2> SUFFICES ASSUME NEW k \in Node PROVE Backed(node[k].log, node[k].commit, node[k].term)'
    BY DEF CommitsBacked
  <2>1. PICK q \in Log, c \in 0 .. MaxIndex, u \in Term :
          q = node[k].log /\ c = node[k].commit /\ u = node[k].term /\ Backed(q, c, u)
    BY Types DEF CommitsBacked
  <2>2. c # 0 => \E w \in Term, j \in Index :
          w <= u /\ c <= j /\ Committed(w, j)' /\ Same(q, leaderLog'[w], c)
    BY <1>8, <2>1, OnwardLogs
  <2> QED BY <1>7, <2>1, <2>2 DEF Backed
<1>14. CallsAreLeaders'
  BY <1>2, <1>8, KeptCalls
<1>15. Candidates'
  <2>1. ASSUME NEW k \in Node, node'[k].role = "Candidate"
        PROVE  node[k].role = "Candidate" /\ <<k, node[k].term>> \notin led'
    <3>1. k # n
      BY <1>3, <1>4, <2>1
    <3>2. node[k].role = "Candidate"
      BY <1>7, <2>1, <3>1
    <3>3. <<k, node[k].term>> \notin led
      BY <3>2 DEF Candidates
    <3> QED BY <1>2, <3>1, <3>2, <3>3
  <2>2. \A k \in Node : node[k].term <= node'[k].term
    BY <1>8 DEF Onward
  <2> QED BY <1>2, <1>7, <2>1, <2>2, KeptCandidates
<1>16. CopiesMade'
  <2> SUFFICES ASSUME NEW f \in Node, NEW u \in Term, match[f][u] # 0
               PROVE  u <= node'[f].term /\ leaderLog'[u][match[f][u]] # 0
    BY <1>2 DEF CopiesMade
  <2>1. u <= node[f].term /\ leaderLog[u][match[f][u]] # 0 /\ match[f][u] \in Index
    BY Types, Numbers DEF CopiesMade
  <2> QED BY <1>7, <1>8, <2>1 DEF Onward
<1>17. CopiesKept'
  <2> SUFFICES ASSUME NEW f \in Node, NEW u \in Term, NEW k \in Index, k <= match[f][u], Own(u, k)'
               PROVE  Blocked(u, k)' \/ Same(node'[f].log, leaderLog'[u], k)
    BY <1>2 DEF CopiesKept
  <2>1. PICK q \in Log : q = node[f].log
    BY Types
  <2>2. Blocked(u, k) \/ Same(q, leaderLog[u], k)
    BY <1>9, <2>1 DEF CopiesKept
  <2>3. Same(q, leaderLog[u], k) => Same(q, leaderLog'[u], k)
    BY <1>8, <1>9, KeptSame
  <2>4. Blocked(u, k) => Blocked(u, k)'
    BY <1>8, OnwardKeeps
  <2> QED BY <1>7, <2>1, <2>2, <2>3, <2>4
<1>18. VotesSafe'
  BY <1>2, <1>8, <1>9, KeptVotes DEF VotesSafe
<1>19. LeadersComplete'
  <2> SUFFICES ASSUME NEW a \in Term, NEW u \in Term, NEW k \in Index, a < u, Led(u)', Own(a, k)'
               PROVE  Blocked(a, k)' \/ Same(leaderLog'[a], leaderLog'[u], k)
    BY DEF LeadersComplete
  <2>1. CASE u = t
    <3>1. Blocked(a, k) \/ Same(leaderLog[a], l, k)
      BY <1>1, <1>2, <1>5, <1>9, <2>1, ElectedComplete
    <3>2. Same(leaderLog[a], l, k) => Same(l, leaderLog[a], k)
      BY DEF Same
    <3>3. Same(l, leaderLog[a], k) => Same(l, leaderLog'[a], k)
      BY <1>8, <1>9, KeptSame
    <3>4. Same(l, leaderLog'[a], k) => Same(leaderLog'[a], l, k)
      BY DEF Same
    <3>5. Blocked(a, k) => Blocked(a, k)'
      BY <1>8, OnwardKeeps
    <3> QED BY <1>4, <2>1, <3>1, <3>2, <3>3, <3>4, <3>5
  <2>2. CASE u # t
    <3>1. Led(u)
      BY <1>2, <2>2 DEF Led
    <3> QED BY <1>8, <1>9, <3>1, KeptComplete
  <2> QED BY <2>1, <2>2
<1> QED BY <1>11, <1>12, <1>13, <1>14, <1>15, <1>16, <1>17, <1>18, <1>19

\* The leader adds an entry to its log: nobody is counted as having it, and where the
\* term is over already, nobody ever will be.
LEMMA AppendLogStep ==
    ASSUME LogInv, LogInv', VoteInv, AgreeInv, OneLeader, NEW n \in Node, AppendLog(n)
    PROVE  AgreeInv'
<1> USE DEF AgreeInv
<1> DEFINE s == node[n]
<1>1. PICK t \in Term, l \in Log :
        /\ t = s.term /\ l = s.log /\ t \in Nat /\ Made(l, t)
        /\ t # 0 /\ <<n, t>> \in led /\ leaderLog[t] = l
  BY Types, LeaderIs DEF LogsAreLeaders, AppendLog
<1>2. PICK last \in Nat, x \in Index :
        /\ last = GetLastIndex(s.log) /\ x = last + 1 /\ x \in Nat
        /\ last \in 0 .. MaxIndex /\ \A i \in Index : l[i] # 0 <=> i <= last
  <2> DEFINE e == GetLastIndex(s.log)
  <2>1. e \in 0 .. MaxIndex /\ e < MaxIndex /\ \A i \in Index : l[i] # 0 <=> i <= e
    BY <1>1, MadeLast DEF AppendLog
  <2> HIDE DEF e
  <2>2. e \in Nat /\ e + 1 \in Nat /\ e + 1 \in Index
    BY <2>1, BoundAssumption DEF Index
  <2> QED BY <2>1, <2>2 DEF e
<1>3. \A i \in Index : i \in Nat /\ (i <= x <=> i <= last \/ i = x) /\ ~(x <= last)
  BY <1>2, Numbers
<1>4. PICK g \in Log : /\ g = [l EXCEPT ![x] = t]
                       /\ g[x] = t /\ \A i \in Index : i # x => g[i] = l[i]
  <2> DEFINE e == [l EXCEPT ![x] = t]
  <2>1. e \in Log /\ e[x] = t /\ \A i \in Index : i # x => e[i] = l[i]
    BY <1>1, <1>2 DEF Log
  <2> QED BY <2>1
<1> DEFINE r == [s EXCEPT !.log = g]
<1>5. /\ node' = [node EXCEPT ![n] = r]
      /\ match' = [match EXCEPT ![n][t] = x]
      /\ leaderLog' = [leaderLog EXCEPT ![t] = g]
      /\ UNCHANGED <<polls, appends, ballots, led>>
      /\ s.role = "Leader" /\ node \in [Node -> State] /\ s \in State
      /\ leaderLog \in [Term -> Log] /\ match \in [Node -> [Term -> 0 .. MaxIndex]]
  BY <1>1, <1>2, <1>4 DEF AppendLog, LogInv, TypeOK
<1>6. r.log = g /\ r.term = t /\ r.role = "Leader" /\ r.commit = s.commit
  BY <1>1, <1>5, <1>4 DEF State
<1> HIDE DEF r
<1>7. /\ node'[n] = r /\ \A k \in Node \ {n} : node'[k] = node[k]
      /\ leaderLog'[t] = g /\ \A u \in Term \ {t} : leaderLog'[u] = leaderLog[u]
      /\ match'[n][t] = x
      /\ \A f \in Node, u \in Term : f # n \/ u # t => match'[f][u] = match[f][u]
  BY <1>1, <1>5
<1>8. \A k \in Node : /\ node'[k].term = node[k].term /\ node'[k].role = node[k].role
                      /\ node'[k].commit = node[k].commit
                      /\ k # n => node'[k].log = node[k].log
  BY <1>1, <1>5, <1>6, <1>7
<1>9. \A i \in Index : i <= last => g[i] = l[i]
  BY <1>3, <1>4
\* nobody was counted for the new entry
<1>10. \A f \in Node : match[f][t] < x /\ match[f][t] \in Nat
  <2> TAKE f \in Node
  <2>1. match[f][t] \in Nat /\ (match[f][t] # 0 => match[f][t] \in Index /\ leaderLog[t][match[f][t]] # 0)
    BY Types, Numbers DEF CopiesMade
  <2>2. match[f][t] # 0 => match[f][t] <= last
    BY <1>1, <1>2, <2>1
  <2> QED BY <1>2, <2>1, <2>2
<1>11. Onward
  <2>1. ASSUME NEW u \in Term, NEW i \in Index, leaderLog[u][i] # 0
        PROVE  leaderLog'[u][i] = leaderLog[u][i]
    BY <1>1, <1>2, <1>7, <1>9, <2>1
  <2>2. ASSUME NEW f \in Node, NEW u \in Term
        PROVE  match[f][u] <= match'[f][u] /\ (match'[f][u] # match[f][u] => node[f].term <= u)
    <3>1. CASE f = n /\ u = t
      BY <1>1, <1>2, <1>7, <1>10, <3>1
    <3>2. CASE f # n \/ u # t
      <4>1. match[f][u] <= match[f][u]
        BY Types
      <4> QED BY <1>7, <3>2, <4>1
    <3> QED BY <3>1, <3>2
  <2>3. \A k \in Node : node[k].term <= node'[k].term
    BY <1>8, Types
  <2> QED BY <1>5, <2>1, <2>2, <2>3 DEF Onward
<1>12. \A u \in Term, k \in Index : Own(u, k)' => Own(u, k) \/ (u = t /\ k = x)
  <2> SUFFICES ASSUME NEW u \in Term, NEW k \in Index, u # 0, leaderLog'[u][k] = u, ~(u = t /\ k = x)
               PROVE  leaderLog[u][k] = u
    BY DEF Own
  <2>1. CASE u = t
    <3>1. k # x /\ g[k] = u
      BY <1>7, <2>1
    <3>2. l[k] = u
      BY <1>4, <3>1
    <3> QED BY <1>1, <2>1, <3>2
  <2> QED BY <1>7, <2>1
<1>13. Same(g, l, last) /\ Same(l, g, last)
  BY <1>9 DEF Same
<1>14. Made(g, t)'
  <2> SUFFICES ASSUME NEW i \in Index, g[i] # 0
               PROVE  g[i] <= t /\ Same(g, leaderLog'[g[i]], i)
    BY DEF Made
  <2>1. CASE i = x
    <3>1. t <= t /\ g[i] = t
      BY <1>1, <1>4, <2>1
    <3> QED BY <1>7, <3>1 DEF Same
  <2>2. CASE i # x
    <3>1. g[i] = l[i] /\ i <= last /\ i \in Nat
      BY <1>2, <1>3, <1>4, <2>2
    <3>2. l[i] <= t /\ Same(l, leaderLog'[l[i]], i)
      BY <1>1, <1>11, <3>1, OnwardLogs
    <3>3. Same(g, l, i)
      BY <1>2, <1>13, <3>1, SameShorter
    <3> QED BY <3>1, <3>2, <3>3 DEF Same
  <2> QED BY <2>1, <2>2
<1>15. Dense(g)
  <2> SUFFICES ASSUME NEW i \in Index, NEW j \in Index, g[i] # 0, j <= i PROVE g[j] # 0
    BY DEF Dense
  <2>1. i <= x
    BY <1>2, <1>3, <1>4
  <2>2. j <= x
    BY <1>2, <1>3, <2>1
  <2> QED BY <1>1, <1>2, <1>3, <1>4, <2>2
<1>16. LogsAreLeaders'
  <2>1. ASSUME NEW k \in Node PROVE Made(node[k].log, node[k].term)' /\ Dense(node[k].log)'
    <3>1. CASE k = n
      BY <1>6, <1>7, <1>14, <1>15, <3>1 DEF Made, Dense
    <3>2. CASE k # n
      <4>1. PICK q \in Log, u \in Term : q = node[k].log /\ u = node[k].term /\ Made(q, u) /\ Dense(q)
        BY Types DEF LogsAreLeaders
      <4> QED BY <1>8, <1>11, <3>2, <4>1, OnwardLogs DEF Made, Dense
    <3> QED BY <3>1, <3>2
  <2>2. ASSUME NEW u \in Term PROVE Made(leaderLog[u], u)' /\ Dense(leaderLog[u])'
    <3>1. CASE u = t
      BY <1>7, <1>14, <1>15, <3>1 DEF Made, Dense
    <3>2. CASE u # t
      <4>1. PICK q \in Log : q = leaderLog[u] /\ Made(q, u) /\ Dense(q)
        BY Types DEF LogsAreLeaders
      <4> QED BY <1>7, <1>11, <3>2, <4>1, OnwardLogs DEF Made, Dense
    <3> QED BY <3>1, <3>2
  <2> QED BY <2>1, <2>2 DEF LogsAreLeaders
<1>17. LeadersOwn'
  <2>1. ASSUME NEW k \in Node, node'[k].role = "Leader"
        PROVE  <<k, node'[k].term>> \in led' /\ leaderLog'[node'[k].term] = node'[k].log
    <3>1. CASE k = n
      BY <1>1, <1>5, <1>6, <1>7, <3>1
    <3>2. CASE k # n
      <4>1. /\ node[k].role = "Leader" /\ node[k].term \in Term
            /\ <<k, node[k].term>> \in led /\ leaderLog[node[k].term] = node[k].log
        BY <1>8, <2>1, Types DEF LeadersOwn
      <4>2. node[k].term # t
        <5>1. \A a, b \in led : a[2] = b[2] => a[1] = b[1]
          BY DEF OneLeader
        <5>2. <<k, node[k].term>>[2] = <<n, t>>[2] => <<k, node[k].term>>[1] = <<n, t>>[1]
          BY <1>1, <4>1, <5>1
        <5> QED BY <3>2, <5>2
      <4> QED BY <1>5, <1>7, <1>8, <3>2, <4>1, <4>2
    <3> QED BY <3>1, <3>2
  <2>2. ASSUME NEW u \in Term, ~Led(u)' PROVE \A i \in Index : leaderLog'[u][i] = 0
    <3>1. ~Led(u) /\ u # t
      BY <1>1, <1>5, <2>2 DEF Led
    <3> QED BY <1>7, <3>1 DEF LeadersOwn
  <2>3. ASSUME NEW b \in led PROVE b[2] # 0 /\ b[2] <= node'[b[1]].term
    BY <1>8, Types DEF LeadersOwn
  <2> QED BY <1>5, <2>1, <2>2, <2>3 DEF LeadersOwn
<1>18. CommitsBacked'
  <2> SUFFICES ASSUME NEW k \in Node PROVE Backed(node[k].log, node[k].commit, node[k].term)'
    BY DEF CommitsBacked
  <2>1. PICK q \in Log, c \in 0 .. MaxIndex, u \in Term :
          q = node[k].log /\ c = node[k].commit /\ u = node[k].term /\ Backed(q, c, u)
    BY Types DEF CommitsBacked
  <2>2. c # 0 => \E w \in Term, j \in Index :
          w <= u /\ c <= j /\ Committed(w, j)' /\ Same(q, leaderLog'[w], c)
    BY <1>11, <2>1, OnwardLogs
  <2>3. CASE k # n
    BY <1>8, <2>1, <2>2, <2>3 DEF Backed
  <2>4. CASE k = n /\ c # 0
    <3>1. c \in Index /\ c \in Nat /\ c <= last
      <4>1. c \in Index /\ c <= c
        BY <2>4, Numbers
      <4>2. l[c] # 0
        BY <1>1, <2>1, <2>4, <4>1, BackedPresent
      <4> QED BY <1>2, <4>1, <4>2, Numbers
    <3>2. Same(g, l, c)
      BY <1>2, <1>13, <3>1, SameShorter
    <3>3. PICK w \in Term, j \in Index :
            w <= u /\ c <= j /\ Committed(w, j)' /\ Same(q, leaderLog'[w], c)
      BY <2>2, <2>4
    <3>4. Same(g, leaderLog'[w], c)
      BY <1>1, <2>1, <2>4, <3>2, <3>3 DEF Same
    <3>5. node'[k].log = g /\ node'[k].commit = c /\ node'[k].term = u
      BY <1>1, <1>6, <1>7, <2>1, <2>4
    <3> QED BY <3>3, <3>4, <3>5 DEF Backed
  <2>5. CASE c = 0
    BY <1>8, <2>1, <2>5 DEF Backed
  <2> QED BY <2>3, <2>4, <2>5
<1>19. CallsAreLeaders'
  <2>1. appends' \subseteq appends
    BY <1>5
  <2> QED BY <1>11, <2>1, KeptCalls
<1>20. Candidates'
  <2>1. \A k \in Node : node'[k].role = "Candidate" =>
          /\ node[k].role = "Candidate" /\ node'[k].term = node[k].term
          /\ node'[k].log = node[k].log /\ <<k, node[k].term>> \notin led
    BY <1>5, <1>8 DEF Candidates
  <2>2. \A k \in Node : node[k].term <= node'[k].term
    BY <1>11 DEF Onward
  <2> QED BY <1>5, <2>1, <2>2, KeptCandidates
<1>21. CopiesMade'
  <2> SUFFICES ASSUME NEW f \in Node, NEW u \in Term, match'[f][u] # 0
               PROVE  u <= node'[f].term /\ leaderLog'[u][match'[f][u]] # 0
    BY DEF CopiesMade
  <2>1. CASE f = n /\ u = t
    <3>1. match'[f][u] = x /\ leaderLog'[u][x] = t /\ node'[f].term = t
      BY <1>1, <1>4, <1>6, <1>7, <2>1
    <3>2. t <= t
      BY <1>1
    <3> QED BY <1>1, <2>1, <3>1, <3>2
  <2>2. CASE f # n \/ u # t
    <3>1. match'[f][u] = match[f][u]
      BY <1>7, <2>2
    <3>2. u <= node[f].term /\ leaderLog[u][match[f][u]] # 0 /\ match[f][u] \in Index
      BY <3>1, Types, Numbers DEF CopiesMade
    <3> QED BY <1>8, <1>11, <3>1, <3>2 DEF Onward
  <2> QED BY <2>1, <2>2
<1>22. CopiesKept'
  <2> SUFFICES ASSUME NEW f \in Node, NEW u \in Term, NEW k \in Index, k <= match'[f][u], Own(u, k)'
               PROVE  Blocked(u, k)' \/ Same(node'[f].log, leaderLog'[u], k)
    BY DEF CopiesKept
  <2>1. CASE f = n /\ u = t
    BY <1>6, <1>7, <2>1 DEF Same
  <2>2. CASE f # n \/ u # t
    <3>1. k <= match[f][u]
      BY <1>7, <2>2
    <3>2. Own(u, k)
      <4>1. ~(u = t /\ k = x)
        BY <1>2, <1>10, <3>1
      <4> QED BY <1>12, <4>1
    <3>3. PICK q \in Log : q = node[f].log
      BY Types
    <3>4. Blocked(u, k) \/ Same(q, leaderLog[u], k)
      BY <3>1, <3>2, <3>3 DEF CopiesKept
    <3>5. Blocked(u, k) => Blocked(u, k)'
      BY <1>11, OnwardKeeps
    <3>6. ASSUME Same(q, leaderLog[u], k) PROVE Same(node'[f].log, leaderLog'[u], k)
      <4>1. Same(q, leaderLog'[u], k)
        BY <1>11, <3>2, <3>6, KeptSame
      <4>2. CASE f # n
        BY <1>8, <3>3, <4>1, <4>2
      <4>3. CASE f = n
        <5>1. l[k] # 0
          BY <1>1, <3>2, <3>3, <3>6, <4>3, Numbers DEF Own, Same
        <5>2. k <= last /\ k \in Nat
          BY <1>2, <5>1, Numbers
        <5>3. Same(g, l, k)
          BY <1>2, <1>13, <5>2, SameShorter
        <5> QED BY <1>1, <1>6, <1>7, <3>3, <4>1, <4>3, <5>3 DEF Same
      <4> QED BY <4>2, <4>3
    <3> QED BY <3>4, <3>5, <3>6
  <2> QED BY <2>1, <2>2
<1>23. VotesSafe'
  <2>1. ASSUME NEW b \in ballots, NEW u \in Term, NEW k \in Index,
               k <= match[b[1]][u], Own(u, k)'
        PROVE  Own(u, k)
    <3>1. b[1] \in Node
      BY Types
    <3>2. ~(u = t /\ k = x)
      BY <1>2, <1>10, <2>1, <3>1
    <3> QED BY <1>12, <2>1, <3>2
  <2> QED BY <1>5, <1>11, <2>1, KeptVotes DEF VotesSafe
<1>24. LeadersComplete'
  <2> SUFFICES ASSUME NEW a \in Term, NEW u \in Term, NEW k \in Index, a < u, Led(u)', Own(a, k)'
               PROVE  Blocked(a, k)' \/ Same(leaderLog'[a], leaderLog'[u], k)
    BY DEF LeadersComplete
  <2>1. Led(u)
    BY <1>5 DEF Led
  <2>2. CASE Own(a, k)
    BY <1>11, <2>1, <2>2, KeptComplete
  <2>3. CASE a = t /\ k = x
    <3>1. PICK c \in Node : <<c, u>> \in led
      BY <2>1 DEF Led
    <3>2. PICK Q \in Winning : \A v \in Q : <<v, c, u>> \in ballots
      BY <3>1 DEF VoteInv, LedByVotes
    <3>3. ASSUME NEW v \in Q PROVE t < node'[v].term /\ match'[v][t] < x
      <4>1. v \in Node /\ <<v, c, u>> \in ballots
        BY <3>2 DEF Winning
      <4>2. u <= node[v].term
        BY <4>1 DEF VoteInv, VotesRemembered
      <4>3. node[v].term \in Nat /\ u \in Nat
        BY <4>1, Types, Numbers
      <4>4. t < node[v].term
        BY <1>1, <2>3, <4>2, <4>3
      <4>5. v # n
        BY <1>1, <4>3, <4>4
      <4> QED BY <1>7, <1>8, <1>10, <4>1, <4>4, <4>5
    <3> QED BY <2>3, <3>3 DEF Blocked, Winning
  <2> QED BY <1>12, <2>2, <2>3
<1> QED BY <1>16, <1>17, <1>18, <1>19, <1>20, <1>21, <1>22, <1>23, <1>24

--------------------------------------------------------------------------------
\* Every step

LEMMA SoundBefore ==
    ASSUME Next, Sound'
    PROVE  Sound /\ slips' = {}
<1>1. led \subseteq led' /\ slips \subseteq slips'
  <2>1. ASSUME NEW n \in Node,
               \/ RaiseElection(n) \/ StopElection(n) \/ AppendLog(n) \/ LeaderApplies(n)
               \/ CrashIdle(n) \/ CrashInElection(n)
               \/ \E m \in Node : ReactVote(n, m) \/ ReactNewTerm(n, m)
        PROVE  led \subseteq led' /\ slips \subseteq slips'
    BY <2>1 DEF RaiseElection, StopElection, AppendLog, LeaderApplies, CrashIdle, CrashInElection,
                ReactVote, ReactNewTerm, Crash
  <2>2. ASSUME NEW n \in Node, NEW p \in polls, RequestVote(n, p) \/ CrashInRequestVote(n, p)
        PROVE  led \subseteq led' /\ slips \subseteq slips'
    BY <2>2 DEF RequestVote, CrashInRequestVote, Crash
  <2>3. ASSUME NEW n \in Node, NEW m \in appends, AppendEntries(n, m) \/ CrashInAppend(n, m)
        PROVE  led \subseteq led' /\ slips \subseteq slips'
    BY <2>3 DEF AppendEntries, CrashInAppend, Crash
  <2>4. ASSUME NEW n \in Node, NEW i \in 0 .. MaxIndex, NEW j \in 0 .. MaxIndex, SendEntries(n, i, j)
        PROVE  led \subseteq led' /\ slips \subseteq slips'
    BY <2>4 DEF SendEntries
  <2>5. ASSUME NEW n \in Node, NEW i \in Index, SetCommitIndex(n, i)
        PROVE  led \subseteq led' /\ slips \subseteq slips'
    BY <2>5 DEF SetCommitIndex
  <2> QED BY <2>1, <2>2, <2>3, <2>4, <2>5 DEF Next
<1> QED BY <1>1 DEF Sound, OneLeader

LEMMA AgreeStep ==
    ASSUME LogInv, LogInv', VoteInv, Sound => AgreeInv, Next, Sound'
    PROVE  AgreeInv'
<1>1. Sound /\ slips' = {} /\ OneLeader /\ OneLeader' /\ AgreeInv
  BY SoundBefore DEF Sound
<1> QED BY <1>1, RaiseStep, StopStep, AppendLogStep, ReactSteps, CrashSteps, RequestStep,
           AppendStep, SendStep, CommitStep DEF Next

LEMMA AgreeStutter ==
    ASSUME LogInv, LogInv', VoteInv, AgreeInv, UNCHANGED vars
    PROVE  AgreeInv'
<1>1. UNCHANGED <<node, polls, appends, match, ballots, led, leaderLog>>
  BY DEF vars
<1>2. ASSUME NEW n \in Node PROVE Settles(n)
  <2>1. /\ node[n].term \in Term /\ node[n].term <= node[n].term
        /\ node[n].commit \in 0 .. MaxIndex /\ node[n].commit <= node[n].commit
    BY Types, Numbers
  <2> QED BY <1>1, <2>1, Settled
<1> QED BY <1>1, <1>2, QuietAgree

LEMMA AgreeInit ==
    ASSUME Init
    PROVE  AgreeInv
<1>1. /\ \A n \in Node : /\ node[n].role = "Follower" /\ node[n].commit = 0
                         /\ \A i \in Index : node[n].log[i] = 0
      /\ \A t \in Term, i \in Index : leaderLog[t][i] = 0
      /\ \A n \in Node, t \in Term : match[n][t] = 0
      /\ polls = {} /\ appends = {} /\ ballots = {} /\ led = {}
  BY DEF Init
<1>2. LogsAreLeaders
  BY <1>1 DEF LogsAreLeaders, Made, Dense
<1>3. LeadersOwn /\ Candidates
  BY <1>1 DEF LeadersOwn, Candidates
<1>4. CommitsBacked
  BY <1>1 DEF CommitsBacked, Backed
<1>5. CallsAreLeaders /\ VotesSafe
  BY <1>1 DEF CallsAreLeaders, VotesSafe
<1>6. CopiesMade
  BY <1>1 DEF CopiesMade
<1>7. CopiesKept /\ LeadersComplete
  <2>1. \A t \in Term, k \in Index : ~Own(t, k)
    BY <1>1 DEF Own
  <2> QED BY <2>1 DEF CopiesKept, LeadersComplete
<1> QED BY <1>2, <1>3, <1>4, <1>5, <1>6, <1>7 DEF AgreeInv

\* As long as terms had one leader and nothing slipped, a leader of a later term has every
\* entry an earlier leader could commit: whoever counts as having the entry has it in its
\* log, a majority of those meets the voters of every later leader, and a voter with the
\* entry votes for logs that have it only.
THEOREM AgreementSafety == Spec => []IInv
<1>1. Init => (Sound => AgreeInv)
  BY AgreeInit
<1>2. /\ LogInv /\ VoteInv /\ (Sound => AgreeInv)
      /\ LogInv' /\ [Next]_vars
      => (Sound' => AgreeInv')
  <2> SUFFICES ASSUME LogInv, VoteInv, Sound => AgreeInv, LogInv', [Next]_vars, Sound'
               PROVE  AgreeInv'
    OBVIOUS
  <2>1. CASE Next
    BY <2>1, AgreeStep
  <2>2. CASE UNCHANGED vars
    <3>1. Sound
      BY <2>2 DEF vars, Sound, OneLeader
    <3> QED BY <2>2, <3>1, AgreeStutter
  <2> QED BY <2>1, <2>2
<1>3. Spec => [](LogInv /\ VoteInv)
  BY VoteSafety
<1>4. LogInv /\ VoteInv /\ (Sound => AgreeInv) <=> IInv
  BY DEF IInv
<1> QED BY <1>1, <1>2, <1>3, <1>4, PTL DEF Spec

\* No two nodes apply different entries at an index as long as terms had one leader and
\* nothing slipped, whatever leaders came and went, whatever a conflict cut out of a log
\* and wherever a node crashed.
THEOREM AppliedEntriesAgree == Spec => []AppliedAgree
<1>1. IInv => AppliedAgree
  <2> SUFFICES ASSUME IInv, Sound PROVE AppliedAgree
    BY DEF AppliedAgree
  <2> QED BY BackedAgree DEF IInv
<1> QED BY <1>1, AgreementSafety, PTL
================================================================================
