------------------------ MODULE QuorumProposal_proofs ------------------------
(***************************************************************************)
(* For every number of proposers and every majority of them: one callback  *)
(* decides, the verdict is the one the answers give, finish comes after    *)
(* the last answer, and the quorum is the vote of MajorityVote.            *)
(***************************************************************************)
EXTENDS QuorumProposal, FiniteSetTheorems, TLAPS

Uncounted == Before({"idle", "entered"})

(* Sets of proposers are finite, so that the counters can count them. *)
LEMMA ProposersFinite ==
  /\ IsFiniteSet(Proposers)
  /\ Cardinality(Proposers) = Size
  /\ \A S \in SUBSET Proposers :
       IsFiniteSet(S) /\ Cardinality(S) \in Nat /\ Cardinality(S) <= Size
<1>1. IsFiniteSet(Proposers) /\ Cardinality(Proposers) = Size
  BY QuorumAssumption, FS_Interval DEF Proposers
<1>2. \A S \in SUBSET Proposers :
        IsFiniteSet(S) /\ Cardinality(S) <= Cardinality(Proposers)
  BY <1>1, FS_Subset
<1>3. \A S \in SUBSET Proposers : Cardinality(S) \in Nat
  BY <1>2, FS_CardinalityType
<1> QED BY <1>1, <1>2, <1>3

(* The two sides of the vote are disjoint, so that together they have no   *)
(* more members than there are proposers; nor do they, when a proposer has *)
(* not voted, reach that number.                                           *)
LEMMA SidesBounded ==
  /\ Cardinality(Voted("ok")) + Cardinality(Voted("fail")) <= Size
  /\ \A p \in Proposers : ~HasVoted(p) =>
       Cardinality(Voted("ok")) + Cardinality(Voted("fail")) < Size
<1> DEFINE A == Voted("ok")
           B == Voted("fail")
<1>1. /\ A \in SUBSET Proposers /\ B \in SUBSET Proposers
      /\ A \cap B = {} /\ A \cup B \in SUBSET Proposers
  BY DEF Voted
<1>2. \A p \in Proposers : ~HasVoted(p) => p \notin A \cup B
  BY DEF Voted
<1> HIDE DEF A, B
<1>3. Cardinality(A \cap B) = 0
  BY <1>1, FS_EmptySet
<1>4. Cardinality(A \cup B) = Cardinality(A) + Cardinality(B)
  <2>1. /\ IsFiniteSet(A) /\ IsFiniteSet(B)
        /\ Cardinality(A) \in Nat /\ Cardinality(B) \in Nat
    BY <1>1, ProposersFinite
  <2>2. Cardinality(A \cup B)
          = Cardinality(A) + Cardinality(B) - Cardinality(A \cap B)
    BY <2>1, FS_Union
  <2> QED BY <1>3, <2>1, <2>2
<1>5. Cardinality(A \cup B) <= Size
  BY <1>1, ProposersFinite
<1>6. ASSUME NEW p \in Proposers, ~HasVoted(p)
      PROVE  Cardinality(A \cup B) # Size
  <2>1. A \cup B # Proposers
    BY <1>2, <1>6
  <2> QED BY <1>1, <2>1, ProposersFinite, FS_Subset
<1>7. Cardinality(A) \in Nat /\ Cardinality(B) \in Nat /\ Size \in Nat
  BY <1>1, ProposersFinite, QuorumAssumption
<1>8. /\ Cardinality(A) + Cardinality(B) <= Size
      /\ \A p \in Proposers : ~HasVoted(p) =>
           Cardinality(A) + Cardinality(B) < Size
  BY <1>4, <1>5, <1>6, <1>7
<1> QED BY <1>8 DEF A, B

(* A step that settles nothing and takes no callback past its votes leaves *)
(* the sets that are counted as they are.                                  *)
LEMMA SameSets ==
  ASSUME TypeOK, NEW p \in Proposers, NEW step \in CallbackSteps, Goto(p, step),
         UNCHANGED future,
         callback[p] \in {"idle", "entered"} <=> step \in {"idle", "entered"},
         HasVoted(p) <=> step \notin {"idle", "entered", "counted"}
  PROVE  Uncounted' = Uncounted /\ \A a \in {"ok", "fail"} : Voted(a)' = Voted(a)
<1>1. \A q \in Proposers :
        callback'[q] = IF q = p THEN step ELSE callback[q]
  BY DEF TypeOK, Goto
<1>2. \A q \in Proposers : HasVoted(q)' <=> HasVoted(q)
  BY <1>1 DEF HasVoted
<1>3. Uncounted' = Uncounted
  BY <1>1 DEF Uncounted, Before
<1> QED BY <1>2, <1>3 DEF Voted

(* In the beginning all callbacks are still to come. *)
LEMMA InitInvariant == Init => IInv
<1> SUFFICES ASSUME Init PROVE IInv
  OBVIOUS
<1>1. TypeOK
  <2>1. /\ 0 \in 0..Size /\ Size \in 0..Size /\ 1 \in 1..(Size + 1)
        /\ timer \in {"none", "waiting", "scanning", "over"}
    BY QuorumAssumption DEF Init
  <2>2. last \in [Proposers -> BOOLEAN] /\ finish \in BOOLEAN
    BY DEF Init
  <2> QED BY <2>1, <2>2 DEF Init, TypeOK, CallbackSteps, NoProposer
<1>2. /\ Uncounted = Proposers
      /\ Voted("ok") = {} /\ Voted("fail") = {} /\ Before({"deciding"}) = {}
  BY DEF Init, Uncounted, Before, Voted
<1>3. CountersExact
  BY <1>2, ProposersFinite, FS_EmptySet DEF Init, CountersExact, Uncounted
<1>4. CallbackFollowsFuture /\ LastIsUnique /\ NoDecisionRace
  BY DEF Init, CallbackFollowsFuture, LastIsUnique, NoDecisionRace
<1>5. SomebodyDecides /\ DeciderIsRight
  BY <1>2, QuorumAssumption DEF Init, SomebodyDecides, DeciderIsRight
<1> QED BY <1>1, <1>3, <1>4, <1>5 DEF IInv

(* The launch loop only makes more proposers able to answer. *)
LEMMA LaunchStep ==
  ASSUME IInv, Launch
  PROVE  IInv'
<1> USE DEF IInv, Launch, counters, outcome, scan
<1>1. TypeOK'
  BY QuorumAssumption DEF TypeOK
<1>2. CallbackFollowsFuture'
  BY DEF CallbackFollowsFuture, TypeOK, Proposers
<1>3. CountersExact'
  BY DEF CountersExact, Before, Voted, HasVoted
<1>4. LastIsUnique' /\ NoDecisionRace'
  BY DEF LastIsUnique, NoDecisionRace
<1>5. SomebodyDecides' /\ DeciderIsRight'
  BY DEF SomebodyDecides, DeciderIsRight, Before
<1> QED BY <1>1, <1>2, <1>3, <1>4, <1>5

(* An answer starts one callback, which nobody has counted. *)
LEMMA SettleStep ==
  ASSUME IInv, NEW p \in Proposers, NEW a \in {"ok", "fail"},
         p <= launched, future[p] = "pending", Settle(p, a),
         UNCHANGED <<launched, last, counters, outcome>>,
         timer' \in {"none", "waiting", "scanning", "over"},
         at' \in 1..(Size + 1), held' \in Proposers \cup {NoProposer}
  PROVE  IInv'
<1> USE DEF IInv, Settle, counters, outcome
<1>1. TypeOK'
  BY DEF TypeOK, Goto, CallbackSteps
<1>2. /\ \A q \in Proposers :
           /\ callback'[q] = IF q = p THEN "entered" ELSE callback[q]
           /\ future'[q] = IF q = p THEN a ELSE future[q]
      /\ callback[p] = "idle"
  BY DEF TypeOK, Goto, CallbackFollowsFuture
<1>3. CallbackFollowsFuture'
  BY <1>2 DEF CallbackFollowsFuture
<1>4. /\ Uncounted' = Uncounted
      /\ Voted("ok")' = Voted("ok") /\ Voted("fail")' = Voted("fail")
      /\ Before({"deciding"})' = Before({"deciding"})
  BY <1>2 DEF Uncounted, Before, Voted, HasVoted
<1>5. CountersExact'
  BY <1>4 DEF CountersExact, Uncounted
<1>6. LastIsUnique'
  BY <1>2 DEF LastIsUnique
<1>7. NoDecisionRace'
  BY <1>2 DEF NoDecisionRace
<1>8. SomebodyDecides'
  BY <1>4 DEF SomebodyDecides
<1>9. DeciderIsRight'
  BY <1>2, <1>4 DEF DeciderIsRight, Before
<1> QED BY <1>1, <1>3, <1>5, <1>6, <1>7, <1>8, <1>9

(* A callback counts itself down: it was the last iff nobody else is left. *)
LEMMA CountDownStep ==
  ASSUME IInv, NEW p \in Proposers, CountDown(p)
  PROVE  IInv'
<1> USE DEF IInv, CountDown, outcome, scan
<1>1. /\ \A q \in Proposers :
           /\ callback'[q] = IF q = p THEN "counted" ELSE callback[q]
           /\ last'[q] = IF q = p THEN finishCounter - 1 = 0 ELSE last[q]
      /\ callback[p] = "entered"
  BY DEF TypeOK, Goto
<1>2. /\ Uncounted' = Uncounted \ {p}
      /\ p \in Uncounted
      /\ Uncounted \in SUBSET Proposers
      /\ Voted("ok")' = Voted("ok") /\ Voted("fail")' = Voted("fail")
      /\ Before({"deciding"})' = Before({"deciding"})
  BY <1>1 DEF Uncounted, Before, Voted, HasVoted
<1>3. Cardinality(Uncounted') = Cardinality(Uncounted) - 1
  BY <1>2, ProposersFinite, FS_RemoveElement
<1>4. CountersExact'
  BY <1>2, <1>3 DEF CountersExact, Uncounted
<1>5. Cardinality(Uncounted) # 0
  BY <1>2, ProposersFinite, FS_EmptySet
<1>6. finishCounter \in 1..Size
  BY <1>5, QuorumAssumption DEF TypeOK, CountersExact, Uncounted
<1>7. TypeOK'
  BY <1>6, QuorumAssumption DEF TypeOK, Goto, CallbackSteps
<1>8. CallbackFollowsFuture'
  BY <1>1 DEF CallbackFollowsFuture
<1>9. \A q \in Proposers : ~last[q]
  BY <1>6, QuorumAssumption DEF LastIsUnique
<1>10. LastIsUnique'
  <2>1. \A q \in Proposers : last'[q] => q = p /\ finishCounter' = 0
    BY <1>1, <1>9
  <2>2. ~finish /\ \A q \in Proposers : callback[q] # "closing"
    BY <1>9 DEF LastIsUnique
  <2>3. \A q \in Proposers : callback'[q] \in {"idle", "entered"} => ~last'[q]
    BY <1>1, <1>9
  <2> QED BY <1>1, <2>1, <2>2, <2>3 DEF LastIsUnique
<1>11. NoDecisionRace'
  BY <1>1 DEF NoDecisionRace
<1>12. SomebodyDecides'
  BY <1>2 DEF SomebodyDecides
<1>13. DeciderIsRight'
  BY <1>1, <1>2 DEF DeciderIsRight
<1> QED
  BY <1>4, <1>7, <1>8, <1>10, <1>11, <1>12, <1>13

(* A vote enters exactly one of the sets the counters count. *)
LEMMA VoteCounts ==
  ASSUME IInv, NEW p \in Proposers, Vote(p)
  PROVE  CountersExact' /\ Uncounted' = Uncounted
<1> USE DEF IInv, Vote, outcome, scan
<1>1. /\ \A q \in Proposers : q # p => callback'[q] = callback[q]
      /\ callback'[p] \in {"deciding", "voted"}
      /\ callback[p] = "counted"
      /\ future' = future
  BY DEF TypeOK, Goto
<1>2. Uncounted' = Uncounted
  BY <1>1 DEF Uncounted, Before
<1>3. \A a \in {"ok", "fail"} :
        /\ Voted(a)' = IF future[p] = a THEN Voted(a) \cup {p} ELSE Voted(a)
        /\ p \notin Voted(a)
        /\ Voted(a) \in SUBSET Proposers
  BY <1>1 DEF Voted, HasVoted
<1>4. \A a \in {"ok", "fail"} :
        Cardinality(Voted(a)') = Cardinality(Voted(a))
                                 + (IF future[p] = a THEN 1 ELSE 0)
  <2>1. TAKE a \in {"ok", "fail"}
  <2>2. CASE future[p] = a
    BY <1>3, <2>2, ProposersFinite, FS_AddElement
  <2>3. CASE future[p] # a
    BY <1>3, <2>3, ProposersFinite
  <2> QED BY <2>2, <2>3
<1>5. future[p] \in {"ok", "fail"}
  BY <1>1 DEF TypeOK, CallbackFollowsFuture
<1>6. CASE future[p] = "ok"
  <2>1. /\ Cardinality(Voted("ok")') = Cardinality(Voted("ok")) + 1
        /\ Cardinality(Voted("fail")') = Cardinality(Voted("fail"))
    BY <1>3, <1>4, <1>6, ProposersFinite
  <2> QED BY <1>2, <1>6, <2>1 DEF CountersExact, Uncounted
<1>7. CASE future[p] = "fail"
  <2>1. /\ Cardinality(Voted("fail")') = Cardinality(Voted("fail")) + 1
        /\ Cardinality(Voted("ok")') = Cardinality(Voted("ok"))
    BY <1>3, <1>4, <1>7, ProposersFinite
  <2> QED BY <1>2, <1>7, <2>1 DEF CountersExact, Uncounted
<1> QED BY <1>5, <1>6, <1>7

(* The vote that crosses a threshold is the first and the only one to do   *)
(* so: before it neither side had its threshold.                           *)
LEMMA VoteStep ==
  ASSUME IInv, NEW p \in Proposers, Vote(p)
  PROVE  IInv'
<1> USE DEF IInv, Vote, outcome, scan
<1> DEFINE step == IF Crosses(p) THEN "deciding" ELSE "voted"
<1>1. /\ \A q \in Proposers :
           callback'[q] = IF q = p THEN step ELSE callback[q]
      /\ callback[p] = "counted"
      /\ future' = future
      /\ future[p] \in {"ok", "fail"}
  BY DEF TypeOK, Goto, CallbackFollowsFuture
<1>2. CountersExact' /\ Uncounted' = Uncounted
  BY VoteCounts
<1>3. successCounter + errorCounter < Size
  BY <1>1, SidesBounded DEF CountersExact, HasVoted
<1>4. /\ successCounter \in Nat /\ errorCounter \in Nat
      /\ Size \in Nat /\ Majority \in 1..Size
      /\ successCounter' \in 0..Size /\ errorCounter' \in 0..Size
  BY <1>3, QuorumAssumption DEF TypeOK
<1>5. TypeOK'
  BY <1>1, <1>4 DEF TypeOK, Goto, CallbackSteps
<1>6. CallbackFollowsFuture'
  BY <1>1 DEF CallbackFollowsFuture
<1>7. LastIsUnique'
  BY <1>1 DEF LastIsUnique
<1>8. Crosses(p) => /\ successCounter < Majority
                    /\ errorCounter <= Size - Majority
                    /\ continuation = "pending"
                    /\ Before({"deciding"}) = {}
  <2>1. Crosses(p) => /\ successCounter < Majority
                      /\ errorCounter <= Size - Majority
    BY <1>1, <1>3, <1>4 DEF Crosses
  <2> QED BY <1>4, <2>1 DEF SomebodyDecides
<1>9. NoDecisionRace'
  BY <1>1, <1>8 DEF NoDecisionRace, Before
<1>10. (\/ successCounter' >= Majority \/ errorCounter' > Size - Majority)
         <=> (\/ Crosses(p)
              \/ successCounter >= Majority \/ errorCounter > Size - Majority)
  BY <1>1, <1>4 DEF Crosses
<1>11. Before({"deciding"})' = IF Crosses(p) THEN Before({"deciding"}) \cup {p}
                               ELSE Before({"deciding"})
  BY <1>1 DEF Before
<1>12. SomebodyDecides'
  BY <1>10, <1>11 DEF SomebodyDecides
<1>13. DeciderIsRight'
  <2>1. successCounter' >= successCounter /\ errorCounter' >= errorCounter
    BY <1>4
  <2>2. Crosses(p) => IF future[p] = "ok" THEN successCounter' >= Majority
                      ELSE errorCounter' > Size - Majority
    BY <1>1, <1>4 DEF Crosses
  <2>3. \A q \in Before({"deciding"}) :
          IF future[q] = "ok" THEN successCounter' >= Majority
                              ELSE errorCounter' > Size - Majority
    BY <1>4, <2>1 DEF DeciderIsRight
  <2>4. /\ continuation = "accepted" => successCounter' >= Majority
        /\ continuation = "rejected" => errorCounter' > Size - Majority
    BY <1>4, <2>1 DEF DeciderIsRight
  <2> QED BY <1>1, <1>11, <2>2, <2>3, <2>4 DEF DeciderIsRight
<1> QED
  BY <1>2, <1>5, <1>6, <1>7, <1>9, <1>12, <1>13

(* The one callback deciding completes the continuation. *)
LEMMA DecideStep ==
  ASSUME IInv, NEW p \in Proposers, Decide(p)
  PROVE  IInv'
<1> USE DEF IInv, Decide, counters, scan
<1>1. /\ \A q \in Proposers :
           callback'[q] = IF q = p THEN "voted" ELSE callback[q]
      /\ callback[p] = "deciding"
      /\ continuation = "pending"
      /\ continuation' = IF future[p] = "ok" THEN "accepted" ELSE "rejected"
      /\ Before({"deciding"}) = {p}
  BY DEF TypeOK, Goto, NoDecisionRace, Before
<1>2. TypeOK'
  BY <1>1 DEF TypeOK, Goto, CallbackSteps
<1>3. CallbackFollowsFuture' /\ LastIsUnique'
  BY <1>1 DEF CallbackFollowsFuture, LastIsUnique
<1>4. Uncounted' = Uncounted /\ \A a \in {"ok", "fail"} : Voted(a)' = Voted(a)
  BY <1>1, SameSets DEF CallbackSteps, HasVoted
<1>5. CountersExact'
  BY <1>4 DEF CountersExact, Uncounted
<1>6. Before({"deciding"})' = {}
  BY <1>1 DEF Before
<1>7. NoDecisionRace' /\ DeciderIsRight'
  BY <1>1, <1>6 DEF NoDecisionRace, DeciderIsRight, Before
<1>8. SomebodyDecides'
  BY <1>1 DEF SomebodyDecides
<1> QED BY <1>2, <1>3, <1>5, <1>7, <1>8

(* Cancelling the timer moves only the last callback. *)
LEMMA CancelTimerStep ==
  ASSUME IInv, NEW p \in Proposers, CancelTimer(p)
  PROVE  IInv'
<1> USE DEF IInv, CancelTimer, counters, outcome
<1>1. /\ \A q \in Proposers :
           callback'[q] = IF q = p THEN "closing" ELSE callback[q]
      /\ callback[p] = "voted" /\ last[p]
  BY DEF TypeOK, Goto
<1>2. TypeOK'
  BY <1>1 DEF TypeOK, Goto, CallbackSteps
<1>3. CallbackFollowsFuture' /\ NoDecisionRace'
  BY <1>1 DEF CallbackFollowsFuture, NoDecisionRace
<1>4. Uncounted' = Uncounted /\ \A a \in {"ok", "fail"} : Voted(a)' = Voted(a)
  BY <1>1, SameSets DEF CallbackSteps, HasVoted
<1>5. CountersExact'
  BY <1>4 DEF CountersExact, Uncounted
<1>6. ~finish
  BY <1>1 DEF LastIsUnique
<1>7. LastIsUnique'
  BY <1>1, <1>6 DEF LastIsUnique
<1>8. Before({"deciding"})' = Before({"deciding"})
  BY <1>1 DEF Before
<1>9. SomebodyDecides' /\ DeciderIsRight'
  BY <1>8 DEF SomebodyDecides, DeciderIsRight
<1> QED BY <1>2, <1>3, <1>5, <1>7, <1>9

(* A callback returns; the last one has completed finish. *)
LEMMA FinishStep ==
  ASSUME IInv, NEW p \in Proposers, Finish(p)
  PROVE  IInv'
<1> USE DEF IInv, Finish, counters, scan
<1>1. /\ \A q \in Proposers :
           callback'[q] = IF q = p THEN "returned" ELSE callback[q]
      /\ callback[p] \in {"closing", "voted"}
  BY DEF TypeOK, Goto
<1>2. TypeOK'
  BY <1>1 DEF TypeOK, Goto, CallbackSteps
<1>3. CallbackFollowsFuture' /\ NoDecisionRace'
  BY <1>1 DEF CallbackFollowsFuture, NoDecisionRace
<1>4. Uncounted' = Uncounted /\ \A a \in {"ok", "fail"} : Voted(a)' = Voted(a)
  BY <1>1, SameSets DEF CallbackSteps, HasVoted
<1>5. CountersExact'
  BY <1>4 DEF CountersExact, Uncounted
<1>6. LastIsUnique'
  <2>1. CASE callback[p] = "closing"
    BY <1>1, <2>1 DEF LastIsUnique
  <2>2. CASE callback[p] = "voted"
    BY <1>1, <2>2 DEF LastIsUnique
  <2> QED BY <1>1, <2>1, <2>2
<1>7. Before({"deciding"})' = Before({"deciding"})
  BY <1>1 DEF Before
<1>8. SomebodyDecides' /\ DeciderIsRight'
  BY <1>7 DEF SomebodyDecides, DeciderIsRight
<1> QED BY <1>2, <1>3, <1>5, <1>6, <1>8

(* Steps that touch the timeout callback alone. *)
LEMMA ScanOnlyStep ==
  ASSUME IInv, UNCHANGED <<launched, future, callback, last, counters, outcome>>,
         timer' \in {"none", "waiting", "scanning", "over"},
         at' \in 1..(Size + 1), held' \in Proposers \cup {NoProposer}
  PROVE  IInv'
<1> USE DEF IInv, counters, outcome
<1>1. TypeOK'
  BY DEF TypeOK
<1>2. CountersExact'
  BY DEF CountersExact, Before, Voted, HasVoted
<1> QED
  BY <1>1, <1>2 DEF CallbackFollowsFuture, LastIsUnique, NoDecisionRace,
    SomebodyDecides, DeciderIsRight, Before

(* A turn of the timeout callback cancels at most one proposer. *)
LEMMA CancelStep ==
  ASSUME IInv, Cancel(held), UNCHANGED <<launched, last, counters, outcome>>,
         timer' \in {"none", "waiting", "scanning", "over"},
         at' \in 1..(Size + 1), held' \in Proposers \cup {NoProposer}
  PROVE  IInv'
<1>1. CASE held # NoProposer /\ held <= launched /\ future[held] = "pending"
  <2>1. held \in Proposers /\ Settle(held, "fail")
    BY <1>1 DEF Cancel, IInv, TypeOK
  <2> QED BY <1>1, <2>1, SettleStep
<1>2. CASE ~(held # NoProposer /\ held <= launched /\ future[held] = "pending")
  BY <1>2, ScanOnlyStep DEF Cancel
<1> QED BY <1>1, <1>2

(* Every step keeps the invariant. *)
LEMMA NextInvariant == IInv /\ [Next]_vars => IInv'
<1> SUFFICES ASSUME IInv, [Next]_vars PROVE IInv'
  OBVIOUS
<1>1. /\ at \in 1..(Size + 1) /\ held \in Proposers \cup {NoProposer}
      /\ timer \in {"none", "waiting", "scanning", "over"}
  BY DEF IInv, TypeOK
<1>2. CASE Launch
  BY <1>2, LaunchStep
<1>3. ASSUME NEW p \in Proposers, NEW a \in {"ok", "fail"}, Complete(p, a)
      PROVE  IInv'
  BY <1>1, <1>3, SettleStep DEF Complete, scan
<1>4. ASSUME NEW p \in Proposers, CallbackStep(p) PROVE IInv'
  BY <1>4, CountDownStep, VoteStep, DecideStep, CancelTimerStep, FinishStep
     DEF CallbackStep
<1>5. CASE Expire
  BY <1>1, <1>5, ScanOnlyStep DEF Expire
<1>6. CASE Scan
  <2>1. at' \in 1..(Size + 1)
    BY <1>6, QuorumAssumption DEF Scan, Proposers
  <2>2. CASE future[at] = "pending"
    BY <1>1, <1>6, <2>1, <2>2, CancelStep DEF Scan
  <2>3. CASE future[at] # "pending"
    BY <1>1, <1>6, <2>1, <2>3, ScanOnlyStep DEF Scan
  <2> QED BY <2>2, <2>3
<1>7. CASE CancelHeld
  BY <1>1, <1>7, CancelStep DEF CancelHeld
<1>8. CASE UNCHANGED vars
  BY <1>1, <1>8, ScanOnlyStep DEF vars, counters, outcome
<1> QED
  BY <1>2, <1>3, <1>4, <1>5, <1>6, <1>7, <1>8 DEF Next, ScanStep

(* The counters count the callbacks, and the callback that decides is      *)
(* alone, in every behaviour and for every quorum size.                    *)
THEOREM InvariantHolds == Spec => []IInv
<1> QED BY InitInvariant, NextInvariant, PTL DEF Spec

(* Nobody is pending once finish is completed. *)
LEMMA FinishFollows == IInv => FinishIsLast
<1> SUFFICES ASSUME IInv, finish PROVE Answered("pending") = {}
  BY DEF FinishIsLast
<1>1. finishCounter = 0
  BY DEF IInv, LastIsUnique
<1>2. Uncounted \in SUBSET Proposers /\ Cardinality(Uncounted) = 0
  BY <1>1 DEF IInv, CountersExact, Uncounted, Before
<1>3. Uncounted = {}
  BY <1>2, ProposersFinite, FS_EmptySet
<1> QED
  BY <1>3 DEF IInv, CallbackFollowsFuture, Answered, Uncounted, Before

(* A caller resumed by finish finds every proposer done with its proposal. *)
THEOREM FinishComesLast == Spec => []FinishIsLast
<1> QED BY InvariantHolds, FinishFollows, PTL

(* When all callbacks have returned, both sides add up to all proposers.   *)
LEMMA VerdictFollows == IInv => VerdictIsTheCount
<1> SUFFICES ASSUME IInv, \A p \in Proposers : callback[p] = "returned"
             PROVE  continuation = IF Cardinality(Answered("ok")) >= Majority
                                   THEN "accepted" ELSE "rejected"
  BY DEF VerdictIsTheCount
<1> DEFINE A == Answered("ok")
           B == Answered("fail")
<1>1. Voted("ok") = A /\ Voted("fail") = B /\ Before({"deciding"}) = {}
  BY DEF Voted, Answered, HasVoted, Before
<1>2. A \cup B = Proposers
  BY DEF IInv, CallbackFollowsFuture, TypeOK, Answered
<1>3. A \in SUBSET Proposers /\ B \in SUBSET Proposers /\ A \cap B = {}
  BY DEF Answered
<1>4. successCounter = Cardinality(A) /\ errorCounter = Cardinality(B)
  BY <1>1 DEF IInv, CountersExact
<1> HIDE DEF A, B
<1>5. Cardinality(A) + Cardinality(B) = Size
  <2>1. Cardinality(A \cap B) = 0
    BY <1>3, FS_EmptySet
  <2>2. /\ IsFiniteSet(A) /\ IsFiniteSet(B)
        /\ Cardinality(A) \in Nat /\ Cardinality(B) \in Nat
    BY <1>3, ProposersFinite
  <2>3. Cardinality(A \cup B)
          = Cardinality(A) + Cardinality(B) - Cardinality(A \cap B)
    BY <2>2, FS_Union
  <2> QED BY <1>2, <2>1, <2>2, <2>3, ProposersFinite
<1>6. /\ Cardinality(A) \in Nat /\ Cardinality(B) \in Nat
      /\ Size \in Nat /\ Majority \in Nat
  BY <1>3, ProposersFinite, QuorumAssumption
<1>7. successCounter >= Majority \/ errorCounter > Size - Majority
  BY <1>4, <1>5, <1>6
<1>8. continuation \in {"accepted", "rejected"}
  BY <1>1, <1>7 DEF IInv, SomebodyDecides, TypeOK
<1>9. /\ continuation = "accepted" => Cardinality(A) >= Majority
      /\ continuation = "rejected" => Cardinality(A) < Majority
  BY <1>4, <1>5, <1>6 DEF IInv, DeciderIsRight
<1> QED BY <1>6, <1>8, <1>9 DEF A

(* The verdict is true exactly when a majority succeeded, whatever the     *)
(* order of the answers and of the steps of their callbacks.               *)
THEOREM VerdictIsRight == Spec => []VerdictIsTheCount
<1> QED BY InvariantHolds, VerdictFollows, PTL

(* An answer is a vote of MajorityVote. *)
LEMMA SettleIsAnswer ==
  ASSUME IInv, NEW p \in Proposers, NEW a \in {"ok", "fail"},
         future[p] = "pending", Settle(p, a), UNCHANGED outcome
  PROVE  Vote_!Next
<1>1. Vote_!Answer(p)
  BY DEF Vote_!Answer, Settle, outcome
<1> QED BY <1>1 DEF Vote_!Next

(* A side that crossed its threshold is a majority, or meets every one.    *)
LEMMA ThresholdsMeanMajorities ==
  ASSUME IInv
  PROVE  /\ successCounter >= Majority => Vote_!Answered("ok") \in Majorities
         /\ errorCounter > Size - Majority =>
              \A M \in Majorities : M \cap Vote_!Answered("fail") # {}
<1> DEFINE A == Vote_!Answered("ok")
           B == Vote_!Answered("fail")
<1>1. /\ A \in SUBSET Proposers /\ Voted("ok") \in SUBSET A
      /\ B \in SUBSET Proposers /\ Voted("fail") \in SUBSET B
  BY DEF Vote_!Answered, Voted
<1> HIDE DEF A, B
<1>2. /\ Cardinality(A) \in Nat /\ Cardinality(B) \in Nat
      /\ Cardinality(A) >= successCounter /\ Cardinality(B) >= errorCounter
      /\ successCounter \in Nat /\ errorCounter \in Nat
      /\ Size \in Nat /\ Majority \in Nat
  <2>1. IsFiniteSet(A) /\ IsFiniteSet(B)
    BY <1>1, ProposersFinite
  <2>2. /\ Cardinality(Voted("ok")) <= Cardinality(A)
        /\ Cardinality(Voted("fail")) <= Cardinality(B)
    BY <1>1, <2>1, FS_Subset
  <2>3. Cardinality(A) \in Nat /\ Cardinality(B) \in Nat
    BY <1>1, ProposersFinite
  <2> QED BY <2>2, <2>3, QuorumAssumption DEF IInv, CountersExact, TypeOK
<1>3. successCounter >= Majority => A \in Majorities
  BY <1>1, <1>2 DEF Majorities
<1>4. ASSUME errorCounter > Size - Majority, NEW M \in Majorities
      PROVE  M \cap B # {}
  <2>1. /\ M \in SUBSET Proposers /\ Cardinality(M) >= Majority
        /\ Cardinality(M) \in Nat
    BY ProposersFinite DEF Majorities
  <2>2. Cardinality(M) + Cardinality(B) > Cardinality(Proposers)
    BY <1>2, <1>4, <2>1, ProposersFinite
  <2> QED BY <1>1, <2>1, <2>2, ProposersFinite, FS_MajoritiesIntersect
<1> QED BY <1>3, <1>4 DEF A, B

(* A cancelled proposal is a vote against, or no step at all. *)
LEMMA CancelIsAnswer ==
  ASSUME IInv, Cancel(held), UNCHANGED outcome
  PROVE  Vote_!Next \/ UNCHANGED Vote_!vars
<1>1. CASE held # NoProposer /\ held <= launched /\ future[held] = "pending"
  BY <1>1, SettleIsAnswer DEF Cancel, IInv, TypeOK
<1>2. CASE ~(held # NoProposer /\ held <= launched /\ future[held] = "pending")
  BY <1>2 DEF Cancel, outcome, Vote_!vars
<1> QED BY <1>1, <1>2

(* Every quorum is a majority vote: one verdict, announced when the votes  *)
(* cast decide it, and a close after the last of them.                     *)
THEOREM QuorumImplementsVote == Spec => ImplementsVote
<1>1. Init => Vote_!Init
  BY DEF Init, Vote_!Init
<1>2. IInv /\ IInv' /\ [Next]_vars => [Vote_!Next]_(Vote_!vars)
  <2> SUFFICES ASSUME IInv, IInv', [Next]_vars
               PROVE  Vote_!Next \/ UNCHANGED Vote_!vars
    OBVIOUS
  <2>1. CASE Launch
    BY <2>1 DEF Launch, outcome, Vote_!vars
  <2>2. ASSUME NEW p \in Proposers, NEW a \in {"ok", "fail"}, Complete(p, a)
        PROVE  Vote_!Next
    BY <2>2, SettleIsAnswer DEF Complete
  <2>3. ASSUME NEW p \in Proposers, CountDown(p) \/ Vote(p) \/ CancelTimer(p)
        PROVE  UNCHANGED Vote_!vars
    BY <2>3 DEF CountDown, Vote, CancelTimer, outcome, Vote_!vars
  <2>4. ASSUME NEW p \in Proposers, Decide(p)
        PROVE  Vote_!Next
    <3>1. /\ continuation = "pending" /\ UNCHANGED <<future, finish>>
          /\ p \in Before({"deciding"})
          /\ continuation' = IF future[p] = "ok" THEN "accepted" ELSE "rejected"
      BY <2>4 DEF IInv, NoDecisionRace, Decide, Before
    <3>4. CASE future[p] = "ok"
      <4>1. Vote_!Answered("ok") \in Majorities
        BY <3>1, <3>4, ThresholdsMeanMajorities DEF IInv, DeciderIsRight
      <4> QED BY <3>1, <3>4, <4>1 DEF Vote_!Next, Vote_!Accept
    <3>5. CASE future[p] # "ok"
      <4>1. \A M \in Majorities : M \cap Vote_!Answered("fail") # {}
        BY <3>1, <3>5, ThresholdsMeanMajorities DEF IInv, DeciderIsRight
      <4> QED BY <3>1, <3>5, <4>1 DEF Vote_!Next, Vote_!Reject
    <3> QED BY <3>4, <3>5
  <2>5. ASSUME NEW p \in Proposers, Finish(p)
        PROVE  Vote_!Next \/ UNCHANGED Vote_!vars
    <3>1. CASE callback[p] = "closing"
      <4>1. ~finish /\ finish' /\ UNCHANGED <<future, continuation>>
        BY <2>5, <3>1 DEF Finish, IInv, LastIsUnique
      <4>2. FinishIsLast'
        BY FinishFollows, PTL
      <4>3. Vote_!Answered("pending") = {}
        BY <4>1, <4>2 DEF FinishIsLast, Answered, Vote_!Answered
      <4>4. finish' = TRUE
        BY <2>5, <3>1 DEF Finish
      <4> QED BY <4>1, <4>3, <4>4 DEF Vote_!Next, Vote_!Close
    <3>2. CASE callback[p] # "closing"
      BY <2>5, <3>2 DEF Finish, Vote_!vars
    <3> QED BY <3>1, <3>2
  <2>6. CASE Expire
    BY <2>6 DEF Expire, outcome, Vote_!vars
  <2>7. CASE Scan
    <3>1. CASE future[at] = "pending"
      BY <2>7, <3>1, CancelIsAnswer DEF Scan
    <3>2. CASE future[at] # "pending"
      BY <2>7, <3>2 DEF Scan, outcome, Vote_!vars
    <3> QED BY <3>1, <3>2
  <2>8. CASE CancelHeld
    BY <2>8, CancelIsAnswer DEF CancelHeld
  <2>9. CASE UNCHANGED vars
    BY <2>9 DEF vars, Vote_!vars
  <2> QED
    BY <2>1, <2>2, <2>3, <2>4, <2>5, <2>6, <2>7, <2>8, <2>9
       DEF Next, CallbackStep, ScanStep
<1> QED
  BY <1>1, <1>2, InvariantHolds, PTL DEF Spec, ImplementsVote, Vote_!Spec
==============================================================================
