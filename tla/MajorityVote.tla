---------------------------- MODULE MajorityVote ----------------------------
(***************************************************************************)
(* What a quorum promises its caller: each proposer answers once, the      *)
(* verdict is announced once and is the one every later answer leaves      *)
(* true, and the vote closes only after the last answer.                   *)
(***************************************************************************)

CONSTANTS Proposers,  \* who is asked
          Majorities  \* the sets of proposers that suffice

VARIABLES answer,     \* per proposer: "pending", "ok" or "fail"
          verdict,    \* "pending", "accepted" or "rejected"
          closed      \* every answer is in

vars == <<answer, verdict, closed>>

Answered(a) == {p \in Proposers : answer[p] = a}

Init == /\ answer = [p \in Proposers |-> "pending"]
        /\ verdict = "pending"
        /\ closed = FALSE

Answer(p) ==
    /\ answer[p] = "pending"
    /\ \E a \in {"ok", "fail"} : answer' = [answer EXCEPT ![p] = a]
    /\ UNCHANGED <<verdict, closed>>

Accept == /\ verdict = "pending"
          /\ Answered("ok") \in Majorities
          /\ verdict' = "accepted"
          /\ UNCHANGED <<answer, closed>>

\* No majority is left that nobody of refused.
Reject == /\ verdict = "pending"
          /\ \A M \in Majorities : M \cap Answered("fail") # {}
          /\ verdict' = "rejected"
          /\ UNCHANGED <<answer, closed>>

Close == /\ Answered("pending") = {}
         /\ ~closed
         /\ closed' = TRUE
         /\ UNCHANGED <<answer, verdict>>

Next == \/ \E p \in Proposers : Answer(p)
        \/ Accept \/ Reject \/ Close

Spec == Init /\ [][Next]_vars
=============================================================================
