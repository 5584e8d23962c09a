--------------------------- MODULE QuorumProposal ---------------------------
(***************************************************************************)
(* Quorum::ProposeAsync and Quorum::TimeLimitedProposeAsync                *)
(* (include/sharpen/Quorum.hpp): a proposal is sent to every proposer of a *)
(* range; the futures they answer through share three atomic counters, and *)
(* the callback that makes a counter cross its threshold completes the     *)
(* caller's continuation (is there a majority?) or its finish (did         *)
(* everybody answer?).  Each atomic operation of a callback is a step, so  *)
(* that callbacks of several event loop threads interleave.                *)
(***************************************************************************)
EXTENDS Integers, FiniteSets

CONSTANTS Size,     \* length of the range of proposers, not empty
          Majority  \* successes wanted

ASSUME QuorumAssumption == Size \in Nat \ {0} /\ Majority \in 1..Size

Proposers == 1..Size

NoProposer == 0  \* the iterator "end" of the timeout callback

VARIABLES
    launched,        \* proposers the launch loop has reached
    future,          \* futures_: "pending", "ok" or "fail", per proposer
    callback,        \* where the completed callback of a future is
    last,            \* its local finishCounter == 0
    finishCounter,   \* callbacks that have not counted themselves yet
    successCounter,
    errorCounter,
    continuation,    \* "pending", "accepted" (true) or "rejected" (false)
    finish,          \* the finish future is completed
    timer,           \* "none", "waiting", "scanning", "over"
    at,              \* timeout callback: index of the iterator begin
    held             \* timeout callback: ite, found pending, not cancelled yet

vars == <<launched, future, callback, last, finishCounter, successCounter,
          errorCounter, continuation, finish, timer, at, held>>

counters == <<finishCounter, successCounter, errorCounter>>
outcome == <<continuation, finish>>
scan == <<timer, at, held>>

CallbackSteps == {"idle", "entered", "counted", "deciding", "voted",
                  "closing", "returned"}

Init == /\ launched = 0
        /\ future = [p \in Proposers |-> "pending"]
        /\ callback = [p \in Proposers |-> "idle"]
        /\ last = [p \in Proposers |-> FALSE]
        /\ finishCounter = Size
        /\ successCounter = 0
        /\ errorCounter = 0
        /\ continuation = "pending"
        /\ finish = FALSE
        /\ timer \in {"none", "waiting"}  \* which of the two calls it is
        /\ at = 1
        /\ held = NoProposer

Goto(p, step) == callback' = [callback EXCEPT ![p] = step]

Answered(a) == {p \in Proposers : future[p] = a}

-----------------------------------------------------------------------------
(* The launch loop.                                                        *)

Launch == /\ launched < Size
          /\ launched' = launched + 1
          /\ UNCHANGED <<future, callback, last, counters, outcome, scan>>

-----------------------------------------------------------------------------
(* A proposer answers.  The future's callback starts on the same thread.   *)

Settle(p, a) == /\ future' = [future EXCEPT ![p] = a]
                /\ Goto(p, "entered")

\* Inside ProposeAsync, or later from whatever thread serves the proposer.
Complete(p, a) ==
    /\ p <= launched
    /\ future[p] = "pending"
    /\ Settle(p, a)
    /\ UNCHANGED <<launched, last, counters, outcome, scan>>

-----------------------------------------------------------------------------
(* CompletedCallback, TimeLimitedCompletedCallback.                        *)

\* Mutant: the counter is read back instead of using what fetch_sub returned.
CountDownTwice(p) ==
    /\ callback[p] = "entered"
    /\ finishCounter' = finishCounter - 1
    /\ last' = [last EXCEPT ![p] = finishCounter' <= 1]
    /\ Goto(p, "counted")
    /\ UNCHANGED <<launched, future, successCounter, errorCounter, outcome, scan>>

CountDown(p) ==
    /\ callback[p] = "entered"
    /\ finishCounter' = finishCounter - 1
    /\ last' = [last EXCEPT ![p] = finishCounter' = 0]
    /\ Goto(p, "counted")
    /\ UNCHANGED <<launched, future, successCounter, errorCounter, outcome, scan>>

\* Mutant: the threshold is passed rather than crossed.
AtLeast(p) == IF future[p] = "ok" THEN successCounter + 1 >= Majority
                                  ELSE Size - errorCounter <= Majority

\* Mutant: a majority of errors is awaited, as of successes.
SameThreshold(p) == IF future[p] = "ok" THEN successCounter + 1 = Majority
                                        ELSE errorCounter + 1 = Majority

\* This callback's own increment makes its counter cross the threshold: an
\* error does when the errors before it had left exactly a majority possible.
Crosses(p) == IF future[p] = "ok" THEN successCounter + 1 = Majority
                                  ELSE Size - errorCounter = Majority

Vote(p) ==
    /\ callback[p] = "counted"
    /\ IF future[p] = "ok"
       THEN successCounter' = successCounter + 1 /\ UNCHANGED errorCounter
       ELSE errorCounter' = errorCounter + 1 /\ UNCHANGED successCounter
    /\ Goto(p, IF Crosses(p) THEN "deciding" ELSE "voted")
    /\ UNCHANGED <<launched, future, last, finishCounter, outcome, scan>>

\* CompleteFuture(continuation_, success): the pointer is swapped out with no
\* synchronisation, and a pointer already taken completes nothing.
Decide(p) ==
    /\ callback[p] = "deciding"
    /\ continuation' = IF continuation # "pending" THEN continuation
                       ELSE IF future[p] = "ok" THEN "accepted" ELSE "rejected"
    /\ Goto(p, "voted")
    /\ UNCHANGED <<launched, future, last, counters, finish, scan>>

\* timer_->Cancel(): a timer still waiting completes its future with false,
\* which the timeout callback ignores.
CancelTimer(p) ==
    /\ callback[p] = "voted"
    /\ last[p]
    /\ timer' = IF timer = "waiting" THEN "over" ELSE timer
    /\ Goto(p, "closing")
    /\ UNCHANGED <<launched, future, last, counters, outcome, at, held>>

\* CompleteFuture(finish_) by the last callback; the others just return.
Finish(p) ==
    /\ \/ callback[p] = "closing" /\ finish' = TRUE
       \/ callback[p] = "voted" /\ ~last[p] /\ UNCHANGED finish
    /\ Goto(p, "returned")
    /\ UNCHANGED <<launched, future, last, counters, continuation, scan>>

-----------------------------------------------------------------------------
(* IteratorTimeoutCallback, MapIteratorTimeoutCallback.                    *)

\* The timer was started before the first proposer was asked.
Expire == /\ timer = "waiting"
          /\ timer' = "scanning"
          /\ UNCHANGED <<launched, future, callback, last, counters, outcome,
                         at, held>>

\* Cancel() of a proposer: a proposal under way fails, at once and on the
\* calling thread; one that has not been made, or is answered, is untouched.
Cancel(p) == IF p # NoProposer /\ p <= launched /\ future[p] = "pending"
             THEN Settle(p, "fail")
             ELSE UNCHANGED <<future, callback>>

\* One turn of the loop: the pending proposer found before this one is
\* cancelled, this one is held back.
Scan == /\ timer = "scanning"
        /\ at \in Proposers
        /\ IF future[at] = "pending"
           THEN held' = at /\ Cancel(held)
           ELSE UNCHANGED <<held, future, callback>>
        /\ at' = at + 1
        /\ UNCHANGED <<launched, last, counters, outcome, timer>>

\* Mutant: the proposer held back is forgotten.
ForgetHeld == /\ timer = "scanning"
              /\ at = Size + 1
              /\ timer' = "over"
              /\ UNCHANGED <<launched, future, callback, last, counters, outcome,
                             at, held>>

\* After the loop the last one found is cancelled; nothing is touched then.
CancelHeld == /\ timer = "scanning"
              /\ at = Size + 1
              /\ Cancel(held)
              /\ timer' = "over"
              /\ UNCHANGED <<launched, last, counters, outcome, at, held>>

-----------------------------------------------------------------------------
CallbackStep(p) == CountDown(p) \/ Vote(p) \/ Decide(p) \/ CancelTimer(p)
                   \/ Finish(p)

ScanStep == Scan \/ CancelHeld

Next == \/ Launch
        \/ \E p \in Proposers, a \in {"ok", "fail"} : Complete(p, a)
        \/ \E p \in Proposers : CallbackStep(p)
        \/ Expire
        \/ ScanStep

Spec == Init /\ [][Next]_vars

(* The launch loop and every callback run to their end, and the timer, if  *)
(* any, goes off.  Proposers answer by themselves only where nothing would *)
(* cancel them.                                                            *)
Fairness ==
    /\ WF_vars(Launch)
    /\ \A p \in Proposers : WF_vars(CallbackStep(p))
    /\ WF_vars(Expire) /\ WF_vars(ScanStep)
    /\ \A p \in Proposers :
         WF_vars(timer = "none" /\ \E a \in {"ok", "fail"} : Complete(p, a))

LiveSpec == Spec /\ Fairness

-----------------------------------------------------------------------------
(* Properties.                                                             *)

TypeOK ==
    /\ launched \in 0..Size
    /\ future \in [Proposers -> {"pending", "ok", "fail"}]
    /\ callback \in [Proposers -> CallbackSteps]
    /\ last \in [Proposers -> BOOLEAN]
    /\ finishCounter \in 0..Size
    /\ successCounter \in 0..Size
    /\ errorCounter \in 0..Size
    /\ continuation \in {"pending", "accepted", "rejected"}
    /\ finish \in BOOLEAN
    /\ timer \in {"none", "waiting", "scanning", "over"}
    /\ at \in 1..(Size + 1)
    /\ held \in Proposers \cup {NoProposer}

Before(step) == {p \in Proposers : callback[p] \in step}

HasVoted(p) == callback[p] \notin {"idle", "entered", "counted"}

Voted(a) == {p \in Proposers : future[p] = a /\ HasVoted(p)}

\* A callback runs exactly when its future is settled, and only after the
\* proposer was asked.
CallbackFollowsFuture ==
    \A p \in Proposers : /\ (callback[p] = "idle") <=> (future[p] = "pending")
                         /\ callback[p] # "idle" => p <= launched

\* The three counters count callbacks.
CountersExact ==
    /\ finishCounter = Cardinality(Before({"idle", "entered"}))
    /\ successCounter = Cardinality(Voted("ok"))
    /\ errorCounter = Cardinality(Voted("fail"))

\* The last callback is the one that brought the counter to zero; finish
\* comes from it alone.
LastIsUnique ==
    /\ \A p \in Proposers : last[p] =>
         /\ finishCounter = 0
         /\ \A q \in Proposers : last[q] => q = p
    /\ \A p \in Proposers : callback[p] \in {"idle", "entered"} => ~last[p]
    /\ \A p \in Proposers : callback[p] = "closing" => last[p] /\ ~finish
    /\ finish => \E p \in Proposers : last[p] /\ callback[p] = "returned"

\* The thresholds exclude each other, and are crossed by one callback: the
\* one deciding finds the continuation untouched.  Both pointers are swapped
\* without synchronisation (Quorum.hpp:44-53), so this is what makes it safe.
NoDecisionRace ==
    \A p \in Proposers : callback[p] = "deciding" =>
        /\ continuation = "pending"
        /\ \A q \in Proposers : callback[q] = "deciding" => q = p

\* A crossed threshold stays crossed, and somebody announces it.
SomebodyDecides ==
    (continuation # "pending" \/ Before({"deciding"}) # {})
        <=> \/ successCounter >= Majority
            \/ errorCounter > Size - Majority

\* Whoever is deciding announces the side that crossed.
DeciderIsRight ==
    /\ \A p \in Before({"deciding"}) :
         IF future[p] = "ok" THEN successCounter >= Majority
                             ELSE errorCounter > Size - Majority
    /\ continuation = "accepted" => successCounter >= Majority
    /\ continuation = "rejected" => errorCounter > Size - Majority

IInv == /\ TypeOK
        /\ CallbackFollowsFuture
        /\ CountersExact
        /\ LastIsUnique
        /\ NoDecisionRace
        /\ SomebodyDecides
        /\ DeciderIsRight

\* When every callback has returned, the verdict is the one a count of the
\* answers gives: QuorumTest.cpp:228 asserts status == (success >= 5) of ten.
VerdictIsTheCount ==
    (\A p \in Proposers : callback[p] = "returned") =>
        continuation = IF Cardinality(Answered("ok")) >= Majority
                       THEN "accepted" ELSE "rejected"

\* Finish is completed after the last answer: a caller resumed by finish may
\* destroy the proposers.
FinishIsLast == finish => Answered("pending") = {}

\* The quorum keeps the promise of MajorityVote.
Majorities == {S \in SUBSET Proposers : Cardinality(S) >= Majority}
Vote_ == INSTANCE MajorityVote
            WITH answer <- future, verdict <- continuation, closed <- finish
ImplementsVote == Vote_!Spec

\* Both futures of the caller are completed in the end, with proposers that
\* answer or with a timeout that cancels those that do not, unless the timeout
\* comes while proposals are still being made: it is started before them.
BothComplete == [](timer = "scanning" => launched = Size)
                    => <>(continuation # "pending" /\ finish)
=============================================================================
