------------------------------ MODULE TimerLoop ------------------------------
(***************************************************************************)
(* TimerLoop (src/TimerLoop.cpp) on a LinuxTimer (src/LinuxTimer.cpp): a   *)
(* fiber, the entry, waits for its timer and calls a handler, again and    *)
(* again.  Its owner starts and terminates it, as RaftGroup's Start and    *)
(* Stop do; another fiber cancels the wait under way to put the next call  *)
(* of the handler off, as RaftGroup's DelayFollowerCycle does.  The owner, *)
(* the canceller, the entry and the event loop that reports the timer's    *)
(* descriptor run on the threads of one engine.                            *)
(***************************************************************************)
EXTENDS Naturals

CONSTANTS MaxStarts,  \* bound: entries launched in one behaviour
          Overtaking  \* the owner may run while an entry stops itself; it
                      \* cannot if the engine has a single thread

ASSUME TimerLoopAssumption == MaxStarts \in Nat \ {0} /\ Overtaking \in BOOLEAN

Entries == 1..MaxStarts
NoEntry == 0

VARIABLES
    token,      \* token_
    future,     \* future_ is "pending" or "completed"
    entries,    \* how many entries were launched
    entryPc,    \* where each entry is
    woken,      \* the entry's own future: "pending", "expired", "cancelled"
    timed,      \* LinuxTimer::future_: the entry whose future it points to
    armed,      \* the descriptor counts down
    reported,   \* the event loop has seen it expire, OnEvent is still to run
    owner,      \* where the owner is
    canceller,  \* where the canceller is
    wanted,     \* the owner's last call was Start, not Terminate
    handled     \* the handler was called since the last Start
timerVars == <<token, future, entries, entryPc, woken, timed, armed, reported, owner,
          canceller, wanted, handled>>

descriptor == <<armed, reported>>
requests == <<wanted, handled>>

TimerTypeOK ==
    /\ token \in BOOLEAN /\ future \in {"pending", "completed"}
    /\ entries \in 0..MaxStarts
    /\ entryPc \in [Entries -> {"none", "loop", "arm", "settime", "await", "leave",
                           "leaveSelf", "clear", "done"}]
    /\ woken \in [Entries -> {"pending", "expired", "cancelled"}]
    /\ timed \in Entries \cup {NoEntry}
    /\ armed \in BOOLEAN /\ reported \in BOOLEAN
    /\ owner \in {"free", "terminate", "waiting", "start"}
    /\ canceller \in {"free", "look", "disarm", "take"}
    /\ wanted \in BOOLEAN /\ handled \in BOOLEAN

TimerInit ==
        /\ token = FALSE
        /\ future = "pending"
        /\ entries = 0
        /\ entryPc = [e \in Entries |-> "none"]
        /\ woken = [e \in Entries |-> "pending"]
        /\ timed = NoEntry
        /\ armed = FALSE /\ reported = FALSE
        /\ owner = "free" /\ canceller = "free"
        /\ wanted = FALSE /\ handled = FALSE

\* Between the handler's return of LoopStatus::Terminate and the end of the
\* entry no fiber is switched: only another thread gets in.
StopsItself(e) == entryPc[e] \in {"leaveSelf", "clear"}
OwnerRuns == Overtaking \/ \A e \in Entries : ~StopsItself(e)

Goto(e, place) == entryPc' = [entryPc EXCEPT ![e] = place]

-----------------------------------------------------------------------------
(* LinuxTimer.                                                             *)

\* The countdown ends and the selector reports it.
Expire == /\ armed
          /\ armed' = FALSE /\ reported' = TRUE
          /\ UNCHANGED <<token, future, entries, entryPc, woken, timed, owner,
                         canceller, requests>>

\* future_.exchange(nullptr), and Complete if it pointed to a future.
Take(outcome) ==
    /\ timed' = NoEntry
    /\ woken' = IF timed = NoEntry THEN woken
                ELSE [woken EXCEPT ![timed] = outcome]

OnEvent == /\ reported
           /\ reported' = FALSE
           /\ Take("expired")
           /\ UNCHANGED <<token, future, entries, entryPc, armed, owner, canceller,
                          requests>>

-----------------------------------------------------------------------------
(* Entry, the fiber.                                                       *)

\* Mutant: the loop goes on whatever the token says.
TestNothing(e) ==
    /\ entryPc[e] = "loop"
    /\ Goto(e, "arm")
    /\ UNCHANGED <<token, future, entries, woken, timed, descriptor, owner,
                   canceller, requests>>

\* while(token_), at first and after each wait that did not end the loop.
TestToken(e) ==
    /\ entryPc[e] = "loop"
    /\ Goto(e, IF token THEN "arm" ELSE "leave")
    /\ UNCHANGED <<token, future, entries, woken, timed, descriptor, owner,
                   canceller, requests>>

\* WaitAsync stores the pointer of the entry's future, now pending; a wait of
\* no time completes it at once instead.
Store(e) ==
    /\ entryPc[e] = "arm"
    /\ \/ /\ woken' = [woken EXCEPT ![e] = "pending"]
          /\ timed' = e
          /\ Goto(e, "settime")
       \/ /\ woken' = [woken EXCEPT ![e] = "expired"]
          /\ Goto(e, "await")
          /\ UNCHANGED timed
    /\ UNCHANGED <<token, future, entries, descriptor, owner, canceller, requests>>

SetTime(e) ==
    /\ entryPc[e] = "settime"
    /\ armed' = TRUE
    /\ Goto(e, "await")
    /\ UNCHANGED <<token, future, entries, woken, timed, reported, owner,
                   canceller, requests>>

\* Await returns false: the handler is not called this time.
Cancelled(e) ==
    /\ entryPc[e] = "await" /\ woken[e] = "cancelled"
    /\ Goto(e, "loop")
    /\ UNCHANGED <<token, future, entries, woken, timed, descriptor, owner,
                   canceller, requests>>

\* Await returns true: the handler says Continue or Terminate.
Handle(e) ==
    /\ entryPc[e] = "await" /\ woken[e] = "expired"
    /\ handled' = TRUE
    /\ \/ Goto(e, "loop")
       \/ Goto(e, "leaveSelf")
    /\ UNCHANGED <<token, future, entries, woken, timed, descriptor, owner,
                   canceller, wanted>>

\* Mutant: no entry clears the token.
LeaveKeepsToken(e) ==
    /\ entryPc[e] \in {"leave", "leaveSelf"}
    /\ Goto(e, "done")
    /\ future' = "completed"
    /\ UNCHANGED <<token, entries, woken, timed, descriptor, owner, canceller,
                   requests>>

\* future_.Complete(), after the loop or for a handler that terminates.
Leave(e) ==
    /\ \/ entryPc[e] = "leave" /\ Goto(e, "done")
       \/ entryPc[e] = "leaveSelf" /\ Goto(e, "clear")
    /\ future' = "completed"
    /\ UNCHANGED <<token, entries, woken, timed, descriptor, owner, canceller,
                   requests>>

\* token_ = false, after the future was completed.
ClearToken(e) ==
    /\ entryPc[e] = "clear"
    /\ token' = FALSE
    /\ Goto(e, "done")
    /\ UNCHANGED <<future, entries, woken, timed, descriptor, owner, canceller,
                   requests>>

-----------------------------------------------------------------------------
(* The owner.                                                              *)

\* Terminate: token_.exchange(false).
TerminateExchange ==
    /\ owner = "free"
    /\ OwnerRuns
    /\ token' = FALSE
    /\ IF token THEN owner' = "terminate" /\ UNCHANGED wanted
                ELSE wanted' = FALSE /\ UNCHANGED owner
    /\ UNCHANGED <<future, entries, entryPc, woken, timed, descriptor, canceller,
                   handled>>

\* Mutant: Terminate does not wait for the entry.
TerminateAtOnce ==
    /\ owner = "terminate"
    /\ OwnerRuns
    /\ owner' = "free" /\ wanted' = FALSE
    /\ UNCHANGED <<token, future, entries, entryPc, woken, timed, descriptor,
                   canceller, handled>>

\* A pending future is waited for; the timer is not cancelled.
TerminateLook ==
    /\ owner = "terminate"
    /\ OwnerRuns
    /\ IF future = "pending"
       THEN owner' = "waiting" /\ UNCHANGED wanted
       ELSE owner' = "free" /\ wanted' = FALSE
    /\ UNCHANGED <<token, future, entries, entryPc, woken, timed, descriptor,
                   canceller, handled>>

\* The entry has left: Reset and return.
TerminateReturn ==
    /\ owner = "waiting" /\ future = "completed"
    /\ OwnerRuns
    /\ future' = "pending"
    /\ owner' = "free" /\ wanted' = FALSE
    /\ UNCHANGED <<token, entries, entryPc, woken, timed, descriptor, canceller,
                   handled>>

\* Start: token_.exchange(true); a loop that runs is left alone.
StartExchange ==
    /\ owner = "free"
    /\ OwnerRuns
    /\ entries < MaxStarts
    /\ token' = TRUE
    /\ handled' = FALSE
    /\ IF token THEN wanted' = TRUE /\ UNCHANGED owner
                ELSE owner' = "start" /\ UNCHANGED wanted
    /\ UNCHANGED <<future, entries, entryPc, woken, timed, descriptor, canceller>>

\* Reset and Launch.
StartLaunch ==
    /\ owner = "start"
    /\ OwnerRuns
    /\ future' = "pending"
    /\ entries' = entries + 1
    /\ Goto(entries + 1, "loop")
    /\ owner' = "free" /\ wanted' = TRUE
    /\ UNCHANGED <<token, woken, timed, descriptor, canceller, handled>>

-----------------------------------------------------------------------------
(* The canceller: TimerLoop::Cancel and LinuxTimer::Cancel.                *)

\* if(token_), if(!future_) return.
CancelLook ==
    /\ \/ canceller = "free" /\ token /\ canceller' = "look"
       \/ /\ canceller = "look"
          /\ canceller' = IF timed = NoEntry THEN "free" ELSE "disarm"
    /\ UNCHANGED <<token, future, entries, entryPc, woken, timed, descriptor, owner,
                   requests>>

Disarm == /\ canceller = "disarm"
          /\ armed' = FALSE
          /\ canceller' = "take"
          /\ UNCHANGED <<token, future, entries, entryPc, woken, timed, reported,
                         owner, requests>>

\* Mutant: the wait is disarmed, its future forgotten.
TakeNothing == /\ canceller = "take"
               /\ canceller' = "free"
               /\ UNCHANGED <<token, future, entries, entryPc, woken, timed,
                              descriptor, owner, requests>>

\* Whatever future the timer has by now is completed with false.
CancelTake == /\ canceller = "take"
              /\ canceller' = "free"
              /\ Take("cancelled")
              /\ UNCHANGED <<token, future, entries, entryPc, descriptor, owner,
                             requests>>

-----------------------------------------------------------------------------
EntryStep(e) == TestToken(e) \/ Store(e) \/ SetTime(e) \/ Cancelled(e)
                \/ Handle(e) \/ Leave(e) \/ ClearToken(e)

\* A call the owner has begun goes on; which call it begins is its choice.
OwnerStep == TerminateLook \/ TerminateReturn \/ StartLaunch

TimerNext ==
        \/ Expire \/ OnEvent
        \/ \E e \in Entries : EntryStep(e)
        \/ TerminateExchange \/ StartExchange \/ OwnerStep
        \/ CancelLook \/ Disarm \/ CancelTake

TimerSpec == TimerInit /\ [][TimerNext]_timerVars

(* The timer expires, its event is served, and every fiber the engine has  *)
(* scheduled runs on.                                                      *)
TimerFairness ==
            /\ WF_timerVars(Expire) /\ WF_timerVars(OnEvent)
            /\ \A e \in Entries : WF_timerVars(EntryStep(e))
            /\ WF_timerVars(OwnerStep)
            /\ WF_timerVars(Disarm \/ CancelTake)
            /\ WF_timerVars(canceller = "look" /\ CancelLook)

TimerLiveSpec == TimerSpec /\ TimerFairness

-----------------------------------------------------------------------------
(* Properties.                                                             *)

Live(e) == entryPc[e] \notin {"none", "done"}

\* Two entries never share the timer, however often the owner starts and
\* terminates: Terminate outlasts the entry (TimerLoop.cpp:63-71).
OneEntry == \A d, e \in Entries : Live(d) /\ Live(e) => d = e

\* When Terminate has returned no entry touches the loop any more, so that
\* the destructor, which calls Terminate, leaves nobody behind.
StoppedIsQuiet == owner = "free" /\ ~wanted => \A e \in Entries : ~Live(e)

\* After Start a handler call is on its way, unless one was made since: the
\* test restarts loops that stop themselves (TimerTest.cpp:62-70).
StartIsHeard ==
    owner = "free" /\ wanted /\ ~handled =>
        token /\ \E e \in Entries : entryPc[e] \in {"loop", "arm", "settime", "await"}

\* A waiting entry is woken by the descriptor, or by a canceller about to
\* take its future, even one that disarmed a wait begun after it looked.
WaitIsTimed ==
    \A e \in Entries : entryPc[e] = "await" /\ woken[e] = "pending" =>
        timed = e /\ (armed \/ reported \/ canceller = "take")

\* What keeps the loop together as long as nobody overtakes an entry that
\* stops itself: the entry launched last is the only one alive, and the token,
\* the future and the place of the owner tell its life.
OnlyLastLives == \A e \in Entries : /\ (entryPc[e] = "none") <=> (e > entries)
                                    /\ Live(e) => e = entries

LifeMatchesOwner ==
    LET alive == \E e \in Entries : Live(e)
    IN  /\ alive => ((future = "completed") <=> \E e \in Entries : entryPc[e] = "clear")
        /\ token <=> (owner = "start") \/ (owner = "free" /\ wanted /\ alive)
        /\ owner = "free" => /\ alive => wanted
                             /\ wanted => alive \/ handled
        /\ owner = "start" => ~alive /\ entries < MaxStarts
        /\ owner \in {"terminate", "waiting"} => alive \/ future = "completed"
        /\ \A e \in Entries : /\ entryPc[e] = "leave" => ~token
                              /\ StopsItself(e) => handled

StoredUntilTaken == \A e \in Entries :
    entryPc[e] = "settime" /\ woken[e] = "pending" => timed = e

TimerIInv ==
        /\ TimerTypeOK /\ OnlyLastLives /\ LifeMatchesOwner
        /\ StoredUntilTaken /\ WaitIsTimed

\* Terminate returns, though it waits for the timer to expire first.
TerminateReturns == owner = "waiting" ~> owner = "free"
=============================================================================
