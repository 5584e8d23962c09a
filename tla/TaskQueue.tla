----------------------------- MODULE TaskQueue -----------------------------
(***************************************************************************)
(* What an event loop promises to whoever gives it tasks (EventLoop.hpp,   *)
(* the comments of RunInLoop and RunInLoopSoon): a task that is queued     *)
(* runs later, once, after every task queued before it; a task given by    *)
(* the thread that owns the loop may also run right now.                   *)
(***************************************************************************)
EXTENDS Sequences, FiniteSets

CONSTANT Tasks

VARIABLES
  queue,      \* the tasks accepted and not yet run, oldest first
  done        \* the tasks that were run

vars == <<queue, done>>

Queued == {queue[i] : i \in DOMAIN queue}

Init ==
  /\ queue = <<>>
  /\ done = {}

(* A task is given to the loop once. *)
Fresh(t) == t \notin Queued \cup done

Post(t) ==
  /\ Fresh(t)
  /\ queue' = Append(queue, t)
  /\ UNCHANGED done

RunNow(t) ==
  /\ Fresh(t)
  /\ done' = done \cup {t}
  /\ UNCHANGED queue

RunOldest ==
  /\ queue # <<>>
  /\ done' = done \cup {Head(queue)}
  /\ queue' = Tail(queue)

Next ==
  \/ \E t \in Tasks : Post(t) \/ RunNow(t)
  \/ RunOldest

Spec == Init /\ [][Next]_vars

============================================================================
