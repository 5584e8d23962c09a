--------------------------- MODULE ReadWriteLock ---------------------------
(***************************************************************************)
(* What a read-write lock promises: writers alone, readers together.  A    *)
(* reader that is alone may become the writer, and the writer a reader.    *)
(***************************************************************************)
CONSTANT Fibers

VARIABLES
  readers,    \* the fibers that hold the lock to read
  writers     \* the fibers that hold the lock to write

vars == <<readers, writers>>

Init == readers = {} /\ writers = {}

Read(f) ==
  /\ writers = {}
  /\ readers' = readers \cup {f}
  /\ UNCHANGED writers

Write(f) ==
  /\ readers = {} /\ writers = {}
  /\ writers' = {f}
  /\ UNCHANGED readers

Release(f) ==
  /\ f \in readers \cup writers
  /\ readers' = readers \ {f}
  /\ writers' = writers \ {f}

Upgrade(f) ==
  /\ readers = {f}
  /\ readers' = {}
  /\ writers' = {f}

Downgrade(f) ==
  /\ writers = {f}
  /\ readers' = {f}
  /\ writers' = {}

Next ==
  \E f \in Fibers :
    Read(f) \/ Write(f) \/ Release(f) \/ Upgrade(f) \/ Downgrade(f)

Spec == Init /\ [][Next]_vars

============================================================================
