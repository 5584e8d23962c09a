------------------------------ MODULE MCLevelTable ------------------------------
(* Tables with few limits, so that a few writes reach the third level.         *)
EXTENDS LevelTable, TLC

Symmetry == Permutations(Fiber)

\* Two views on a level; or three tables; or two immutable tables before a dump.
SmallOptions ==
    {[mem |-> 0, imms |-> 1, views |-> 2, tables |-> 0],
     [mem |-> 0, imms |-> 1, views |-> 0, tables |-> 1],
     [mem |-> 0, imms |-> 1, views |-> 1, tables |-> 3],
     [mem |-> 1, imms |-> 2, views |-> 1, tables |-> 0]}
================================================================================
