------------------------ MODULE MCPartitionedRing ------------------------
(* Runs of the two tests: alone, twice in a row with the same and with     *)
(* different numbers of values, one after the other, and on communicators  *)
(* whose root is another process or in which every process is the root.    *)
EXTENDS PartitionedRing

One(comm, ratio, values) == [comm |-> comm, ratio |-> ratio, values |-> values]
Plan(workers, rounds) == [workers |-> workers, rounds |-> rounds]

UsualPlans ==
  {Plan(4, <<One("world", 4, 1)>>),
   Plan(1, <<One("self", 1, 1), One("oddeven", 1, 1)>>),
   Plan(2, <<One("dup", 2, 1), One("world", 2, 1)>>),
   Plan(2, <<One("self", 2, 1), One("world", 1, 2)>>),
   Plan(2, <<One("halved", 2, 1), One("reversed", 1, 1)>>)}
===========================================================================
