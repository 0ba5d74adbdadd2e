---------------------------- MODULE MCScheduler ----------------------------
EXTENDS Scheduler, TLC
CONSTANT e1

EveryTwo == [e \in Entries |-> 2]
OneLate == [e \in Entries |-> 1]
CatchUpOne == [e \in Entries |-> 1]
GraceTwo == [e \in Entries |-> 2]
=============================================================================
