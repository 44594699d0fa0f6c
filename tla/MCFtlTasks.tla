----------------------------- MODULE MCFtlTasks -----------------------------
EXTENDS FtlTasks, TLC

MCDefault == [p \in Params |-> CHOOSE v \in Vals : TRUE]

\* The tasks run the same code.
TaskSymmetry == Permutations(Tasks)
=============================================================================
