------------------------------- MODULE MCFtl -------------------------------
EXTENDS Ftl

\* Two parameters of two values; a first write starts from all-zero contents.
MCDefault == [p \in Params |-> CHOOSE v \in Vals : TRUE]
=============================================================================
