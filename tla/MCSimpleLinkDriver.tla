-------------------------- MODULE MCSimpleLinkDriver --------------------------
EXTENDS SimpleLinkDriver, TLC

\* The callers are alike.
Symmetric == Permutations(Tasks)
===============================================================================
