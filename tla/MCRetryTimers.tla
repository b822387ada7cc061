----------------------------- MODULE MCRetryTimers -----------------------------
EXTENDS RetryTimers, TLC

CallSymmetry == Permutations(Calls)
=============================================================================
