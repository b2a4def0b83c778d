----------------------------- MODULE MCTestStep -----------------------------
\* Instance of TestStep for TLC: test steps without measurement series.
EXTENDS TestStep, TLC

NoSeries == <<>>

Symmetry == Permutations(Threads)
=============================================================================
