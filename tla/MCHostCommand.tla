---------------------------- MODULE MCHostCommand ----------------------------
\* Instance of HostCommand for TLC, with the calls of the threads in one order.
EXTENDS HostCommand

\* A local command does least, then a remote one by the data it is given.
Work(t) == IF call[t].kind = "ssh" THEN 1 + call[t].data ELSE 0

Busiest == CHOOSE t \in Threads : TRUE

\* Threads differ by their calls alone: with two of them, either may have the larger one.
OrderedInit == Init /\ \A t \in Threads : Work(t) <= Work(Busiest)

OrderedFairSpec == OrderedInit /\ [][Next]_vars /\ Fairness
=============================================================================
