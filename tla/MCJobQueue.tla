----------------------------- MODULE MCJobQueue -----------------------------
EXTENDS JobQueue, TLC

\* One user sends every request: the case in which the requests meet in
\* ProgressMap as well as in the queue.
MCUserOf == [r \in Requests |-> CHOOSE u \in Users : TRUE]

\* The requests of one user are interchangeable, and so are the workers; used
\* by the runs that check no liveness property.
MCSymmetry == Permutations(Requests) \cup Permutations(Workers)
=============================================================================
