----------------------------- MODULE MCJobQueue -----------------------------
\* Instances of JobQueue for TLC.
EXTENDS JobQueue, TLC

\* Workers are only told apart by identity.
Symmetry == Permutations(Workers)

\* Behaviours in which a job outlives its lease are explored without moves,
\* without replays and with batches of one.
StalledPlainly ==
    stalled # {} =>
        /\ \A b \in Bookings : booking[b].slot = 0
        /\ \A j \in Jobs : replays[j] = 0
        /\ \A w \in Workers : Cardinality({j \in Jobs : Holds(w, j)}) <= 1
=============================================================================
