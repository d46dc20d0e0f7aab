------------------------------- MODULE MCTurn -------------------------------
(* Instances of Turn for TLC. *)
EXTENDS Turn, TLC

CONSTANTS book, cancel

Symmetry == Permutations(Requests) \union Permutations(Proposals)

\* A conversation of two messages may use both actions, two calls a turn and two
\* crashes; one of three messages uses one action, one call and one crash.
Short == \E r \in Requests : pc[r] = "idle"

Narrow ==
    /\ \A p \in Proposals : prop[p].act # cancel
    /\ \A r \in Requests : turn[r].calls <= 1 /\ turn[r].act # cancel
    /\ Cardinality({r \in Requests : pc[r] = "failed"}) <= 1

ShortOrNarrow == Short \/ Narrow
=============================================================================
