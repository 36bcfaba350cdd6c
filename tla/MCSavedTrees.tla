------------------------------- MODULE MCSavedTrees -------------------------------
(* Small instances of the trees, by themselves and with the snapshots of them. One  *)
(* run has both, of which the initial state chooses the one that moves; with        *)
(* snapshots one task runs at a time. By themselves the trees move as if the state  *)
(* lock were held for good: nothing is saved, and a restart is not spoken of.       *)
EXTENDS SavedTrees

NeverSaved == [kind |-> "never saved"]

MCInit ==
  /\ Init /\ stored = [n \in Nodes |-> Blank] /\ overtaken = {} /\ wiped = {}
  /\ command \in {NoCommand, NeverSaved}

OneTask == Cardinality({c \in Claims : slot[c].phase # "none"}) =< 1

MCNext ==
  \/ command = NeverSaved /\ Next /\ UNCHANGED <<stored, command, histories>>
  \/ command # NeverSaved /\ SavedNext /\ OneTask'

MCSpec == MCInit /\ [][MCNext]_savedVars

Symmetry == Permutations(Nodes) \cup Permutations(Claims) \cup Permutations(TreeIds)
=============================================================================
