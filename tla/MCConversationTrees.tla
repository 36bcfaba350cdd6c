--------------------------- MODULE MCConversationTrees ---------------------------
(* Small instances of ConversationTrees for TLC. *)
EXTENDS ConversationTrees

Symmetry == Permutations(Nodes) \cup Permutations(Claims) \cup Permutations(TreeIds)
=============================================================================
