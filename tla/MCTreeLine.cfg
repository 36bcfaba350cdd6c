\* Three prompts in one tree: what waits, in which order, and that it ends.
SPECIFICATION FairSpec
CONSTANTS
    Nodes = {n1, n2, n3}
    Claims = {c1}
    TreeIds = {t1}
    NoNode = NoNode
    NoClaim = NoClaim
    NoRef = NoRef
    NoTree = NoTree
INVARIANTS
    NobodyStranded
    Restorable
PROPERTIES
    SerialExecution
    WorkEnds
