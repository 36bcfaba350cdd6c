\* A stop after the status of the running prompt has been removed.
SPECIFICATION Spec
CONSTANTS
    Nodes = {n1, n2}
    Claims = {c1}
    TreeIds = {t1}
    NoNode = NoNode
    NoClaim = NoClaim
    NoRef = NoRef
    NoTree = NoTree
INVARIANTS
    StopReachesAll
