\* Two prompts, two aggregates, two claims: a cleared tree drains while its prompt starts another.
SPECIFICATION MCSpec
CONSTANTS
    Nodes = {n1, n2}
    Claims = {c1, c2}
    TreeIds = {t1, t2}
    NoNode = NoNode
    NoClaim = NoClaim
    NoRef = NoRef
    NoTree = NoTree
SYMMETRY Symmetry
INVARIANTS
    WellIndexed
    ClaimsAreExecuted
    StoppedIsOver
    RestartFindsTheTrees
