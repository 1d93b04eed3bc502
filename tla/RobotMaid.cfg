CONSTANTS
    Clients = {c1, c2, c3}
    MaxBatch = 2
    Typed = {0, 2, 9}
    Wrap = 8
SPECIFICATION Spec
INVARIANTS IndInv AddsAreKept ResponseIsBounded ClientSeesItsChange
PROPERTIES ServiceIsChoreList
SYMMETRY Symmetry
CHECK_DEADLOCK FALSE
