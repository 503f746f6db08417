SPECIFICATION WaitForSpec
CONSTANTS
    Channel = {c1, c2}
    Item = {i1, i2, i3, i4, i5, i6}
SYMMETRY Symmetry
INVARIANTS
    WaitForInv
    NobodyStranded
    MutualExclusion
PROPERTIES
    FirstComeFirstServed
    PromiseKept
