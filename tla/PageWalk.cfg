CONSTANTS
    Walk = {w1}
    Month = {may, june}
    MaxDoc = 3
    MaxLimit = 2
SYMMETRY Symmetry
SPECIFICATION Spec
INVARIANTS
    IndInv
    MissedNeedsDeparture
    RepeatedNeedsMove
