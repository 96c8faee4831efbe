SPECIFICATION Spec
CONSTANTS
    Records <- ShortRows
    LeafCap = 2
    HeaderUnits = 0
    InteriorCap = 2
    MaxLocal = 1
    MinLocal = 1
    OverflowCap = 2
INVARIANTS
    LastKeyIsLargest
