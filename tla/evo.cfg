SPECIFICATION Spec
CONSTANTS
    v1 = v1
    v2 = v2
    NoValue = NoValue
    Keys = {1, 2, 3}
    Values <- TwoValues
INVARIANT TypeOK
INVARIANT CleanWhenClosed
INVARIANT IteratorExact
PROPERTY ImplementsNestedStore
