SPECIFICATION Spec
CONSTANTS
    Version = {0, 1, 2, 3}
    Capacity = 3
    MaxAdds = 5
    Garbage <- AnyGarbage
INVARIANTS TreeTypeOK FindsCovered FindIsLookup FindsBetween MinIsOldest StaleIsFirstMerged TreeInv
