SPECIFICATION ContainersSpec
CONSTANTS
    Pointers = {0, 1, 2, 3}
    Sizes = {3, 4, 5, 6}
    Counts = {1, 2}
    Containers = {"abtree"}
    V4Elements <- MCDistinct
    V4Distinct = TRUE
INVARIANT NextLeafNotEmpty
