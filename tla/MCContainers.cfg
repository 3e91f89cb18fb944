SPECIFICATION ContainersSpec
CONSTANTS
    Pointers = {0, 1, 2, 3}
    Sizes = {3, 4, 5, 6}
    Counts = {1, 2}
    Containers = {"btreepmacc5", "btreepmacc7", "pma8", "drui", "btreepma_v4", "abtree", "dynamic_index", "predictor"}
    V4Elements <- MCDistinct
    V4Distinct = TRUE
INVARIANTS SearchesAgree BTreePMACC5WellFormed
PROPERTIES
    BTreePMACC5ImplementsMap BTreePMACC7ImplementsMap PMA8ImplementsMap DruiImplementsMap
    V4ImplementsMap ABTreeImplementsMap DynamicIndexImplementsMap ImplementsQueue
