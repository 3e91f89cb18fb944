SPECIFICATION ContainersSpec
CONSTANTS
    Pointers = {0, 1, 2, 3}
    Sizes = {3, 4, 5, 6}
    Counts = {1, 2}
    Containers = {"btreepma_v4"}
    V4Elements <- MCDuplicates
    V4Distinct = FALSE
INVARIANT DuplicatesAreFound
