\* Three tasks, two writers, pages of one: ties, updates and evictions between pages.
CONSTANTS
    Ids = {1, 2, 3}
    Writers = {w1, w2}
    PageSize = 1
    TTL = 0
    MaxClock = 1
    MaxVersion = 3
SPECIFICATION Spec
SYMMETRY Symmetry
INVARIANTS IInv NoLostUpdate PagingStable ConfigsFollowTasks
CHECK_DEADLOCK FALSE
