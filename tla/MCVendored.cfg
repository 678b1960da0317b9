SPECIFICATION Spec
CONSTANTS
    Fetchers = {f1, f2}
    Generators <- MCGenerators
    Trees <- MCTrees
    Releases = {1, 2}
    Rows <- MCRows
    MaxFetches = 2
    MaxEdits = 1
    None = None
INVARIANTS GreenMeansPinned FetchRepairs
CHECK_DEADLOCK FALSE
SYMMETRY MCSymmetry
