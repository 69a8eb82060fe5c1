SPECIFICATION Spec
CONSTANTS
    carol = carol
    emma = emma
    t1 = t1
    t2 = t2
    NoOne = NoOne
    User <- MCPair
    Employees <- MCEmma
    Clients <- MCCarol
    Task <- MCTwoTasks
    StarChoices <- MCStars
    MaxPending = 1
INVARIANTS
    EveryRatingCounts
SYMMETRY
    MCErrands
