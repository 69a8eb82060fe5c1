SPECIFICATION FairSpec
CONSTANTS
    carol = carol
    emma = emma
    t1 = t1
    t2 = t2
    NoOne = NoOne
    User <- MCPair
    Employees <- MCPair
    Clients <- MCPair
    Task <- MCOneTask
    StarChoices <- MCOneStar
    MaxPending = 1
INVARIANTS
    TypeOK
    
    OnlyTheClientSettles
    WritesFindTheirErrand
    SettledErrandIsAssigned
    RatingInRange

    
    
