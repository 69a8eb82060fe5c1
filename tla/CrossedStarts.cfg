SPECIFICATION Spec
CONSTANTS
    User <- MCUser
    Contacts <- MCMutual
    Readers <- MCNobody
    ConvoId <- MCConvoId
    FirstBody <- MCFirstBody
    NextBody <- MCNextBody
    MaxPending <- MCTwoEach
    MaxAsked = 1
INVARIANTS
    LookupFindsOwnConversation

    
