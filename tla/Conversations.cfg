SPECIFICATION Spec
CONSTANTS
    User <- MCUser
    Contacts <- MCOneWay
    Readers <- MCReaders
    ConvoId <- MCConvoId
    FirstBody <- MCFirstBody
    NextBody <- MCNextBody
    MaxPending <- MCTwoAndOne
    MaxAsked = 1
INVARIANTS
    TypeOK
    UpdatesFindTheirConversation
    NoMessageTwice
    ChatShowsOwnMessages
PROPERTIES
    NothingErased
