SPECIFICATION Spec
CONSTANTS
    amir = amir
    gita = gita
    Emails <- MCEmails
    ThirdParties <- MCThirdParties
    Slot <- MCSlot
    MaxUid = 2
INVARIANTS
    UnfinishedAccountsAreDeleted
