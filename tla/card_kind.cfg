SPECIFICATION Spec
CONSTANTS
    Account <- MCAccount
    Name <- MCName
    NameOf <- MCNameOf
    KindOf <- MCKindOf
    Unseen <- MCUnseen
    Closing <- MCClosing
    Renames <- MCRenames
    Used <- MCUsed
    Typed <- MCTyped
    Lookups <- MCLookups
    History <- MCHistory
    Answers <- MCAnswers
    FoldName <- MCFoldName
    Shops <- MCShops
INVARIANTS StepsLead NothingHalfRight ShowsWhatIsSent ReadyIsBookable
PROPERTIES OwnIsFolds
