CONSTANTS
    Symbols <- MCSymbols
    Texts <- MCTexts
    Keys <- MCKeys
    Values <- MCValues
    LengthValues = 14
    MaxEdits = 2
    Redirects <- MCRedirects
SPECIFICATION Spec
INVARIANT ReceivedAsEdited
INVARIANT OthersKept
INVARIANT KindIsAction
INVARIANT RedirectKept
