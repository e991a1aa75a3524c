CONSTANTS
    Texts <- MCTexts
    Languages = {"FR", "OTHER"}
    Stem <- MCStem
    Stopwords <- MCStopwords
    Capacity = 6
SPECIFICATION Spec
INVARIANTS WrittenInPlace TokensAreWords EveryTokenCounted SavedDocumentReloads
CHECK_DEADLOCK FALSE
