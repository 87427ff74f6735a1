SPECIFICATION Spec
CONSTANTS
    Words <- MCWords
    Lines <- MCLines
    Texts <- MCTexts
    MaxKeys = 8
    MaxTexts = 1
INVARIANTS
    OutcomeOnItsLine
    AnsweredInOrder
PROPERTIES
    GoesToPartner
CHECK_DEADLOCK FALSE
