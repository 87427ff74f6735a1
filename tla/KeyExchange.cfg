SPECIFICATION Spec
CONSTANTS
    a = a
    b = b
    Users <- MCUsers
    Clock <- MCClock
    Expiry = 1
    NeverStamp = 9
    MaxSeq = 2
CONSTRAINT SeqBound
INVARIANTS KeyAgreement NeverThrows
PROPERTY SeqMonotone
CHECK_DEADLOCK FALSE
