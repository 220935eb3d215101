\* Up to four entries and three edits, anywhere and at any time.
SPECIFICATION Spec
CONSTANTS
    Tenant = "demo"
    Bodies <- SomeBodies
    Lines <- SomeLines
    MaxLen = 4
    MaxEdits = 3
INVARIANTS TypeOK VerifiedIsAppended BlameIsFair VerifiersAgree
CHECK_DEADLOCK FALSE
