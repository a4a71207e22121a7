SPECIFICATION Spec
CONSTANTS
    Programs <- MCPrograms
    Limits = {1, 2}
INVARIANT BuiltAsWritten
PROPERTY ConfigsStay
