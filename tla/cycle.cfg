CONSTANTS
    Second = 12
    Rates = {2, 3, 4, 5, 7, 12}
    IntMax = 4
SPECIFICATION Safety
INVARIANTS
    TypeOK
PROPERTIES
    CallbackSpacing
