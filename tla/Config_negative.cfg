\* The range that the message for a refused cache size names.
CONSTANTS
    MaxLength = 2
    CommandLines <- MCCommandLines
    Numeral <- MCNumeral
    LevelOf <- MCLevelOf
    SizeMax = 2000000
SPECIFICATION Spec
INVARIANTS
    SizeInRange
