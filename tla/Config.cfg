\* Every command line of up to four arguments.
CONSTANTS
    MaxLength = 4
    CommandLines <- MCCommandLines
    Numeral <- MCNumeral
    LevelOf <- MCLevelOf
    SizeMax = 2000000
SPECIFICATION Spec
INVARIANTS
    ConfigUsable
    ParsedAsMeant
