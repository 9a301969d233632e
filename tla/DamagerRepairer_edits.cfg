SPECIFICATION Spec
CONSTANTS
    Chars <- AllChars
    MaxLength = 4
    MaxInsert = 2
INVARIANTS TypeOK Repaired EndOfLineAsDocumented
