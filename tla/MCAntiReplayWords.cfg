CONSTANTS
    WindowSizeBits = 9
    WordBits = 3
    MaxCounter = 14
SPECIFICATION WordsSpec
INVARIANTS
    WordsImplementWindow
    VerdictIsExact
PROPERTY
    ImplementsFilter
