SPECIFICATION RuleSpec
CONSTANTS
    Chars = {"a", "b"}
    MaxWords = 3
    MaxBytes = 5
    MaxText = 4
    Patterns <- ShortPatterns
    Texts <- ShortTexts
    Cases <- AllCases
    Tilde = 126
INVARIANTS TypeOK GreedyIsExact RulesMean
