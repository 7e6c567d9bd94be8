SPECIFICATION Spec
CONSTANTS
    Top = 4
    First = 0
    MaxServe = 3
    SoftLimit = 2
    NonCanonical = 3
    Amounts = {1, 2, 3, 4}
    Skips = {0, 1, 2}
    MaxHashes = 3
    MaxMisses = 1
 
INVARIANT AnswerComplete
PROPERTY RequestsAnswered
