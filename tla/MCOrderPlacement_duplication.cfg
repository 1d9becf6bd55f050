SPECIFICATION OpSpec
CONSTANTS
    NumExchanges = 1
    Attempts = 3
    Quantity = 2
    NumChunks = 2
    AnswersLost = TRUE
INVARIANTS
    NoDuplication
