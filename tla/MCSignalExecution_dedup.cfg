SPECIFICATION Spec
CONSTANTS
    Requests = {r1, r2}
    s1 = s1
    s2 = s2
    btc = btc
    eth = eth
    Signals = {s1}
    NoSignal = NoSignal
    Trades = {t1, t2}
    None = None
    Symbols <- DistinctSet
    SymbolOf <- DistinctSymbols
    MaxActive = 2
    MaxPolls = 1
    MaxWindow = 1
    StoreOn = TRUE
    StoreMayFail = TRUE
    AnswerMayBreak = TRUE
    CrashOn = TRUE
INVARIANTS
    TypeOK
    RepliesNameOwnTrade
PROPERTIES
    NoReexecutionOnRecord
    ImplementsOnce
SYMMETRY RequestTradeSymmetry
