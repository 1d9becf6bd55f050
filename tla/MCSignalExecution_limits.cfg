SPECIFICATION Spec
CONSTANTS
    Requests = {r1, r2}
    s1 = s1
    s2 = s2
    btc = btc
    eth = eth
    Signals = {s1, s2}
    NoSignal = NoSignal
    Trades = {t1, t2, t3}
    None = None
    Symbols <- DistinctSet
    SymbolOf <- DistinctSymbols
    MaxActive = 1
    MaxPolls = 1
    MaxWindow = 0
    StoreOn = TRUE
    StoreMayFail = FALSE
    AnswerMayBreak = FALSE
    CrashOn = FALSE
INVARIANTS
    LimitsHold
    LockAccountedFor
PROPERTIES
    EveryRequestAnswered
