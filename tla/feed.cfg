SPECIFICATION FairFeedSpec
CONSTANTS
    Loops = {l1, l2}
    Symbols = {eurusd, eurchf, dax}
    Instruments = {eurusd, eurchf}
    CR = CR
    LF = LF
    Nul = Nul
    MaxLines = 2
    MaxLosses = 1
INVARIANTS
    Framed
PROPERTIES
    NeverOlder
    Published
