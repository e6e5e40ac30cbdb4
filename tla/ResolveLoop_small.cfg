SPECIFICATION Spec
CONSTANTS
    Bidders = {1, 2, 3}
    Maxima <- MCMaxima
    Increments = {1, 3}
    Times = {1, 2}
    Prices = {3, 4, 5, 6}
    MinIncrement = 2
    ResponseLimit = 10000
INVARIANTS
    StableOnReturn
    NoNeedlessRaise
    RoundsBounded
PROPERTIES
    HandoverIsFinal
CHECK_DEADLOCK FALSE
