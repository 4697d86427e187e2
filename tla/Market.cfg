CONSTANTS
    a = a  b = b
    Chars = {a, b}
    Ids = {1, 2}
    Start <- StartOf
    Price = 1
    Fee = 1
    Lots = {1, 2}
SPECIFICATION FairSpec
INVARIANTS TypeOK MoneyKept GoodsKept
PROPERTIES ExpiredIsReturned
CHECK_DEADLOCK FALSE
