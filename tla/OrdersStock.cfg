SPECIFICATION PlaysSpec
CONSTANTS
    Orders = {o1, o2}
    Variants = {v1, v2}
    Lines <- FirstAndBoth
    Methods = {"cod", "online"}
    Callers = {c1, c2}
    Keys = {k1, k2}
    Operations = {"shopper-cancel", "prepare", "ship", "deliver", "staff-cancel", "return-to-store", "refund-retry"}
    Workers = {w1}
    NoCall = NoCall
    NoWorker = NoWorker
    MaxStock = 2
    MaxOnHand = 2
    MaxLag = 2
    MaxGenerations = 1
INVARIANTS CashStockFollowsGoods OrdersCanMove OrdersTypeOK OneCommandPerVersion
PROPERTIES RepeatIsAnswered
