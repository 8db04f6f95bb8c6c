SPECIFICATION OrdersSpec
CONSTANTS
    Orders = {o1}
    Variants = {v1}
    Lines <- FirstAndBoth
    Methods = {"online"}
    Callers = {c1}
    Keys = {k1}
    Operations = {"shopper-cancel", "prepare", "ship", "deliver", "staff-cancel", "return-to-store", "refund-retry"}
    Workers = {w1}
    NoCall = NoCall
    NoWorker = NoWorker
    MaxStock = 1
    MaxOnHand = 1
    MaxLag = 0
    MaxGenerations = 1
INVARIANTS StockFollowsGoods
