SPECIFICATION FairSpec
CONSTANTS
    Orders = {o1}
    Variants = {}
    Lines <- Uncounted
    Methods = {"online"}
    Callers = {c1}
    Keys = {k1}
    Operations = {"shopper-cancel"}
    Workers = {w1, w2}
    NoCall = NoCall
    NoWorker = NoWorker
    MaxStock = 0
    MaxOnHand = 0
    MaxLag = 0
    MaxGenerations = 1
    RefundMaxAttempts = 2
    MaxVersion = 2
    MaxMishaps = 1
PROPERTIES EveryRefundEnds
