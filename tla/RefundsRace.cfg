SPECIFICATION RaceSpec
CONSTANTS
    Orders = {o1}
    Variants = {}
    Lines <- Uncounted
    Methods = {"online"}
    Callers = {c1}
    Keys = {k1}
    Operations = {"staff-cancel", "refund-retry", "prepare", "ship", "deliver", "return-to-store"}
    Workers = {w1, w2}
    NoCall = NoCall
    NoWorker = NoWorker
    MaxStock = 0
    MaxOnHand = 0
    MaxLag = 0
    MaxGenerations = 2
    RefundMaxAttempts = 2
    MaxVersion = 3
    MaxMishaps = 1
SYMMETRY WorkerSymmetry
INVARIANTS OneRefundAtATime PaymentTellsTheTruth MoneyBackStopsTheOrder
