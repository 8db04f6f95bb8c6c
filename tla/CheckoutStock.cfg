SPECIFICATION StockSpec
CONSTANTS
    Shoppers = {s1, s2}
    Variants = {v1}
    Tracked = {v1}
    Quotes = {q1, q2}
    Keys = {k1, k2}
    Workers = {w1}
    Offers = {o1}
    NoOffer = NoOffer
    NoCart = NoCart
    NoQuote = NoQuote
    NoWorker = NoWorker
    ProviderMaxAttempts = 1
    MaxQty = 2
    MaxStock = 2
    MaxCartVersion = 2
    MaxMishaps = 0
SYMMETRY ShopSymmetry
INVARIANTS ReservedMatchesClaims NothingOversold CartFrozenWhileActive OneAttemptPerCartRevision
