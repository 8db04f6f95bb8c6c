SPECIFICATION Spec
CONSTANTS
    Shoppers = {s1}
    Variants = {v1}
    Tracked = {v1}
    Quotes = {q1}
    Keys = {k1}
    Workers = {w1, w2}
    Offers = {o1}
    NoOffer = NoOffer
    NoCart = NoCart
    NoQuote = NoQuote
    NoWorker = NoWorker
    ProviderMaxAttempts = 2
    MaxQty = 1
    MaxStock = 1
    MaxCartVersion = 2
    MaxMishaps = 2
SYMMETRY WorkerSymmetry
INVARIANTS TypeOK Consistent OneSessionPerAttempt ReleasedCannotBePaid OrdersAreBacked
PROPERTIES OutcomeIsFinal ImplementsPurchase
