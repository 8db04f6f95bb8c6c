SPECIFICATION FairSpec
CONSTANTS
    Shoppers = {s1}
    Variants = {v1}
    Tracked = {v1}
    Quotes = {q1}
    Keys = {k1}
    Workers = {w1, w2}
    Offers = {o1}
    NoOffer = NoOffer
    NoCart = NoCart
    NoQuote = NoQuote
    NoWorker = NoWorker
    ProviderMaxAttempts = 2
    MaxQty = 1
    MaxStock = 1
    MaxCartVersion = 1
    MaxMishaps = 1

PROPERTIES AttemptsAreSettled
