SPECIFICATION FairSpec
CONSTANTS
    OutboxMaxAttempts = 2
    Transitions = {m1}
    Dispatchers = {d1}
    Senders = {"w1", "w2"}
    NoSender = NoSender
    MailMaxAttempts = 2
    MaxMailFaults = 2
    Letters = {l1}
    Recoverers = {d1}
    Posters = {"w1", "w2"}
    Nobody = Nobody
    PostMaxAttempts = 2
    MaxPostFaults = 2
    Sources = {s1}
    Invites = {s1}
    Users = {user}
    user = user
    guest = guest
    Invitee = guest
    Recipients <- UserThenGuest
    BatchSize = 1
    Fanners = {"w1", "w2"}
    FanDispatchers = {d1}
    NoFanner = NoFanner
    EventMaxAttempts = 2
    MaxFanFaults = 2
    Events = {"updated", "deauthorized", "other"}
    TypeOf <- OwnTypes
    Handlers = {"w1", "w2"}
    NoHandler = NoHandler
    ReceiptMaxAttempts = 2
    MaxConnectFaults = 2
    Makers = {"w1", "w2"}
    NoMaker = NoMaker
    CreationMaxRetries = 2
    PlanPrices = {1, 2, 3}
    Amounts = {1, 2}
    Provisioners = {"w1", "w2"}
    NoProvisioner = NoProvisioner
    Sellers = {s1, s2}
    JobMaxAttempts = 2
    MaxPlanFaults = 2
    Attempts = {1, 2}
    Requests = {r1, r2}
    first = r1
    second = r2
    Billers = {"w1", "w2"}
    NoBiller = NoBiller
    WebhookMaxAttempts = 2
    MaxBillingFaults = 2
CHECK_DEADLOCK FALSE
INVARIANTS NobodyIsForgotten ConnectKeepsItsBooks BillingTellsTheTruth OfferIsProvisioned
PROPERTIES MailKeepsItsPromise SettledWorkStays AllWorkEnds
