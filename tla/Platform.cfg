SPECIFICATION FairSpec
CONSTANTS
    Options = {"A", "B", "C"}
    Values = {"a1", "a2", "b1"}
    OptionOf <- TwoOptions
    Names = {1, 2}
    Variants = {"x", "y"}
    Prices = {1, 2}
    Editors = {"e"}
    MaxProductOptions = 3
    MaxOptionValues = 2
    MaxActiveVariants = 2
    Files = {"f1", "f2", "f3"}
    Uploaders = {"u1", "u2"}
    Removers = {"r"}
    MaxProductImages = 2
    CleanupAttempts = 2
    MaxGalleryFaults = 2
    CategoryIds = {"c1", "c2", "c3"}
    Texts = {"s"}
    CategoryEditors = {"e", "f"}
    CategoryLimit = 2
    MaxCategoriesPerProduct = 1
    Readers = {r1, r2}
    Processes = {"api"}
    ProcessOf <- OneProcess
    Loads = {l1, l2}
    Writers = {w1}
    MaxConcurrentLoads = 1
    MaxTrackedLoads = 2
    MaxWrites = 1
    MaxCacheFaults = 2
    CallIds = {q1, q2, q3}
    BreakerThreshold = 2
    MaxOpenings = 3
    Foundings = {"r1", "r2", "r3"}
    Owners = {"o1", "o2"}
    Slugs = {"s1", "s2"}
    CleanupTries = 2
    MaxFoundingFaults = 2
    People = {p1, p2}
    StoreNames = {n1, n2}
    LogoFiles = {"l1", "l2", "l3"}
    Fees = {1, 2}
    SyncTries = 2
    MaxTransitions = 3
    MaxVersions = 3
    MaxRenames = 3
    MaxStoreFaults = 2
    Users = {"u1", "u2"}
    FirstAdmins = {"u1", "u2"}
    Devices = {"d1", "d2"}
    Callers = {c1, c2}
    MaxSwitches = 2
    MaxAccountFaults = 1
    AddressCallers = {"c1", "c2"}
    AddressKeys = {k1, k2, k3}
    Prints = {1}
    MAX_USER_ADDRESSES = 2
    MaxMade = 4
    Products = {p1}
    CommentTexts = {"a", "b"}
    SafeTexts = {"a", "b"}
    CommentKeys = {k1, k2}
    Posters = {r1, r2}
    MaxComments = 2
    RowIds = {1, 2, 3}
    SortKeys = {2, 3}
    Limits = {1, 2}
CHECK_DEADLOCK FALSE
INVARIANTS CatalogueIsSound FilesInUseAreKept NoReadIsOlderThanItsInvalidation
    StoreRecordsAgree SessionsEndWithTheAccount BookIsSound KeysAnswerOnce ListsAreFaithful
PROPERTIES NobodyOverwritesUnseen LoadIsBounded LastAdminGoesOnlyInARace LeftoversPass
