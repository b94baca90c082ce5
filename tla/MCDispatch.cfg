SPECIFICATION DispatchSpec
CONSTANTS
    Chats = {c1}
    Proxies = {x1}
    N = 2
    Cooldown = 1
    MaxRounds = 2
    ResponseCapture = TRUE
    Inbound = {r1, r2}
    Names <- MCNames
    Asked = {"", "kimi", "KIMI", "side"}
    Blank = ""
    NoModel = "none"
    Key <- MCKey
    Remap <- MCRemap
    Profile <- MCProfile
    SeemsNative <- MCSeemsNative
    Chains <- MCChains
    Routes <- MCRoutes
    Offers <- MCOffers
    CatalogTtl = 1
    MaxTurnRounds = 2
    MaxChanges = 1
    Surfaces = {"chat", "anthropic", "responses"}
    RolePolicies <- MCRolePolicies
    NoPolicy = NoPolicy
    Shapes <- MCShapes
    OtherShapes <- MCOtherShapes
    MaxSaid = 5
    MaxAdded = 1
SYMMETRY Interchangeable
CHECK_DEADLOCK FALSE
INVARIANTS
    CoolingHasCause
    CommittedBodyIsFinal
    TraceIsOrdered
    LaddersAgree
    ServerWasJudged
    HistoryArrives
    RequestIsWellFormed
PROPERTIES
    ImplementsService
