SPECIFICATION RoutingSpec
CONSTANTS
    Inbound = {r1}
    Names <- MCNames
    Asked = {"", "kimi", "KIMI", "side"}
    Blank = ""
    NoModel = "none"
    Key <- MCKey
    Remap <- MCRemap
    Profile <- MCProfile
    SeemsNative <- MCSeemsNative
    Chains <- MCChains
    Routes <- MCRoutes
    Offers <- MCOffers
    CatalogTtl = 1
    MaxTurnRounds = 2
    MaxChanges = 1
CHECK_DEADLOCK FALSE
INVARIANTS
    ImagesStayNative
