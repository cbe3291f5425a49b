\* Every search, every price and every mixture of three uses of a code.
SPECIFICATION JourneySpec
CONSTANTS
    s1 = s1  s2 = s2  s3 = s3  s4 = s4
    red = red  blue = blue  shuttle = shuttle
    Stations <- FourStations
    Routes <- ThreeRoutes
    NoRoute = NoRoute
    Tables <- SomeTables
    Penalties <- SomePenalties
    Networks <- MCNetworks
    FareTables <- MCFareTables
    DiscountTables <- MCDiscountTables
    Groups <- MCGroups
    u1 = u1  u2 = u2  u3 = u3
    Uses <- ThreeUses
    Limit = 2
INVARIANTS
    FoundIsCheapest PathIsARide
    FareTypeOK NoNeedlessTransfer LegsAreARide FailureFavoursPassenger
    NeverOvercounted LimitKeptAlone
PROPERTY SearchEnds
CHECK_DEADLOCK FALSE
