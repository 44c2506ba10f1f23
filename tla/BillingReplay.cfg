\* A retry of the purchase that took the last unit is refused, not replayed.
SPECIFICATION Spec

CONSTANTS
    Users <- MCUsers
    Packages <- MCPackages
    Catalog <- MCCatalog
    MayBuy <- MCMayBuy
    InitPoints <- MCInitPoints
    InitPackage <- MCInitPackage
    PeriodDays = 2
    RefundMode = "prorated"
    RefundBasis = "min"
    FeePercent = 0
    Keys = {key}
    NoKey = NoKey
    MayFail = {}
    Exercised = {}
    PointAmounts = {2}
    TrafficDeltas = {}
    UsageDeltas = {}
    NewPrices = {}
    NewLines = {}
    NewQuotas = {}
    StartTime = 10
    MaxTime = 10
    MaxOrders = 2
    MaxLedger = 1
    MaxOverrun = 1
    MaxFreeUse = 1
    MaxLate = 2
    MaxSweepLag = 2
    MaxInFlight = 2

PROPERTIES
    ReplayAnswered
