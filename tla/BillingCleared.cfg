\* A plan bought while its package is being retired is cleared without a refund.
SPECIFICATION Spec

CONSTANTS
    Users <- MCUsers
    Packages <- MCPackages
    Catalog <- MCCatalog
    MayBuy <- MCMayBuy
    InitPoints <- MCInitPoints
    InitPackage <- MCInitPackage
    PeriodDays = 2
    RefundMode = "prorated"
    RefundBasis = "min"
    FeePercent = 0
    Keys = {key}
    NoKey = NoKey
    MayFail = {}
    Exercised = {"assign", "retire"}
    PointAmounts = {}
    TrafficDeltas = {}
    UsageDeltas = {}
    NewPrices = {}
    NewLines = {}
    NewQuotas = {}
    StartTime = 10
    MaxTime = 10
    MaxOrders = 2
    MaxLedger = 0
    MaxOverrun = 1
    MaxFreeUse = 1
    MaxLate = 2
    MaxSweepLag = 2
    MaxInFlight = 1

PROPERTIES
    ClearedPlansAreRefunded
