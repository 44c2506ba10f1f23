\* The sweep serves every account although one of them keeps failing.
SPECIFICATION FairSpec

CONSTANTS
    Users <- MCUsers
    Packages <- MCPackages
    Catalog <- MCCatalog
    MayBuy <- MCMayBuy
    InitPoints <- MCInitPoints
    InitPackage <- MCInitPackage
    PeriodDays = 2
    RefundMode = "prorated"
    RefundBasis = "min"
    FeePercent = 0
    Keys = {}
    NoKey = NoKey
    MayFail = {1}
    Exercised = {"assign", "sweep"}
    PointAmounts = {}
    TrafficDeltas = {}
    UsageDeltas = {1}
    NewPrices = {}
    NewLines = {}
    NewQuotas = {}
    StartTime = 10
    MaxTime = 12
    MaxOrders = 4
    MaxLedger = 0
    MaxOverrun = 0
    MaxFreeUse = 1
    MaxLate = 0
    MaxSweepLag = 1
    MaxInFlight = 0

PROPERTIES
    PaidPlanEntersService
