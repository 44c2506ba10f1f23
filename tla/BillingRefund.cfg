\* Refunding an order whose bucket was removed takes another order's bucket.
SPECIFICATION Spec

CONSTANTS
    Users <- MCUsers
    Packages <- MCPackages
    Catalog <- MCCatalog
    MayBuy <- MCMayBuy
    InitPoints <- MCInitPoints
    InitPackage <- MCInitPackage
    PeriodDays = 2
    RefundMode = "prorated"
    RefundBasis = "min"
    FeePercent = 0
    Keys = {}
    NoKey = NoKey
    MayFail = {}
    Exercised = {"assign", "refund", "delete"}
    PointAmounts = {}
    TrafficDeltas = {}
    UsageDeltas = {1}
    NewPrices = {}
    NewLines = {}
    NewQuotas = {}
    StartTime = 10
    MaxTime = 12
    MaxOrders = 3
    MaxLedger = 0
    MaxOverrun = 1
    MaxFreeUse = 1
    MaxLate = 2
    MaxSweepLag = 2
    MaxInFlight = 0

PROPERTIES
    RefundTouchesOnlyItsOrder
