\* Purchases with retries and stale reads, refunds, credits: points and stock.
SPECIFICATION Spec

CONSTANTS
    Users <- MCUsers
    Packages <- MCPackages
    Catalog <- MCCatalog
    MayBuy <- MCMayBuy
    InitPoints <- MCInitPoints
    InitPackage <- MCInitPackage
    PeriodDays = 2
    RefundMode = "prorated"
    RefundBasis = "min"
    FeePercent = 0
    Keys = {key}
    NoKey = NoKey
    MayFail = {}
    Exercised = {"refund"}
    PointAmounts = {2}
    TrafficDeltas = {1}
    UsageDeltas = {}
    NewPrices = {}
    NewLines = {}
    NewQuotas = {}
    StartTime = 10
    MaxTime = 10
    MaxOrders = 3
    MaxLedger = 2
    MaxOverrun = 1
    MaxFreeUse = 1
    MaxLate = 2
    MaxSweepLag = 2
    MaxInFlight = 2

CONSTRAINT
    Focus

INVARIANTS
    TypeOK
    LedgerExplainsBalance
    RefundsReconcile
    OneOrderPerKey
    StockConserved

PROPERTIES
    PointsAreKept
