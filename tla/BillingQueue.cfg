\* Every promotion, retirement and refund path of one renewal line.
SPECIFICATION Spec

CONSTANTS
    Users <- MCUsers
    Packages <- MCPackages
    Catalog <- MCCatalog
    MayBuy <- MCMayBuy
    InitPoints <- MCInitPoints
    InitPackage <- MCInitPackage
    PeriodDays = 2
    RefundMode = "prorated"
    RefundBasis = "min"
    FeePercent = 0
    Keys = {}
    NoKey = NoKey
    MayFail = {}
    Exercised = {"assign", "refund", "delete", "sweep", "read",
                 "edit", "enable", "retire", "renewal", "convert"}
    PointAmounts = {}
    TrafficDeltas = {}
    UsageDeltas = {1}
    NewPrices = {3}
    NewLines = {"basic"}
    NewQuotas = {}
    StartTime = 10
    MaxTime = 12
    MaxOrders = 3
    MaxLedger = 0
    MaxOverrun = 0
    MaxFreeUse = 1
    MaxLate = 1
    MaxSweepLag = 2
    MaxInFlight = 0

CONSTRAINT
    Focus

INVARIANTS
    ServedInOrder
    PaidTimeIsServed
    RefundRevokes
    RenewalChoiceIsUniform
