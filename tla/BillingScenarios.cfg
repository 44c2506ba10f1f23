\* Retirement, monthly periods, catalogue edits and account switches.
SPECIFICATION Spec

CONSTANTS
    NoKey = NoKey

INVARIANTS
    BorrowingIsRepaid
    LineFollowsPackage
    MirrorAgrees

PROPERTIES
    RetireReachesEveryHolder
    UsageIsKept
