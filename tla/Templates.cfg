\* What a template that refers to the automatic group becomes when few nodes are left.
SPECIFICATION Spec

CONSTANTS
    None = None
    Slots = {1, 2}
    Drawings <- MCDrawings
    Templates <- MCSaved
    Clean <- MCClean
    MaxOps = 3

CHECK_DEADLOCK FALSE

INVARIANT TemplatesResolve
