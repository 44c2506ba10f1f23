SPECIFICATION Spec
CONSTANTS
  None = None
  NoEpoch = NoEpoch
  u1 = u1
  n1 = n1
  b1 = b1
  b2 = b2
  Names = {n1, n2}
  Users = {u1}
  Buckets = {b1, b2}
  Panels = {p1, p2}
  MaxSequence = 3
  MaxEpoch = 2
  NamespaceProof = FALSE
  MaxBytes = 2
  MaxFaults = 2
  Owners <- OwnersOne
  Registries <- Registries2
SYMMETRY PanelSymmetry
CONSTRAINT Focus
INVARIANTS LossIsAnnounced OneBucketPerReading
PROPERTIES ChargesOnce EarlierReadingKeepsItsBytes
CHECK_DEADLOCK FALSE
