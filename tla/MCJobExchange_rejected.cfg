\* A write the PLC answers with an error.
CONSTANTS
  r1 = r1  r2 = r2  w1 = w1
  Jobs = {w1}
  Kind <- MCKind
  Packages <- OnePackage
  Permits = 1
  RefModulus = 8
  MaxEpoch = 1
  Disturbances = {}
  Nobody = Nobody
  Null = Null
  Empty = Empty
SPECIFICATION Spec
INVARIANTS SuccessMeansAccepted
