\* A read and a write with one permit on a connection that is closed.
CONSTANTS
  r1 = r1  r2 = r2  w1 = w1
  Jobs = {r1, w1}
  Kind <- MCKind
  Packages <- OnePackage
  Permits = 1
  RefModulus = 8
  MaxEpoch = 1
  Disturbances = {"close"}
  Nobody = Nobody
  Null = Null
  Empty = Empty
SPECIFICATION FairSpec
INVARIANTS NoCallerStranded
PROPERTIES EveryCallReturns KeepsPromise
