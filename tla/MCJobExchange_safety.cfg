\* Two reads of two packages and one, two permits and two references, on a
\* connection that may break.
CONSTANTS
  r1 = r1  r2 = r2  w1 = w1
  Jobs = {r1, r2}
  Kind <- MCKind
  Packages <- TwoThenOne
  Permits = 2
  RefModulus = 3
  MaxEpoch = 1
  Disturbances = {"break"}
  Nobody = Nobody
  Null = Null
  Empty = Empty
SPECIFICATION FairSpec
INVARIANTS TypeOK PermitsConserved TableSound OwnAnswer NoCallerStranded
PROPERTIES LostCallsReturn KeepsPromise
