CONSTANTS
  j1 = j1  j2 = j2  j3 = j3
  Jobs = {j1, j2, j3}
  MaxCalling = 2
  MaxSemaphores = 2
SPECIFICATION FairSpec
INVARIANTS TypeOK PermitsOfEach AgreedJobs
PROPERTIES JobsReturn
